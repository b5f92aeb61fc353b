------------------------------- MODULE Install -------------------------------
(***************************************************************************)
(* An Install rpc: WaterfallServer.Install (server/server.go), the Go      *)
(* client's Install (client/client.go) and the package manager they drive, *)
(* of which a session and an installed package are what is seen.           *)
(*                                                                         *)
(* A command of the package manager prints Success if and only if it had   *)
(* its effect.  When it fails its exit code is one of FailCodes: the old   *)
(* pm exits with 0 also then, cmd does not.  A command that cannot be      *)
(* started has no effect and no exit code.                                 *)
(***************************************************************************)
EXTENDS Naturals

CONSTANTS
    Apis,               \* sdk versions, 0 when it cannot be read
    FailCodes,          \* exit codes of a command that failed
    Total               \* payload messages of the apk

ASSUME InstallAssumption ==
    Apis \subseteq Nat /\ FailCodes \subseteq Nat /\ Total \in Nat

VARIABLES
    api, noStreaming,   \* the device and the client's flag
    rpc,                \* "broken" once its context is done
    cl, sentc, half,    \* the client, payloads sent, half-close
    res,                \* the client's result
    srv, got,           \* the handler, payloads consumed
    ec,                 \* exit code to reply with
    status,             \* what the handler returned
    tmp,                \* the temporary file exists
    session,            \* the package manager's session; "kept" when an abandon
                        \* of it has failed
    installed,
    zeroFail            \* a command failed with exit code 0

fixed == <<api, noStreaming>>
clVars == <<cl, sentc, half, res>>
pmVars == <<session, installed, zeroFail>>
vars == <<fixed, rpc, clVars, srv, got, ec, status, tmp, pmVars>>

Over == rpc = "broken" \/ status # "none"
useCmd == api >= 25
Codes == IF useCmd THEN FailCodes \ {0} ELSE FailCodes
streamed == api >= 21 /\ ~noStreaming

Init ==
    /\ api \in Apis /\ noStreaming \in BOOLEAN
    /\ rpc = "open"
    /\ cl = "send" /\ sentc = 0 /\ half = FALSE /\ res = "none"
    /\ srv = "recv" /\ got = 0 /\ ec = 0 /\ status = "none" /\ tmp = FALSE
    /\ session = "none" /\ installed = FALSE /\ zeroFail = FALSE

Break ==
    /\ ~Over
    /\ rpc' = "broken"
    /\ UNCHANGED <<fixed, clVars, srv, got, ec, status, tmp, pmVars>>
-----------------------------------------------------------------------------
(* The client; the request that starts the session is sent before Init.    *)

ClientRest == UNCHANGED <<fixed, rpc, srv, got, ec, status, tmp, pmVars>>

\* A message may be sent after the server has replied.
ClientSend ==
    /\ cl = "send" /\ sentc < Total /\ rpc = "open"
    /\ sentc' = sentc + 1
    /\ ClientRest /\ UNCHANGED <<cl, half, res>>

\* Send fails once the rpc is over, and the reply is not looked at; or the
\* apk cannot be read, and the rpc is left as it is.
ClientFail ==
    /\ cl = "send"
    /\ cl' = "ret" /\ res' = "err"
    /\ ClientRest /\ UNCHANGED <<sentc, half>>

ClientClose ==
    /\ cl = "send" /\ sentc = Total
    /\ half' = TRUE /\ cl' = "wait"
    /\ ClientRest /\ UNCHANGED <<sentc, res>>

\* Mutant of ClientReply: the exit code is not looked at.
ClientReplyAny ==
    /\ cl = "wait" /\ Over
    /\ cl' = "ret"
    /\ res' = IF rpc = "open" /\ status = "nil" THEN "ok" ELSE "err"
    /\ ClientRest /\ UNCHANGED <<sentc, half>>

\* CloseAndRecv returns the reply, an early one too.
ClientReply ==
    /\ cl = "wait" /\ Over
    /\ cl' = "ret"
    /\ res' = IF rpc = "open" /\ status = "nil" /\ ec = 0 THEN "ok" ELSE "err"
    /\ ClientRest /\ UNCHANGED <<sentc, half>>

Client == ClientSend \/ ClientFail \/ ClientClose \/ ClientReply
-----------------------------------------------------------------------------
(* The handler.                                                            *)

SrvRest == UNCHANGED <<fixed, rpc, clVars>>

\* The handler returns; the deferred calls remove the temporary file.  A
\* reply cannot be sent on a broken rpc.
Return(s) ==
    /\ srv' = "ret"
    /\ status' = IF rpc = "broken" THEN "error" ELSE s
    /\ tmp' = FALSE
Reply(c) == ec' = c /\ Return("nil")
NoCode == Return("error") /\ UNCHANGED ec
Fails(c) == zeroFail' = (zeroFail \/ c = 0)

\* Recv, getVersion and the choice of how to install.
Start ==
    /\ srv = "recv"
    /\ \/ rpc = "open" /\ srv' = (IF streamed THEN "create" ELSE "temp") /\ UNCHANGED <<status, tmp>>
       \/ rpc = "broken" /\ Return("error")
    /\ SrvRest /\ UNCHANGED <<got, ec, pmVars>>

TempFile ==
    /\ srv = "temp"
    /\ \/ srv' = "copy" /\ tmp' = TRUE /\ UNCHANGED status
       \/ Return("error")
    /\ SrvRest /\ UNCHANGED <<got, ec, pmVars>>

\* A payload goes to the temporary file or to the command's stdin.
Payload ==
    /\ srv \in {"copy", "write"} /\ got < sentc
    /\ got' = got + 1
    /\ SrvRest /\ UNCHANGED <<srv, ec, status, tmp, pmVars>>

AllRead == half /\ got = sentc

\* The end of io.Copy, which may fail at any payload, and Chmod.
Copied ==
    /\ srv = "copy"
    /\ \/ AllRead /\ srv' = "pm" /\ UNCHANGED <<status, tmp>>
       \/ (got < sentc \/ half \/ rpc = "broken") /\ Return("error")
    /\ SrvRest /\ UNCHANGED <<got, ec, pmVars>>

\* pm install of the temporary file; its output is not looked at.
PmInstall ==
    /\ srv = "pm"
    /\ \/ installed' = TRUE /\ Reply(0) /\ UNCHANGED zeroFail
       \/ \E c \in FailCodes : Fails(c) /\ Reply(c) /\ UNCHANGED installed
       \/ NoCode /\ UNCHANGED <<installed, zeroFail>>
       \/ rpc = "broken" /\ installed' = TRUE /\ NoCode /\ UNCHANGED zeroFail
    /\ SrvRest /\ UNCHANGED <<got, session>>

\* install-create.  Without Success and with exit code 0 the handler looks
\* for a session in the output, and there is none.  With a session the handler
\* starts install-write, which may fail.
Create ==
    /\ srv = "create"
    /\ \/ /\ session' = "open" /\ srv' \in {"write", "abandonErr"}
          /\ UNCHANGED <<ec, status, tmp, zeroFail>>
       \/ /\ \E c \in Codes :
               Fails(c) /\ (IF c = 0 THEN NoCode ELSE Reply(c))
          /\ UNCHANGED session
       \/ NoCode /\ UNCHANGED <<session, zeroFail>>
       \/ rpc = "broken" /\ session' = "open" /\ NoCode /\ UNCHANGED zeroFail
    /\ SrvRest /\ UNCHANGED <<got, installed>>

\* Mutant of WriteFails: no context ends the command.
WriteFailsNoContext ==
    /\ srv = "write"
    /\ got < sentc \/ half
    /\ got' = IF got < sentc THEN got + 1 ELSE got
    /\ \E c \in Codes :
         /\ Fails(c) /\ ec' = c
         /\ srv' = IF c = 0 THEN "commit" ELSE "abandon"
    /\ SrvRest /\ UNCHANGED <<status, tmp, session, installed>>

\* install-write has failed or was killed; Wait returns when the goroutine
\* that copies its stdin does, after one more payload or the end.  An exit
\* code of 0 is not taken for a failure.
WriteFails ==
    /\ srv = "write"
    /\ got < sentc \/ half \/ rpc = "broken"
    /\ got' = IF got < sentc THEN got + 1 ELSE got
    /\ \/ \E c \in Codes :
            /\ Fails(c) /\ ec' = c
            /\ srv' = IF c = 0 THEN "commit" ELSE "abandon"
       \/ /\ rpc = "broken" /\ srv' = "abandonErr"
          /\ UNCHANGED <<ec, zeroFail>>
    /\ SrvRest /\ UNCHANGED <<status, tmp, session, installed>>

\* Mutant of Written: install-write is not waited for.
WrittenEarly ==
    /\ srv = "write"
    /\ session' = "written" /\ srv' = "commit"
    /\ SrvRest /\ UNCHANGED <<got, ec, status, tmp, installed, zeroFail>>

\* install-write -S takes the number of bytes it was told, no fewer.
Written ==
    /\ srv = "write" /\ AllRead /\ got = Total
    /\ session' = "written" /\ srv' = "commit"
    /\ SrvRest /\ UNCHANGED <<got, ec, status, tmp, installed, zeroFail>>

\* install-commit; an exit code of 0 is replied as it is.
Commit ==
    /\ srv = "commit"
    /\ \/ /\ session = "written"
          /\ session' = "committed" /\ installed' = TRUE
          /\ Reply(0) /\ UNCHANGED zeroFail
       \/ /\ \E c \in Codes :
               /\ Fails(c)
               /\ IF c = 0 THEN Reply(c) ELSE ec' = c /\ srv' = "abandon" /\ UNCHANGED <<status, tmp>>
          /\ UNCHANGED <<session, installed>>
       \/ /\ srv' = "abandonErr"
          /\ \/ UNCHANGED installed
             \/ rpc = "broken" /\ session = "written" /\ installed' = TRUE
          /\ UNCHANGED <<ec, status, tmp, session, zeroFail>>
    /\ SrvRest /\ UNCHANGED got

\* What is replied after the abandon: the first error or its exit code.
AbandonReply ==
    \/ srv = "abandon" /\ Reply(ec)
    \/ srv = "abandonErr" /\ NoCode

\* Mutant of Abandon: the session is not abandoned.
AbandonNot == AbandonReply /\ SrvRest /\ UNCHANGED <<got, pmVars>>

\* install-abandon, whose error is ignored.  It runs with the context of the rpc.
Abandon ==
    /\ AbandonReply
    /\ \/ rpc = "open" /\ session' \in {"abandoned", "kept"}
       \/ rpc = "broken" /\ UNCHANGED session
    /\ SrvRest /\ UNCHANGED <<got, installed, zeroFail>>

Handler ==
    \/ Start \/ TempFile \/ Payload \/ Copied \/ PmInstall
    \/ Create \/ WriteFails \/ Written \/ Commit \/ Abandon
-----------------------------------------------------------------------------
Next == Break \/ Client \/ Handler

Spec == Init /\ [][Next]_vars
FairSpec == Spec /\ WF_vars(Client) /\ WF_vars(Handler)
-----------------------------------------------------------------------------
(* Properties.                                                             *)

\* The variables keep their types.
TypeOK ==
    /\ api \in Apis /\ noStreaming \in BOOLEAN
    /\ rpc \in {"open", "broken"}
    /\ cl \in {"send", "wait", "ret"} /\ sentc \in 0..Total /\ half \in BOOLEAN
    /\ res \in {"none", "ok", "err"}
    /\ srv \in {"recv", "temp", "copy", "pm", "create", "write", "commit", "abandon", "abandonErr", "ret"}
    /\ got \in 0..Total /\ ec \in FailCodes \cup {0}
    /\ status \in {"none", "nil", "error"} /\ tmp \in BOOLEAN
    /\ session \in {"none", "open", "written", "committed", "abandoned", "kept"}
    /\ installed \in BOOLEAN /\ zeroFail \in BOOLEAN

\* The caller is told the truth: success means that the package is installed,
\* unless a command failed with exit code 0, and an error on an rpc that did
\* not break means that it is not.
ResultIsTrue ==
    /\ res = "ok" => installed \/ zeroFail
    /\ res = "err" /\ rpc = "open" => ~installed

\* A package is installed only when its whole payload was received.
InstalledIsWhole == installed => AllRead /\ got = Total

\* A handler that returned has settled the session it opened: committed, or an
\* abandon was run, whether or not that worked, and never on a package that was
\* installed.  The exceptions are a context that is done, with which no command
\* runs, and a command that failed with exit code 0 (server.go:475-509).
SessionSettled ==
    /\ status # "none" => session \notin {"open", "written"} \/ rpc = "broken" \/ zeroFail
    /\ session \in {"abandoned", "kept"} => ~installed

\* The call returns, and so does the handler unless the client could not read
\* the apk to the end and left the rpc open.
InstallEnds ==
    <>(cl = "ret" /\ (srv = "ret" \/ (~half /\ rpc = "open")))
=============================================================================

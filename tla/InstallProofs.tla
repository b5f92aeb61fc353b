---------------------------- MODULE InstallProofs ----------------------------
(***************************************************************************)
(* Proofs about Install, for any sdk versions, exit codes and size of the  *)
(* apk: the client is told the truth, only a whole package is installed,   *)
(* and nothing is left behind.                                             *)
(***************************************************************************)
EXTENDS Install, TLAPS

Whole == half /\ got = sentc /\ sentc = Total

\* The client has half-closed only after the whole apk, and its result is an
\* error without the half-close or what the server replied.
ClientInv ==
    /\ half => sentc = Total
    /\ cl = "send" => ~half
    /\ cl = "wait" => half
    /\ cl # "ret" <=> res = "none"
    /\ res = "ok" => status = "nil" /\ ec = 0
    /\ res = "err" /\ rpc = "open" => ~half \/ status = "error" \/ (status = "nil" /\ ec # 0)

\* Where the handler is tells what it has received and made.
HandlerInv ==
    /\ got <= sentc
    /\ srv = "pm" \/ session \in {"written", "committed"} \/ installed => Whole
    /\ srv = "ret" <=> status # "none"
    /\ srv = "ret" => ~tmp
    /\ srv \in {"recv", "temp", "copy", "pm", "create"} => session = "none" /\ ~installed
    /\ srv = "abandon" => ec # 0
    /\ installed /\ rpc = "open" => status = "nil" /\ ec = 0
    /\ status = "nil" /\ ec = 0 => installed \/ zeroFail
    /\ srv # "ret" => session \notin {"abandoned", "kept"}
    /\ SessionSettled

IInv == TypeOK /\ ClientInv /\ HandlerInv

\* The invariant is what the properties need.
LEMMA IInvImplies == IInv => ResultIsTrue /\ InstalledIsWhole /\ SessionSettled
<1> SUFFICES ASSUME IInv PROVE ResultIsTrue /\ InstalledIsWhole /\ SessionSettled
  OBVIOUS
<1>1. res = "ok" => installed \/ zeroFail BY DEF IInv, ClientInv, HandlerInv
<1>2. installed => Whole BY DEF IInv, HandlerInv
<1>3. res = "err" /\ rpc = "open" => ~installed
  BY <1>2 DEF IInv, ClientInv, HandlerInv, Whole
<1>4. SessionSettled BY DEF IInv, HandlerInv
<1> QED BY <1>1, <1>2, <1>3, <1>4 DEF ResultIsTrue, InstalledIsWhole, Whole, AllRead

\* The invariant holds at the start.
LEMMA InitInv == Init => IInv
<1> SUFFICES ASSUME Init PROVE IInv
  OBVIOUS
<1>1. Total \in Nat BY InstallAssumption
<1>2. TypeOK
  <2>1. sentc \in 0..Total /\ got \in 0..Total /\ ec \in FailCodes \cup {0} BY <1>1 DEF Init
  <2> QED BY <2>1, Zenon DEF Init, TypeOK
<1>3. ClientInv BY DEF Init, ClientInv
<1>4. HandlerInv BY DEF Init, HandlerInv, SessionSettled
<1> QED BY <1>2, <1>3, <1>4 DEF IInv

\* The rpc breaks.
LEMMA BreakStep == ASSUME IInv, Break PROVE IInv'
<1>1. /\ rpc' = "broken" /\ status = "none"
      /\ UNCHANGED <<api, noStreaming, cl, sentc, half, res, srv, got, ec, status, tmp, session, installed, zeroFail>>
  BY DEF Break, Over, fixed, clVars, pmVars
<1>2. TypeOK' BY <1>1 DEF IInv, TypeOK
<1>3. ClientInv' BY <1>1 DEF IInv, ClientInv
<1>4. HandlerInv' BY <1>1 DEF IInv, HandlerInv, Whole, SessionSettled
<1> QED BY <1>2, <1>3, <1>4 DEF IInv

\* A step of the client.
LEMMA ClientStep == ASSUME IInv, Client PROVE IInv'
<1>1. UNCHANGED <<api, noStreaming, rpc, srv, got, ec, status, tmp, session, installed, zeroFail>>
  BY DEF Client, ClientSend, ClientFail, ClientClose, ClientReply, ClientRest, fixed, pmVars
<1>2. TypeOK /\ ClientInv /\ HandlerInv /\ Total \in Nat BY InstallAssumption DEF IInv
<1>3. /\ sentc \in Nat /\ got \in Nat /\ sentc <= Total
      /\ rpc \in {"open", "broken"} /\ status \in {"none", "nil", "error"}
  BY <1>2 DEF TypeOK
<1>4. CASE ClientSend
  <2>1. /\ cl = "send" /\ sentc < Total /\ sentc' = sentc + 1 /\ UNCHANGED <<cl, half, res>>
    BY <1>4 DEF ClientSend
  <2>2. TypeOK' BY <1>1, <1>2, <1>3, <2>1 DEF TypeOK
  <2>3. ClientInv' BY <1>1, <1>2, <2>1 DEF ClientInv
  <2>4. HandlerInv' BY <1>1, <1>2, <1>3, <2>1 DEF HandlerInv, ClientInv, Whole, SessionSettled
  <2> QED BY <2>2, <2>3, <2>4 DEF IInv
<1>5. CASE ClientFail
  <2>1. cl = "send" /\ cl' = "ret" /\ res' = "err" /\ UNCHANGED <<sentc, half>>
    BY <1>5 DEF ClientFail
  <2>2. TypeOK' BY <1>1, <1>2, <2>1 DEF TypeOK
  <2>3. ClientInv' BY <1>1, <1>2, <2>1 DEF ClientInv
  <2>4. HandlerInv' BY <1>1, <1>2, <2>1 DEF HandlerInv, Whole, SessionSettled
  <2> QED BY <2>2, <2>3, <2>4 DEF IInv
<1>6. CASE ClientClose
  <2>1. /\ cl = "send" /\ sentc = Total /\ half' = TRUE /\ cl' = "wait"
        /\ UNCHANGED <<sentc, res>>
    BY <1>6 DEF ClientClose
  <2>2. TypeOK' BY <1>1, <1>2, <2>1 DEF TypeOK
  <2>3. ClientInv' BY <1>1, <1>2, <2>1 DEF ClientInv
  <2>4. HandlerInv' BY <1>1, <1>2, <2>1 DEF HandlerInv, ClientInv, Whole, SessionSettled
  <2> QED BY <2>2, <2>3, <2>4 DEF IInv
<1>7. CASE ClientReply
  <2>1. /\ cl = "wait" /\ cl' = "ret" /\ (rpc = "broken" \/ status # "none")
        /\ res' = IF rpc = "open" /\ status = "nil" /\ ec = 0 THEN "ok" ELSE "err"
        /\ UNCHANGED <<sentc, half>>
    BY <1>7 DEF ClientReply, Over
  <2>2. TypeOK' BY <1>1, <1>2, <2>1 DEF TypeOK
  <2>3. ClientInv' BY <1>1, <1>2, <1>3, <2>1 DEF ClientInv
  <2>4. HandlerInv' BY <1>1, <1>2, <2>1 DEF HandlerInv, Whole, SessionSettled
  <2> QED BY <2>2, <2>3, <2>4 DEF IInv
<1> QED BY <1>4, <1>5, <1>6, <1>7 DEF Client

\* What every step of the handler leaves alone.
LEMMA HandlerRest ==
    ASSUME Handler PROVE UNCHANGED <<api, noStreaming, rpc, cl, sentc, half, res>>
BY DEF Handler, Start, TempFile, Payload, Copied, PmInstall, Create, WriteFails,
       Written, Commit, Abandon, SrvRest, fixed, clVars

\* Before it returns, what the handler does is not the client's result.
LEMMA ClientKept ==
    ASSUME IInv, UNCHANGED <<rpc, cl, sentc, half, res>>,
           srv # "ret"
    PROVE  ClientInv'
<1>1. status = "none" BY DEF IInv, HandlerInv
<1>2. res = "ok" => FALSE BY <1>1 DEF IInv, ClientInv
<1> QED BY <1>1, <1>2 DEF IInv, ClientInv

\* A step that reads payloads or makes the temporary file.
LEMMA ReadStep ==
    ASSUME IInv, Start \/ TempFile \/ Payload \/ Copied PROVE IInv'
<1>1. UNCHANGED <<api, noStreaming, rpc, cl, sentc, half, res>> BY HandlerRest DEF Handler
<1>2. TypeOK /\ ClientInv /\ HandlerInv /\ Total \in Nat BY InstallAssumption DEF IInv
<1>3. sentc \in Nat /\ got \in Nat /\ sentc <= Total /\ got <= sentc
  BY <1>2 DEF TypeOK, HandlerInv
<1>4. srv # "ret" BY DEF Start, TempFile, Payload, Copied
<1>5. ClientInv' BY <1>1, <1>4, ClientKept
<1>6. UNCHANGED <<ec, session, installed, zeroFail>>
  BY DEF Start, TempFile, Payload, Copied, pmVars
<1>7. CASE Payload
  <2>1. /\ srv \in {"copy", "write"} /\ got < sentc /\ got' = got + 1
        /\ UNCHANGED <<srv, status, tmp>>
    BY <1>7 DEF Payload
  <2>2. TypeOK' BY <1>1, <1>2, <1>3, <1>6, <2>1 DEF TypeOK
  <2>3. HandlerInv' BY <1>1, <1>2, <1>3, <1>6, <2>1 DEF HandlerInv, Whole, SessionSettled
  <2> QED BY <1>5, <2>2, <2>3 DEF IInv
<1>8. CASE Start \/ TempFile \/ Copied
  <2>1. /\ got' = got /\ srv \in {"recv", "temp", "copy"} /\ session = "none" /\ ~installed'
        /\ \/ srv' = "ret" /\ status' = "error" /\ tmp' = FALSE
           \/ /\ srv' \in {"create", "temp", "copy"} /\ status' = status /\ tmp' \in BOOLEAN
           \/ srv' = "pm" /\ AllRead /\ status' = status /\ tmp' = tmp
    <3>1. srv \in {"recv", "temp", "copy"} /\ session = "none" /\ ~installed /\ tmp \in BOOLEAN
      BY <1>2, <1>8 DEF Start, TempFile, Copied, HandlerInv, TypeOK
    <3>2. got' = got BY <1>8 DEF Start, TempFile, Copied
    <3>3. CASE Start BY <1>6, <3>1, <3>2, <3>3 DEF Start, Return
    <3>4. CASE TempFile BY <1>6, <3>1, <3>2, <3>4 DEF TempFile, Return
    <3>5. CASE Copied BY <1>6, <3>1, <3>2, <3>5 DEF Copied, Return
    <3> QED BY <1>8, <3>3, <3>4, <3>5
  <2>2. status = "none" /\ rpc \in {"open", "broken"} BY <1>2, <2>1 DEF HandlerInv, TypeOK
  <2>3. TypeOK'
    <3>1. tmp \in BOOLEAN BY <1>2 DEF TypeOK
    <3>2. tmp' \in BOOLEAN BY <2>1, <3>1, Zenon
    <3>3. /\ srv' \in {"recv", "temp", "copy", "pm", "create", "write", "commit", "abandon", "abandonErr", "ret"}
          /\ status' \in {"none", "nil", "error"}
      BY <2>1, <2>2
    <3> QED BY <1>1, <1>2, <1>6, <2>1, <3>2, <3>3, Zenon DEF TypeOK
  <2>4. srv' = "pm" => Whole' BY <1>1, <1>2, <2>1 DEF AllRead, Whole, ClientInv
  <2>5. HandlerInv' BY <1>1, <1>2, <1>6, <2>1, <2>2, <2>4 DEF HandlerInv, SessionSettled
  <2> QED BY <1>5, <2>3, <2>5 DEF IInv
<1> QED BY <1>7, <1>8

\* pm install, and install-create.
LEMMA PmStep ==
    ASSUME IInv, PmInstall \/ Create PROVE IInv'
<1>1. UNCHANGED <<api, noStreaming, rpc, cl, sentc, half, res>> BY HandlerRest DEF Handler
<1>2. TypeOK /\ ClientInv /\ HandlerInv BY DEF IInv
<1>3. /\ srv \in {"pm", "create"} /\ got' = got /\ session = "none" /\ ~installed
      /\ status = "none" /\ rpc \in {"open", "broken"}
  BY <1>2 DEF PmInstall, Create, HandlerInv, TypeOK
<1>4. ClientInv' BY <1>1, <1>3, ClientKept
<1>5. CASE PmInstall
  <2>1. Whole /\ session' = "none" BY <1>2, <1>3, <1>5 DEF PmInstall, HandlerInv
  <2>2. srv' = "ret" /\ tmp' = FALSE BY <1>5 DEF PmInstall, Reply, NoCode, Return
  <2>3. \/ /\ installed' = TRUE /\ ec' = 0 /\ zeroFail' = zeroFail
           /\ status' = IF rpc = "broken" THEN "error" ELSE "nil"
        \/ /\ ~installed' /\ ec' \in FailCodes /\ zeroFail' = (zeroFail \/ ec' = 0)
           /\ status' = IF rpc = "broken" THEN "error" ELSE "nil"
        \/ /\ installed' => rpc = "broken"
           /\ status' = "error"
           /\ ec' = ec /\ zeroFail' = zeroFail
    BY <1>3, <1>5, Zenon DEF PmInstall, Reply, NoCode, Return, Fails
  <2>4. TypeOK'
    <3>1. zeroFail \in BOOLEAN /\ installed \in BOOLEAN /\ ec \in FailCodes \cup {0}
      BY <1>2 DEF TypeOK
    <3>2. status' \in {"none", "nil", "error"} BY <2>3
    <3>3. zeroFail' \in BOOLEAN /\ ec' \in FailCodes \cup {0} BY <2>3, <3>1, Zenon
    <3>4. installed' \in BOOLEAN BY <1>5, <3>1, Zenon DEF PmInstall
    <3> QED BY <1>1, <1>2, <1>3, <2>1, <2>2, <3>2, <3>3, <3>4, Zenon DEF TypeOK
  <2>5. HandlerInv'
    BY <1>1, <1>2, <1>3, <2>1, <2>2, <2>3 DEF HandlerInv, Whole, SessionSettled
  <2> QED BY <1>4, <2>4, <2>5 DEF IInv
<1>6. CASE Create
  <2>1. installed' = FALSE BY <1>3, <1>6 DEF Create
  <2>2. \/ /\ session' = "open" /\ srv' \in {"write", "abandonErr"}
           /\ UNCHANGED <<ec, status, tmp, zeroFail>>
        \/ /\ session' = "none" /\ srv' = "ret" /\ tmp' = FALSE
           /\ status' \in {"nil", "error"} /\ (rpc = "broken" => status' = "error")
           /\ ec' \in FailCodes \cup {ec} /\ (status' = "nil" => ec' # 0)
           /\ zeroFail' \in BOOLEAN
        \/ /\ session' \in {"none", "open"} /\ (session' = "open" => rpc = "broken")
           /\ srv' = "ret" /\ tmp' = FALSE
           /\ status' = "error" /\ UNCHANGED <<ec, zeroFail>>
    BY <1>3, <1>6 DEF Create, Reply, NoCode, Return, Fails, Codes
  <2>3. TypeOK'
    <3>1. zeroFail \in BOOLEAN /\ ec \in FailCodes \cup {0} /\ tmp \in BOOLEAN BY <1>2 DEF TypeOK
    <3>2. /\ status' \in {"none", "nil", "error"}
          /\ session' \in {"none", "open", "written", "committed", "abandoned", "kept"}
          /\ srv' \in {"recv", "temp", "copy", "pm", "create", "write", "commit", "abandon", "abandonErr", "ret"}
      BY <1>3, <2>2
    <3>3. tmp' \in BOOLEAN /\ zeroFail' \in BOOLEAN /\ ec' \in FailCodes \cup {0}
      BY <2>2, <3>1, Zenon
    <3> QED BY <1>1, <1>2, <1>3, <2>1, <3>2, <3>3, Zenon DEF TypeOK
  <2>4. HandlerInv'
    BY <1>1, <1>2, <1>3, <2>1, <2>2 DEF HandlerInv, Whole, SessionSettled
  <2> QED BY <1>4, <2>3, <2>4 DEF IInv
<1> QED BY <1>5, <1>6

\* install-write, whether it fails or not.
LEMMA WriteStep ==
    ASSUME IInv, WriteFails \/ Written PROVE IInv'
<1>1. UNCHANGED <<api, noStreaming, rpc, cl, sentc, half, res>> BY HandlerRest DEF Handler
<1>2. TypeOK /\ ClientInv /\ HandlerInv /\ Total \in Nat BY InstallAssumption DEF IInv
<1>3. sentc \in Nat /\ got \in Nat /\ sentc <= Total /\ got <= sentc
  BY <1>2 DEF TypeOK, HandlerInv
<1>4. srv = "write" /\ UNCHANGED <<status, tmp, installed>>
  BY DEF WriteFails, Written
<1>5. ClientInv' BY <1>1, <1>4, ClientKept
<1>6. status = "none" /\ rpc \in {"open", "broken"} BY <1>2, <1>4 DEF HandlerInv, TypeOK
<1>7. CASE WriteFails
  <2>1. session' = session /\ got' = (IF got < sentc THEN got + 1 ELSE got) BY <1>7 DEF WriteFails
  <2>2. \/ srv' = "commit" /\ ec' \in FailCodes
        \/ srv' = "abandon" /\ ec' \in FailCodes /\ ec' # 0
        \/ srv' = "abandonErr" /\ ec' = ec
    BY <1>7 DEF WriteFails, Codes
  <2>3. zeroFail' \in BOOLEAN
    <3>1. zeroFail \in BOOLEAN BY <1>2 DEF TypeOK
    <3> QED BY <1>7, <3>1, Zenon DEF WriteFails, Fails
  <2>4. TypeOK'
    <3>1. got' \in 0..Total BY <1>2, <1>3, <2>1
    <3>2. srv' \in {"recv", "temp", "copy", "pm", "create", "write", "commit", "abandon", "abandonErr", "ret"} /\ ec' \in FailCodes \cup {0}
      BY <1>2, <2>2 DEF TypeOK
    <3>3. session' = session BY <2>1
    <3>4. /\ status' \in {"none", "nil", "error"}
          /\ session' \in {"none", "open", "written", "committed", "abandoned", "kept"}
          /\ sentc' \in 0..Total
      BY <1>1, <1>2, <1>4, <3>3 DEF TypeOK
    <3>5. TypeOK BY <1>2
    <3> QED BY <1>1, <1>4, <2>3, <3>1, <3>2, <3>4, <3>5, Zenon DEF TypeOK
  <2>5. got' <= sentc' /\ (Whole => got' = got) BY <1>1, <1>3, <2>1 DEF Whole
  <2>6. installed \/ session \in {"written", "committed"} => Whole' /\ Whole
    BY <1>1, <1>2, <2>5 DEF HandlerInv, Whole
  <2>7. installed => rpc = "broken" BY <1>2, <1>6 DEF HandlerInv
  <2>8. HandlerInv'
    BY <1>1, <1>2, <1>4, <1>6, <2>1, <2>2, <2>5, <2>6, <2>7 DEF HandlerInv, SessionSettled
  <2> QED BY <1>5, <2>4, <2>8 DEF IInv
<1>8. CASE Written
  <2>1. /\ session' = "written" /\ srv' = "commit" /\ UNCHANGED <<got, ec, zeroFail>>
        /\ half /\ got = sentc /\ got = Total
    BY <1>8 DEF Written, AllRead
  <2>2. TypeOK'
    <3>1. /\ session' \in {"none", "open", "written", "committed", "abandoned", "kept"}
          /\ srv' \in {"recv", "temp", "copy", "pm", "create", "write", "commit", "abandon", "abandonErr", "ret"}
          /\ status' \in {"none", "nil", "error"}
          /\ sentc' \in 0..Total /\ got' \in 0..Total /\ ec' \in FailCodes \cup {0}
      BY <1>1, <1>2, <1>4, <2>1 DEF TypeOK
    <3>2. TypeOK /\ zeroFail' = zeroFail BY <1>2, <2>1
    <3> QED BY <1>1, <1>4, <3>1, <3>2, Zenon DEF TypeOK
  <2>3. Whole' BY <1>1, <2>1 DEF Whole
  <2>4. HandlerInv' BY <1>1, <1>2, <1>4, <1>6, <2>1, <2>3 DEF HandlerInv, SessionSettled
  <2> QED BY <1>5, <2>2, <2>4 DEF IInv
<1> QED BY <1>7, <1>8

\* install-commit and install-abandon.
LEMMA CommitStep ==
    ASSUME IInv, Commit \/ Abandon PROVE IInv'
<1>1. UNCHANGED <<api, noStreaming, rpc, cl, sentc, half, res>> BY HandlerRest DEF Handler
<1>2. TypeOK /\ ClientInv /\ HandlerInv BY DEF IInv
<1>3. srv \in {"commit", "abandon", "abandonErr"} /\ got' = got BY DEF Commit, Abandon, AbandonReply
<1>4. ClientInv' BY <1>1, <1>3, ClientKept
<1>5. status = "none" /\ rpc \in {"open", "broken"} /\ (installed => rpc = "broken")
  BY <1>2, <1>3 DEF HandlerInv, TypeOK
<1>6. /\ tmp \in BOOLEAN /\ zeroFail \in BOOLEAN /\ installed \in BOOLEAN
      /\ ec \in FailCodes \cup {0}
  BY <1>2 DEF TypeOK
<1>7. Whole' <=> Whole BY <1>1, <1>3 DEF Whole
<1>8. CASE Commit
  <2>1. \/ /\ session = "written" /\ session' = "committed" /\ installed' = TRUE
           /\ ec' = 0 /\ srv' = "ret" /\ tmp' = FALSE /\ zeroFail' = zeroFail
           /\ status' = IF rpc = "broken" THEN "error" ELSE "nil"
        \/ /\ ec' = 0 /\ ec' \in FailCodes /\ zeroFail' = TRUE /\ srv' = "ret" /\ tmp' = FALSE
           /\ status' = (IF rpc = "broken" THEN "error" ELSE "nil")
           /\ UNCHANGED <<session, installed>>
        \/ /\ ec' # 0 /\ ec' \in FailCodes /\ zeroFail' \in BOOLEAN /\ srv' = "abandon"
           /\ UNCHANGED <<status, tmp, session, installed>>
        \/ /\ srv' = "abandonErr"
           /\ installed' \in BOOLEAN
           /\ installed' => installed \/ (rpc = "broken" /\ session = "written")
           /\ UNCHANGED <<ec, status, tmp, session, zeroFail>>
    BY <1>6, <1>8 DEF Commit, Reply, Return, Fails, Codes
  <2>2. TypeOK'
    <3>1. /\ srv' \in {"recv", "temp", "copy", "pm", "create", "write", "commit", "abandon", "abandonErr", "ret"}
          /\ status' \in {"none", "nil", "error"}
          /\ session' \in {"none", "open", "written", "committed", "abandoned", "kept"}
      BY <1>2, <1>5, <2>1 DEF TypeOK
    <3>2. /\ installed' \in BOOLEAN /\ zeroFail' \in BOOLEAN /\ tmp' \in BOOLEAN
          /\ ec' \in FailCodes \cup {0}
      BY <1>6, <2>1, Zenon
    <3> QED BY <1>1, <1>2, <1>3, <3>1, <3>2, Zenon DEF TypeOK
  <2>3. session' \in {"written", "committed"} \/ installed' => Whole'
    BY <1>2, <1>7, <2>1 DEF HandlerInv
  <2>4. HandlerInv'
    <3>1. got' <= sentc' BY <1>1, <1>2, <1>3 DEF HandlerInv
    <3>2. srv' # "pm" /\ srv' \in {"ret", "abandon", "abandonErr"} BY <2>1
    <3>3. srv' = "ret" <=> status' # "none" BY <1>5, <2>1
    <3>4. srv' = "ret" => ~tmp' BY <2>1
    <3>5. srv' = "abandon" => ec' # 0 BY <2>1
    <3>6. installed' /\ rpc' = "open" => status' = "nil" /\ ec' = 0 BY <1>1, <1>5, <2>1
    <3>7. status' = "nil" /\ ec' = 0 => installed' \/ zeroFail' BY <1>5, <2>1
    <3>8. session' \notin {"abandoned", "kept"} BY <1>2, <1>3, <2>1 DEF HandlerInv
    <3>9. SessionSettled' BY <1>1, <1>5, <2>1, <3>8 DEF SessionSettled
    <3> QED BY <2>3, <3>1, <3>2, <3>3, <3>4, <3>5, <3>6, <3>7, <3>8, <3>9 DEF HandlerInv
  <2> QED BY <1>4, <2>2, <2>4 DEF IInv
<1>9. CASE Abandon
  <2>1. /\ srv' = "ret" /\ tmp' = FALSE /\ ec' = ec /\ UNCHANGED <<installed, zeroFail>>
        /\ \/ rpc = "open" /\ session' \in {"abandoned", "kept"}
           \/ rpc = "broken" /\ session' = session
        /\ status' \in {"nil", "error"} /\ (status' = "nil" => ec # 0)
    BY <1>2, <1>5, <1>9 DEF Abandon, AbandonReply, Reply, NoCode, Return, HandlerInv
  <2>2. TypeOK'
    <3>1. /\ status' \in {"none", "nil", "error"}
          /\ session' \in {"none", "open", "written", "committed", "abandoned", "kept"}
      BY <1>2, <1>5, <2>1 DEF TypeOK
    <3> QED BY <1>1, <1>2, <1>3, <2>1, <3>1, Zenon DEF TypeOK
  <2>3. HandlerInv'
    BY <1>1, <1>2, <1>3, <1>5, <1>7, <2>1 DEF HandlerInv, SessionSettled
  <2> QED BY <1>4, <2>2, <2>3 DEF IInv
<1> QED BY <1>8, <1>9

\* Every step keeps the invariant.
LEMMA StepInv == IInv /\ [Next]_vars => IInv'
<1> SUFFICES ASSUME IInv, [Next]_vars PROVE IInv'
  OBVIOUS
<1>1. CASE Break BY <1>1, BreakStep
<1>2. CASE Client BY <1>2, ClientStep
<1>3. CASE Start \/ TempFile \/ Payload \/ Copied BY <1>3, ReadStep
<1>4. CASE PmInstall \/ Create BY <1>4, PmStep
<1>5. CASE WriteFails \/ Written BY <1>5, WriteStep
<1>6. CASE Commit \/ Abandon BY <1>6, CommitStep
<1>7. CASE UNCHANGED vars
  <2>1. UNCHANGED <<api, noStreaming, rpc, cl, sentc, half, res, srv, got, ec, status, tmp,
                    session, installed, zeroFail>>
    BY <1>7 DEF vars, fixed, clVars, pmVars
  <2>2. TypeOK' BY <2>1 DEF IInv, TypeOK
  <2>3. ClientInv' BY <2>1 DEF IInv, ClientInv
  <2>4. HandlerInv' BY <2>1 DEF IInv, HandlerInv, Whole, SessionSettled
  <2> QED BY <2>2, <2>3, <2>4 DEF IInv
<1> QED BY <1>1, <1>2, <1>3, <1>4, <1>5, <1>6, <1>7 DEF Next, Handler

\* The invariant holds for every device, every set of exit codes and every
\* size of the apk.
THEOREM Invariance == Spec => []IInv
<1> QED BY InitInv, StepInv, PTL DEF Spec

\* Install of client.go reports success only for a package that the package
\* manager has installed (or that a command refused with exit code 0), and
\* on a connection that held an error only for one that it has not.
THEOREM ResultTrue == Spec => []ResultIsTrue
<1>1. IInv => ResultIsTrue BY IInvImplies
<1> QED BY Invariance, <1>1, PTL

\* A transfer cut anywhere is never installed.
THEOREM OnlyWhole == Spec => []InstalledIsWhole
<1>1. IInv => InstalledIsWhole BY IInvImplies
<1> QED BY Invariance, <1>1, PTL

\* However the handler returns, it has committed its session or run an abandon
\* of it, with the exceptions of SessionSettled, and it abandons no package that
\* was installed (server.go:475-509).
THEOREM Settles == Spec => []SessionSettled
<1>1. IInv => SessionSettled BY IInvImplies
<1> QED BY Invariance, <1>1, PTL
=============================================================================

----------------------------- MODULE DialProofs -----------------------------
(***************************************************************************)
(* Proofs about calls to the next server, for any URLs and any number of   *)
(* calls, and about DNS queries, for any sound chain of handlers, queries, *)
(* records, servers and search domains.                                    *)
(***************************************************************************)
EXTENDS MCCalls, SequenceTheorems, WellFoundedInduction, TLAPS

Busy == call.pc \notin {"idle", "pass"}

\* What the steps of a call know of the dialer and of its gRPC connection.
CallInv ==
    /\ stored => dialer.url \in URL
    /\ Busy => stored /\ call.url \in URL
    /\ call.pc \in {"dial", "next", "closeDial", "nextClose"} => dialer.url = call.url
    /\ call.pc \in {"redial", "dial", "closeDial"} =>
          \/ dialer.conn = 0
          \/ conns[dialer.conn].state # "open"
    /\ call.pc \in {"closeOld", "next"} =>
          /\ dialer.conn # 0
          /\ conns[dialer.conn].url = dialer.url
          /\ chainDone \/ conns[dialer.conn].state = "open"
    /\ call.pc = "nextClose" =>
          \/ dialer.url \in lost
          \/ dialer.conn # 0 /\ conns[dialer.conn].url = dialer.url

\* A Find runs on a gRPC connection of its own.
FindInv ==
    /\ find.pc \in {"none", "dial"} => find.conn = 0
    /\ find.pc # "none" => find.url \in URL
    /\ find.pc \in {"next", "open"} =>
          /\ find.conn # 0
          /\ conns[find.conn].url = find.url
          /\ chainDone \/ conns[find.conn].state = "open"
    /\ find.conn = dialer.conn => find.conn = 0

\* What is said of the dialer, its calls and its gRPC connections.
ConnInv ==
    /\ stored \in BOOLEAN /\ chainDone \in BOOLEAN
    /\ conns \in Seq(GrpcConn)
    /\ dialer \in Dialer /\ dialer.conn <= Len(conns)
    /\ ~stored => dialer = NewDialer
    /\ call \in Call
    /\ find \in FindCall /\ find.conn <= Len(conns)
    /\ ConnsHaveOwner
    /\ CallInv
    /\ FindInv

DialInv == TypeOK /\ ConnInv /\ NoServerLeftBehind

-----------------------------------------------------------------------------
LEMMA CancelledFacts ==
    ASSUME conns \in Seq(GrpcConn), NEW c
    PROVE  /\ Cancelled(c) \in Seq(GrpcConn)
           /\ Len(Cancelled(c)) = Len(conns)
           /\ \A i \in 1 .. Len(conns) :
                 /\ Cancelled(c)[i].url = conns[i].url
                 /\ Cancelled(c)[i].state =
                       IF i = c /\ conns[i].state = "open" THEN "cancelled" ELSE conns[i].state
  <1>1. DOMAIN conns = 1 .. Len(conns) /\ Len(conns) \in Nat
    OBVIOUS
  <1>2. \A i \in 1 .. Len(conns) : conns[i] \in GrpcConn
    BY ElementOfSeq
  <1>3. Cancelled(c) \in [1 .. Len(conns) -> GrpcConn]
    BY <1>1, <1>2 DEF Cancelled, GrpcConn
  <1>4. Cancelled(c) \in Seq(GrpcConn)
    BY <1>1, <1>3, SeqDef
  <1>5. Len(Cancelled(c)) = Len(conns)
    BY <1>1, <1>3, <1>4
  <1>6. ASSUME NEW i \in 1 .. Len(conns)
        PROVE  /\ Cancelled(c)[i].url = conns[i].url
               /\ Cancelled(c)[i].state =
                     IF i = c /\ conns[i].state = "open" THEN "cancelled" ELSE conns[i].state
    BY <1>1, <1>2 DEF Cancelled, GrpcConn
  <1>7. QED
    BY <1>4, <1>5, <1>6

LEMMA DialledFacts ==
    ASSUME conns \in Seq(GrpcConn), NEW u \in URL
    PROVE  /\ Dialled(u) \in Seq(GrpcConn)
           /\ Len(Dialled(u)) = Len(conns) + 1
           /\ \A i \in 1 .. Len(conns) : Dialled(u)[i] = conns[i]
           /\ Dialled(u)[Len(conns) + 1].url = u
           /\ Dialled(u)[Len(conns) + 1].state = IF chainDone THEN "cancelled" ELSE "open"
  <1> DEFINE e == [url |-> u, state |-> IF chainDone THEN "cancelled" ELSE "open"]
  <1>1. e \in GrpcConn
    BY DEF GrpcConn
  <1>2. Dialled(u) = Append(conns, e)
    BY DEF Dialled
  <1> HIDE DEF e
  <1>3. /\ Dialled(u) \in Seq(GrpcConn)
        /\ Len(Dialled(u)) = Len(conns) + 1
        /\ \A i \in 1 .. Len(conns) : Dialled(u)[i] = conns[i]
        /\ Dialled(u)[Len(conns) + 1] = e
    BY <1>1, <1>2, AppendProperties
  <1>4. e.url = u /\ e.state = IF chainDone THEN "cancelled" ELSE "open"
    BY DEF e
  <1>5. QED
    BY <1>3, <1>4

\* A Dial begins: the previous gRPC connection is cancelled.
LEMMA StartDialKeeps ==
    ASSUME ConnInv, NEW u \in URL, NEW c \in Call,
           StartDial(dialer, u, c),
           c.pc \in {"redial", "dial", "closeDial"}, c.url \in URL,
           c.pc # "redial" => u = c.url,
           stored' = TRUE, UNCHANGED <<find, chainDone>>
    PROVE  ConnInv' /\ dialer'.url = u
  <1>1. conns \in Seq(GrpcConn) /\ Len(conns) \in Nat
    BY DEF ConnInv
  <1>2. /\ conns' \in Seq(GrpcConn)
        /\ Len(conns') = Len(conns)
        /\ \A i \in 1 .. Len(conns) :
              /\ conns'[i].url = conns[i].url
              /\ conns'[i].state = IF i = dialer.conn /\ conns[i].state = "open"
                                     THEN "cancelled" ELSE conns[i].state
    BY <1>1, CancelledFacts DEF StartDial
  <1>3. dialer' \in Dialer /\ dialer'.url = u /\ dialer'.conn = dialer.conn /\ call' = c
    BY DEF StartDial, ConnInv, Dialer
  <1>4. dialer.conn \in 0 .. Len(conns) /\ find.conn \in 0 .. Len(conns)
    BY <1>1 DEF ConnInv, Dialer, FindCall
  <1>5. ConnsHaveOwner'
    BY <1>1, <1>2, <1>3 DEF ConnInv, ConnsHaveOwner
  <1>6. CallInv'
    <2>1. dialer'.conn = 0 \/ conns'[dialer'.conn].state # "open"
      BY <1>1, <1>2, <1>3, <1>4
    <2>2. QED
      BY <1>3, <2>1 DEF CallInv, Busy
  <1>7. FindInv'
    BY <1>1, <1>2, <1>3, <1>4 DEF ConnInv, FindInv
  <1>8. QED
    BY <1>1, <1>2, <1>3, <1>4, <1>5, <1>6, <1>7 DEF ConnInv

\* A Dial returns a gRPC connection.
LEMMA DialSucceedsKeeps ==
    ASSUME ConnInv, DialSucceeds,
           call.pc \in {"redial", "dial", "closeDial"},
           NEW p \in {"closeOld", "next", "nextClose"},
           call' = [call EXCEPT !.pc = p],
           p # "closeOld" => call.pc # "redial",
           UNCHANGED <<stored, find, chainDone>>
    PROVE  ConnInv' /\ dialer'.url = dialer.url
  <1>1. conns \in Seq(GrpcConn) /\ Len(conns) \in Nat /\ dialer.url \in URL
    BY DEF ConnInv, CallInv, Busy
  <1>2. /\ conns' \in Seq(GrpcConn)
        /\ Len(conns') = Len(conns) + 1
        /\ \A i \in 1 .. Len(conns) : conns'[i] = conns[i]
        /\ conns'[Len(conns) + 1].url = dialer.url
        /\ conns'[Len(conns) + 1].state = IF chainDone THEN "cancelled" ELSE "open"
    BY <1>1, DialledFacts DEF DialSucceeds
  <1>3. dialer' \in Dialer /\ dialer'.url = dialer.url /\ dialer'.conn = Len(conns) + 1
    BY <1>1 DEF DialSucceeds, ConnInv, Dialer
  <1>4. call' \in Call /\ call'.pc = p /\ call'.url = call.url
    BY DEF ConnInv, Call
  <1>5. dialer.conn \in 0 .. Len(conns) /\ find.conn \in 0 .. Len(conns)
    BY <1>1 DEF ConnInv, Dialer, FindCall
  <1>6. ConnsHaveOwner'
    BY <1>1, <1>2, <1>3, <1>5 DEF ConnInv, ConnsHaveOwner, CallInv
  <1>7. CallInv'
    BY <1>1, <1>2, <1>3, <1>4 DEF ConnInv, CallInv, Busy
  <1>8. FindInv'
    BY <1>1, <1>2, <1>3, <1>5 DEF ConnInv, FindInv
  <1>9. QED
    <2>1. stored /\ find.conn <= Len(conns') /\ dialer'.conn <= Len(conns')
      BY <1>1, <1>2, <1>3, <1>5 DEF ConnInv, CallInv, Busy
    <2>2. QED
      BY <1>2, <1>3, <1>4, <1>6, <1>7, <1>8, <2>1 DEF ConnInv

\* The dialer is deleted, and its gRPC connection is not left open.
LEMMA ForgetKeeps ==
    ASSUME ConnInv, Forget,
           \/ conns' = conns /\ (dialer.conn = 0 \/ conns[dialer.conn].state # "open")
           \/ conns' = Cancelled(dialer.conn),
           UNCHANGED <<find, chainDone>>
    PROVE  ConnInv' /\ dialer'.url = NoURL
  <1>1. conns \in Seq(GrpcConn) /\ Len(conns) \in Nat
    BY DEF ConnInv
  <1>2. dialer.conn \in 0 .. Len(conns) /\ find.conn \in 0 .. Len(conns)
    BY <1>1 DEF ConnInv, Dialer, FindCall
  <1>3. /\ conns' \in Seq(GrpcConn)
        /\ Len(conns') = Len(conns)
        /\ \A i \in 1 .. Len(conns) :
              /\ conns'[i].url = conns[i].url
              /\ i # dialer.conn => conns'[i].state = conns[i].state
              /\ i = dialer.conn => conns'[i].state # "open"
    BY <1>1, <1>2, CancelledFacts
  <1>4. /\ dialer' = NewDialer /\ dialer' \in Dialer /\ dialer'.url = NoURL /\ dialer'.conn = 0
        /\ call' \in Call /\ call'.pc = "idle" /\ stored' = FALSE
    BY DEF Forget, NewDialer, Dialer, Idle, Call
  <1>5. ConnsHaveOwner'
    BY <1>1, <1>2, <1>3, <1>4 DEF ConnInv, ConnsHaveOwner
  <1>6. CallInv'
    BY <1>4 DEF CallInv, Busy
  <1>7. FindInv'
    BY <1>1, <1>2, <1>3, <1>4 DEF ConnInv, FindInv
  <1>8. QED
    <2>1. dialer'.conn <= Len(conns') /\ find'.conn <= Len(conns') /\ find' \in FindCall
      BY <1>1, <1>2, <1>3, <1>4 DEF ConnInv
    <2>2. stored' \in BOOLEAN /\ chainDone' \in BOOLEAN
      BY <1>4 DEF ConnInv
    <2>3. dialer' = NewDialer'
      BY <1>4 DEF NewDialer
    <2>4. QED
      BY <1>3, <1>4, <1>5, <1>6, <1>7, <2>1, <2>2, <2>3 DEF ConnInv

\* The dialer keeps its gRPC connection, which may be cancelled.
LEMMA ReturnKeeps ==
    ASSUME ConnInv, UNCHANGED <<stored, dialer, find, chainDone>>,
           conns' \in {conns, Cancelled(dialer.conn)},
           call' \in Call,
           call'.pc = "server" => stored /\ call'.url \in URL,
           call'.pc \in {"idle", "pass", "server"}
    PROVE  ConnInv'
  <1>1. conns \in Seq(GrpcConn) /\ Len(conns) \in Nat
    BY DEF ConnInv
  <1>2. dialer.conn \in 0 .. Len(conns) /\ find.conn \in 0 .. Len(conns)
    BY <1>1 DEF ConnInv, Dialer, FindCall
  <1>3. /\ conns' \in Seq(GrpcConn)
        /\ Len(conns') = Len(conns)
        /\ \A i \in 1 .. Len(conns) :
              /\ conns'[i].url = conns[i].url
              /\ conns'[i].state = "open" => conns[i].state = "open"
              /\ i # dialer.conn => conns'[i].state = conns[i].state
    BY <1>1, <1>2, CancelledFacts
  <1>4. ConnsHaveOwner'
    BY <1>1, <1>2, <1>3 DEF ConnInv, ConnsHaveOwner
  <1>5. CallInv'
    BY DEF ConnInv, CallInv, Busy
  <1>6. FindInv'
    BY <1>1, <1>2, <1>3 DEF ConnInv, FindInv
  <1>7. QED
    BY <1>1, <1>2, <1>3, <1>4, <1>5, <1>6 DEF ConnInv

\* Connections are closed or cancelled, but none that is in use.
LEMMA ConnsKeep ==
    ASSUME ConnInv, UNCHANGED <<stored, dialer, call, find, lost>>,
           conns' \in Seq(GrpcConn), Len(conns') = Len(conns), chainDone' \in BOOLEAN,
           chainDone => chainDone',
           \A i \in 1 .. Len(conns) :
              /\ conns'[i].url = conns[i].url
              /\ conns'[i].state = "open" => conns[i].state = "open"
              /\ conns[i].state = "open" => conns'[i].state = "open" \/ chainDone'
    PROVE  ConnInv'
  <1>1. conns \in Seq(GrpcConn) /\ Len(conns) \in Nat
    BY DEF ConnInv
  <1>2. dialer.conn \in 0 .. Len(conns) /\ find.conn \in 0 .. Len(conns)
    BY <1>1 DEF ConnInv, Dialer, FindCall
  <1>3. ConnsHaveOwner'
    BY <1>1, <1>2 DEF ConnInv, ConnsHaveOwner
  <1>4. CallInv'
    BY <1>1, <1>2 DEF ConnInv, CallInv, Busy
  <1>5. FindInv'
    BY <1>1, <1>2 DEF ConnInv, FindInv
  <1>6. QED
    BY <1>1, <1>3, <1>4, <1>5 DEF ConnInv

LEMMA CleanupKeeps ==
    ASSUME ConnInv, NEW c \in 1 .. Len(conns), CleanupGoroutine(c)
    PROVE  ConnInv'
  <1>1. conns \in Seq(GrpcConn) /\ Len(conns) \in Nat /\ conns[c] \in GrpcConn
    BY ElementOfSeq DEF ConnInv
  <1>2. [conns[c] EXCEPT !.state = "closed"] \in GrpcConn
    BY <1>1 DEF GrpcConn
  <1>3. conns' = [conns EXCEPT ![c] = [conns[c] EXCEPT !.state = "closed"]]
    BY DEF CleanupGoroutine
  <1>4. conns' \in Seq(GrpcConn) /\ Len(conns') = Len(conns)
    BY <1>1, <1>2, <1>3, ExceptSeq
  <1>5. \A i \in 1 .. Len(conns) :
              /\ conns'[i].url = conns[i].url
              /\ conns'[i].state = "open" => conns[i].state = "open"
              /\ conns[i].state = "open" => conns'[i].state = "open"
    BY <1>1, <1>3 DEF CleanupGoroutine, GrpcConn
  <1>6. QED
    BY <1>4, <1>5, ConnsKeep DEF CleanupGoroutine, ConnInv

LEMMA ChainDoneKeeps ==
    ASSUME ConnInv, ChainDone
    PROVE  ConnInv'
  <1>1. conns \in Seq(GrpcConn) /\ Len(conns) \in Nat /\ DOMAIN conns = 1 .. Len(conns)
    BY DEF ConnInv
  <1>2. \A i \in 1 .. Len(conns) : conns[i] \in GrpcConn
    BY <1>1, ElementOfSeq
  <1>3. conns' \in [1 .. Len(conns) -> GrpcConn]
    BY <1>1, <1>2 DEF ChainDone, GrpcConn
  <1>4. conns' \in Seq(GrpcConn)
    BY <1>1, <1>3, SeqDef
  <1>5. Len(conns') = Len(conns)
    BY <1>1, <1>3, <1>4
  <1>6. \A i \in 1 .. Len(conns) :
              /\ conns'[i].url = conns[i].url
              /\ conns'[i].state = "open" => conns[i].state = "open"
    BY <1>1, <1>2 DEF ChainDone, GrpcConn
  <1>7. QED
    BY <1>4, <1>5, <1>6, ConnsKeep DEF ChainDone, ConnInv

LEMMA FindKeeps ==
    ASSUME ConnInv, FindStep
    PROVE  ConnInv'
  <1>1. conns \in Seq(GrpcConn) /\ Len(conns) \in Nat
    BY DEF ConnInv
  <1>2. dialer.conn \in 0 .. Len(conns) /\ find.conn \in 0 .. Len(conns)
    BY <1>1 DEF ConnInv, Dialer, FindCall
  <1>3. UNCHANGED <<stored, dialer, call, chainDone, lost>>
    BY DEF FindStep, Find, FindDialSucceeds, FindDialFails, FindOpens, FindFails, FindDone
  <1>4. ASSUME UNCHANGED conns, find' \in FindCall, find'.conn = find.conn,
               find'.pc \in {"none", "dial"} => find.conn = 0,
               find'.pc # "none" => find'.url \in URL,
               find'.pc = "open" => find.pc = "next" /\ find'.url = find.url,
               find'.pc \notin {"next", "failed"}
        PROVE  ConnInv'
    <2>1. ConnsHaveOwner'
      BY <1>3, <1>4 DEF ConnInv, ConnsHaveOwner
    <2>2. CallInv'
      BY <1>3, <1>4 DEF ConnInv, CallInv, Busy
    <2>3. FindInv'
      BY <1>3, <1>4 DEF ConnInv, FindInv
    <2>4. QED
      BY <1>3, <1>4, <2>1, <2>2, <2>3 DEF ConnInv
  <1>5. ASSUME NEW u \in URL, Find(u)
        PROVE  ConnInv'
    BY <1>4, <1>5 DEF Find, NoFind, FindCall
  <1>6. CASE FindDialFails
    BY <1>4, <1>6 DEF FindDialFails, NoFind, FindCall, ConnInv, FindInv
  <1>7. CASE FindOpens
    BY <1>4, <1>7 DEF FindOpens, FindCall, ConnInv, FindInv
  <1>8. CASE FindDialSucceeds
    <2>1. find.url \in URL /\ find.conn = 0
      BY <1>8 DEF FindDialSucceeds, ConnInv, FindInv
    <2>2. /\ conns' \in Seq(GrpcConn)
          /\ Len(conns') = Len(conns) + 1
          /\ \A i \in 1 .. Len(conns) : conns'[i] = conns[i]
          /\ conns'[Len(conns) + 1].url = find.url
          /\ conns'[Len(conns) + 1].state = IF chainDone THEN "cancelled" ELSE "open"
      BY <1>1, <1>8, <2>1, DialledFacts DEF FindDialSucceeds
    <2>3. /\ find' \in FindCall /\ find'.pc = "next" /\ find'.url = find.url
          /\ find'.conn = Len(conns) + 1
      <3>1. find' = [pc |-> "next", url |-> find.url, conn |-> Len(conns) + 1]
        BY <1>8 DEF FindDialSucceeds, ConnInv, FindCall
      <3>2. QED
        BY <1>1, <2>1, <3>1 DEF FindCall
    <2>4. ConnsHaveOwner'
      BY <1>1, <1>2, <1>3, <2>1, <2>2, <2>3 DEF ConnInv, ConnsHaveOwner
    <2>5. CallInv'
      BY <1>1, <1>2, <1>3, <2>2 DEF ConnInv, CallInv, Busy
    <2>6. FindInv'
      BY <1>1, <1>2, <1>3, <2>1, <2>2, <2>3 DEF FindInv
    <2>7. find'.conn <= Len(conns') /\ dialer'.conn <= Len(conns')
      BY <1>1, <1>2, <1>3, <2>2, <2>3
    <2>8. QED
      BY <1>3, <2>2, <2>3, <2>4, <2>5, <2>6, <2>7 DEF ConnInv
  <1>9. CASE FindFails \/ FindDone
    <2>1. /\ conns' \in Seq(GrpcConn)
          /\ Len(conns') = Len(conns)
          /\ \A i \in 1 .. Len(conns) :
                /\ conns'[i].url = conns[i].url
                /\ i # find.conn => conns'[i].state = conns[i].state
                /\ i = find.conn => conns'[i].state # "open"
      BY <1>1, <1>9, CancelledFacts DEF FindFails, FindDone
    <2>2. /\ find' \in FindCall /\ find'.pc \in {"none", "failed"}
          /\ find'.conn \in {0, find.conn}
          /\ find'.pc = "none" => find'.conn = 0
          /\ find'.pc = "failed" => find'.url \in URL
      BY <1>9 DEF FindFails, FindDone, NoFind, FindCall, ConnInv, FindInv
    <2>3. ConnsHaveOwner'
      BY <1>1, <1>2, <1>3, <2>1, <2>2 DEF ConnInv, ConnsHaveOwner
    <2>4. CallInv'
      BY <1>1, <1>2, <1>3, <2>1 DEF ConnInv, CallInv, FindInv, Busy
    <2>5. FindInv'
      BY <1>3, <2>2 DEF ConnInv, FindInv
    <2>6. QED
      BY <1>1, <1>2, <1>3, <2>1, <2>2, <2>3, <2>4, <2>5 DEF ConnInv
  <1>10. QED
    BY <1>5, <1>6, <1>7, <1>8, <1>9 DEF FindStep

-----------------------------------------------------------------------------
\* A call reaches the server of the gRPC connection, or is lost on the way to
\* that of the dialer's URL.
LEMMA RequestRpc ==
    ASSUME DialInv, call.pc = "next",
           NEW reached \in BOOLEAN, NEW ok \in BOOLEAN, RpcRequest(reached, ok)
    PROVE  /\ held' \subseteq URL /\ lost' \subseteq URL
           /\ held' \subseteq lost' \cup {dialer.url}
           /\ ~ok => held' \subseteq lost'
  <1>1. dialer.url \in URL /\ conns[dialer.conn].url = dialer.url
    BY DEF DialInv, ConnInv, CallInv, Busy
  <1>2. /\ held' = IF reached THEN held \cup {dialer.url} ELSE held
        /\ lost' = IF ok THEN lost \ {dialer.url} ELSE lost \cup {dialer.url}
    BY <1>1 DEF RpcRequest
  <1>3. held \subseteq URL /\ lost \subseteq URL /\ held \subseteq lost \cup {dialer.url}
    BY DEF DialInv, TypeOK, NoServerLeftBehind
  <1>4. QED
    BY <1>1, <1>2, <1>3

LEMMA CloseRpc ==
    ASSUME DialInv, stored,
           NEW reached \in BOOLEAN, NEW ok \in BOOLEAN, RpcClose(reached, ok)
    PROVE  /\ held' \subseteq URL /\ lost' \subseteq URL
           /\ held' \subseteq lost' \cup {dialer.url}
           /\ dialer.url \in lost \/ (dialer.conn # 0 /\ conns[dialer.conn].url = dialer.url)
                 => held' \subseteq lost'
  <1> DEFINE u == IF reached THEN conns[dialer.conn].url ELSE dialer.url
  <1>1. u \in URL
    <2>1. dialer.url \in URL
      BY DEF DialInv, ConnInv, CallInv
    <2>2. reached => dialer.conn \in 1 .. Len(conns)
      BY DEF RpcClose, Carries, DialInv, ConnInv, Dialer
    <2>3. reached => conns[dialer.conn] \in GrpcConn
      BY <2>2, ElementOfSeq DEF DialInv, ConnInv
    <2>4. QED
      BY <2>1, <2>3 DEF GrpcConn
  <1>2. /\ held' = IF reached THEN held \ {u} ELSE held
        /\ lost' = IF ok THEN lost \ {u} ELSE lost \cup {u}
        /\ ok => reached
        /\ ~reached => u = dialer.url
    BY DEF RpcClose
  <1>3. held \subseteq URL /\ lost \subseteq URL /\ held \subseteq lost \cup {dialer.url}
    BY DEF DialInv, TypeOK, NoServerLeftBehind
  <1>4. reached => u = conns[dialer.conn].url
    OBVIOUS
  <1> HIDE DEF u
  <1>5. held' \subseteq URL /\ lost' \subseteq URL /\ held' \subseteq lost' \cup {dialer.url}
    BY <1>1, <1>2, <1>3
  <1>6. ASSUME dialer.url \in lost \/ (dialer.conn # 0 /\ conns[dialer.conn].url = dialer.url)
        PROVE  held' \subseteq lost'
    BY <1>2, <1>3, <1>4, <1>6
  <1>7. QED
    BY <1>5, <1>6

LEMMA InitInv == Init => DialInv
  <1> SUFFICES ASSUME Init PROVE DialInv
    OBVIOUS
  <1>1. conns \in Seq(GrpcConn) /\ Len(conns) = 0
    BY EmptySeq DEF Init
  <1>2. dialer \in Dialer /\ dialer.conn = 0 /\ call \in Call /\ call.pc = "idle"
    BY DEF Init, NewDialer, Dialer, Idle, Call
  <1>3. find \in FindCall /\ find.conn = 0 /\ find.pc = "none"
    BY DEF Init, NoFind, FindCall
  <1>4. ConnInv
    <2>1. ConnsHaveOwner
      BY <1>1 DEF ConnsHaveOwner
    <2>2. CallInv
      BY <1>2 DEF Init, CallInv, Busy
    <2>3. FindInv
      BY <1>3 DEF FindInv
    <2>4. QED
      <3>1. stored \in BOOLEAN /\ chainDone \in BOOLEAN /\ dialer = NewDialer
        BY DEF Init
      <3>2. dialer.conn <= Len(conns) /\ find.conn <= Len(conns)
        BY <1>1, <1>2, <1>3
      <3>3. QED
        BY <1>1, <1>2, <1>3, <2>1, <2>2, <2>3, <3>1, <3>2 DEF ConnInv
  <1>5. TypeOK
    <2>1. calls \in 0 .. MaxCalls
      BY DialAssumption DEF Init
    <2>2. held \subseteq URL /\ lost \subseteq URL /\ established \in BOOLEAN
      BY DEF Init
    <2>3. element \in {"client", "nse", "ns"}
      BY DEF Init
    <2>4. QED
      BY <1>4, <2>1, <2>2, <2>3 DEF ConnInv, TypeOK
  <1>6. NoServerLeftBehind
    BY DEF Init, NoServerLeftBehind
  <1>7. QED
    BY <1>4, <1>5, <1>6 DEF DialInv

\* What the invariant says of the variables that are not part of ConnInv.
ServersInv ==
    /\ element \in {"client", "nse", "ns"}
    /\ established \in BOOLEAN
    /\ held \subseteq URL /\ lost \subseteq URL
    /\ calls \in 0 .. MaxCalls
    /\ NoServerLeftBehind

LEMMA DialInvSplit == DialInv <=> ConnInv /\ ServersInv
  BY DEF DialInv, TypeOK, ConnInv, ServersInv

LEMMA DialInvSplitNext == DialInv' <=> ConnInv' /\ ServersInv'
  BY DEF DialInv, TypeOK, ConnInv, ServersInv

LEMMA RequestStepKeeps ==
    ASSUME DialInv, RequestStep, ~ServerFails
    PROVE  DialInv'
  <1> USE DialInvSplit
  <1>1. ASSUME NEW u \in URL, Request(u)
        PROVE  DialInv'
    <2>1. CASE dialer.url \in {NoURL, u}
      <3>1. ConnInv' /\ dialer'.url = u
        BY <1>1, <2>1, StartDialKeeps DEF Request, Call, ConnInv
      <3>2. ServersInv'
        BY <1>1, <2>1, <3>1, DialAssumption DEF Request, ServersInv, NoServerLeftBehind
      <3>3. QED
        BY <3>1, <3>2, DialInvSplitNext
    <2>2. CASE dialer.url \notin {NoURL, u}
      <3>1. dialer.url \in URL
        BY <2>2 DEF ConnInv, Dialer
      <3>2. ConnInv' /\ dialer'.url = dialer.url
        BY <1>1, <2>2, <3>1, StartDialKeeps DEF Request, Call, ConnInv
      <3>3. ServersInv'
        BY <1>1, <3>2, DialAssumption DEF Request, ServersInv, NoServerLeftBehind
      <3>4. QED
        BY <3>2, <3>3, DialInvSplitNext
    <2>3. QED
      BY <2>1, <2>2
  <1>2. CASE RedialSucceeds
    <2>1. ConnInv' /\ dialer'.url = dialer.url
      BY <1>2, DialSucceedsKeeps DEF RedialSucceeds
    <2>2. ServersInv'
      BY <1>2, <2>1 DEF RedialSucceeds, DialSucceeds, ServersInv, NoServerLeftBehind
    <2>3. QED
      BY <2>1, <2>2, DialInvSplitNext
  <1>3. CASE RedialFails
    <2>1. ConnInv' /\ dialer'.url = NoURL
      BY <1>3, ForgetKeeps DEF RedialFails, ConnInv, CallInv
    <2>2. dialer.url \in URL
      BY <1>3 DEF RedialFails, ConnInv, CallInv, Busy
    <2>3. ServersInv'
      BY <1>3, <2>1, <2>2 DEF RedialFails, ServersInv, NoServerLeftBehind
    <2>4. QED
      BY <2>1, <2>3, DialInvSplitNext
  <1>4. ASSUME NEW reached \in BOOLEAN, NEW ok \in BOOLEAN, CloseOld(reached, ok)
        PROVE  DialInv'
    <2>1. stored /\ call.url \in URL /\ dialer.conn # 0 /\ conns[dialer.conn].url = dialer.url
      BY <1>4 DEF CloseOld, ConnInv, CallInv, Busy
    <2>2. [call EXCEPT !.pc = "dial"] \in Call
      BY DEF ConnInv, Call
    <2>3. [call EXCEPT !.pc = "dial"].pc = "dial" /\ [call EXCEPT !.pc = "dial"].url = call.url
      BY DEF ConnInv, Call
    <2>4. ConnInv' /\ dialer'.url = call.url
      BY <1>4, <2>1, <2>2, <2>3, StartDialKeeps DEF CloseOld
    <2>5. held' \subseteq URL /\ lost' \subseteq URL /\ held' \subseteq lost'
      BY <1>4, <2>1, CloseRpc DEF CloseOld
    <2>6. ServersInv'
      BY <1>4, <2>5 DEF CloseOld, ServersInv, NoServerLeftBehind
    <2>7. QED
      BY <2>4, <2>6, DialInvSplitNext
  <1>5. CASE RequestDialSucceeds
    <2>1. ConnInv' /\ dialer'.url = dialer.url
      BY <1>5, DialSucceedsKeeps DEF RequestDialSucceeds
    <2>2. ServersInv'
      BY <1>5, <2>1 DEF RequestDialSucceeds, DialSucceeds, ServersInv, NoServerLeftBehind
    <2>3. QED
      BY <2>1, <2>2, DialInvSplitNext
  <1>6. CASE RequestDialFails
    <2>1. dialer.url = call.url /\ call.url \in URL /\ (dialer.conn = 0 \/ conns[dialer.conn].state # "open")
      BY <1>6 DEF RequestDialFails, ConnInv, CallInv, Busy
    <2>2. ConnInv'
      <3>1. CASE Forget
        BY <1>6, <2>1, <3>1, ForgetKeeps DEF RequestDialFails
      <3>2. CASE call' = Idle /\ UNCHANGED <<stored, dialer>>
        BY <1>6, <3>2, ReturnKeeps DEF RequestDialFails, Idle, Call
      <3>3. QED
        BY <1>6, <3>1, <3>2 DEF RequestDialFails
    <2>3. held' \subseteq lost' /\ lost' \subseteq URL
      BY <1>6, <2>1 DEF RequestDialFails, ServersInv, NoServerLeftBehind
    <2>4. ServersInv'
      BY <1>6, <2>3 DEF RequestDialFails, ServersInv, NoServerLeftBehind
    <2>5. QED
      BY <2>2, <2>4, DialInvSplitNext
  <1>7. CASE NextSucceeds
    <2>1. call' \in Call /\ call'.pc = "server" /\ call'.url = call.url
      BY <1>7 DEF NextSucceeds, ConnInv, Call
    <2>2. stored /\ call.url \in URL
      BY <1>7 DEF NextSucceeds, ConnInv, CallInv, Busy
    <2>3. ConnInv'
      BY <1>7, <2>1, <2>2, ReturnKeeps DEF NextSucceeds
    <2>4. held' \subseteq URL /\ lost' \subseteq URL /\ held' \subseteq lost' \cup {dialer.url}
      BY <1>7, RequestRpc DEF NextSucceeds
    <2>5. ServersInv'
      BY <1>7, <2>4 DEF NextSucceeds, ServersInv, NoServerLeftBehind
    <2>6. QED
      BY <2>3, <2>5, DialInvSplitNext
  <1>8. ASSUME NEW reached \in BOOLEAN, NextFails(reached)
        PROVE  DialInv'
    <2>1. \/ conns' = Cancelled(dialer.conn) /\ Forget
          \/ conns' \in {conns, Cancelled(dialer.conn)} /\ call' = Idle /\ UNCHANGED <<stored, dialer>>
      BY <1>8 DEF NextFails, AfterFailure
    <2>2. ConnInv'
      <3>1. CASE conns' = Cancelled(dialer.conn) /\ Forget
        BY <1>8, <3>1, ForgetKeeps DEF NextFails
      <3>2. CASE conns' \in {conns, Cancelled(dialer.conn)} /\ call' = Idle /\ UNCHANGED <<stored, dialer>>
        BY <1>8, <3>2, ReturnKeeps DEF NextFails, Idle, Call
      <3>3. QED
        BY <2>1, <3>1, <3>2
    <2>3. held' \subseteq URL /\ lost' \subseteq URL /\ held' \subseteq lost'
      BY <1>8, RequestRpc DEF NextFails
    <2>4. ServersInv'
      BY <1>8, <2>3 DEF NextFails, ServersInv, NoServerLeftBehind
    <2>5. QED
      BY <2>2, <2>4, DialInvSplitNext
  <1>9. CASE ServerSucceeds
    <2>1. ConnInv'
      BY <1>9, ReturnKeeps DEF ServerSucceeds, Idle, Call
    <2>2. ServersInv'
      BY <1>9 DEF ServerSucceeds, ServersInv, NoServerLeftBehind
    <2>3. QED
      BY <2>1, <2>2, DialInvSplitNext
  <1>10. QED
    BY <1>1, <1>2, <1>3, <1>4, <1>5, <1>6, <1>7, <1>8, <1>9 DEF RequestStep

\* A Close begins; connectServer begins one when its next server has failed.
LEMMA StartCloseKeeps ==
    ASSUME DialInv, NEW u \in URL \cup {NoURL}, StartClose(u),
           element' = element, established' = established, held' = held,
           calls' \in 0 .. MaxCalls, UNCHANGED <<find, chainDone>>
    PROVE  DialInv'
  <1> USE DialInvSplit
  <1>1. CASE Passes(u)
    <2>1. ConnInv'
      BY <1>1, ReturnKeeps DEF StartClose, Call, ConnInv
    <2>2. ServersInv'
      BY <1>1 DEF StartClose, ServersInv, NoServerLeftBehind
    <2>3. QED
      BY <2>1, <2>2, DialInvSplitNext
  <1>2. CASE ~Passes(u)
    <2>1. CloseURL(u) \in URL
      <3>1. u \in URL \/ stored
        <4>1. element \in {"client", "nse", "ns"} /\ stored \in BOOLEAN
          BY DEF ServersInv, ConnInv
        <4>2. CASE stored
          BY <4>2
        <4>3. CASE ~stored
          <5>1. element = "nse" /\ u # NoURL
            BY <1>2, <4>1, <4>3 DEF Passes, IsRegistry
          <5>2. QED
            BY <5>1
        <4>4. QED
          BY <4>2, <4>3
      <3>2. stored => dialer.url \in URL
        BY DEF ConnInv, CallInv
      <3>3. QED
        BY <3>1, <3>2, DialAssumption DEF CloseURL
    <2>2. /\ stored' = TRUE
          /\ lost' = IF dialer.url \in {NoURL, CloseURL(u)} THEN lost ELSE lost \cup {dialer.url}
          /\ StartDial(dialer, CloseURL(u), [pc |-> "closeDial", url |-> CloseURL(u), loaded |-> stored])
      BY <1>2 DEF StartClose
    <2>3. ConnInv' /\ dialer'.url = CloseURL(u)
      BY <2>1, <2>2, StartDialKeeps DEF Call, ConnInv
    <2>4. dialer.url \in URL \cup {NoURL}
      BY DEF ConnInv, Dialer
    <2>5. ServersInv'
      BY <2>2, <2>3, <2>4, DialAssumption DEF ServersInv, NoServerLeftBehind
    <2>6. QED
      BY <2>3, <2>5, DialInvSplitNext
  <1>3. QED
    BY <1>1, <1>2

LEMMA CloseStepKeeps ==
    ASSUME DialInv, CloseStep \/ ServerFails
    PROVE  DialInv'
  <1> USE DialInvSplit
  <1>1. ASSUME NEW u \in URL \cup {NoURL}, Close(u)
        PROVE  DialInv'
    <2>1. calls' \in 0 .. MaxCalls
      BY <1>1, DialAssumption DEF Close, ServersInv
    <2>2. QED
      BY <1>1, <2>1, StartCloseKeeps DEF Close
  <1>2. CASE ServerFails
    <2>1. call.url \in URL \cup {NoURL} /\ calls' \in 0 .. MaxCalls
      BY <1>2 DEF ServerFails, ConnInv, Call, ServersInv
    <2>2. QED
      BY <1>2, <2>1, StartCloseKeeps DEF ServerFails
  <1>3. ASSUME NEW reached \in BOOLEAN, NEW ok \in BOOLEAN, PassClose(reached, ok)
        PROVE  DialInv'
    <2>1. ConnInv'
      BY <1>3, ReturnKeeps DEF PassClose, Idle, Call
    <2>2. held' \subseteq URL /\ lost' \subseteq URL /\ held' \subseteq lost' \cup {dialer.url}
      <3>1. CASE stored
        BY <1>3, <3>1, CloseRpc DEF PassClose
      <3>2. CASE ~stored
        BY <1>3, <3>2 DEF PassClose, ServersInv, NoServerLeftBehind
      <3>3. QED
        BY <3>1, <3>2
    <2>3. ServersInv'
      BY <1>3, <2>2 DEF PassClose, ServersInv, NoServerLeftBehind
    <2>4. QED
      BY <2>1, <2>3, DialInvSplitNext
  <1>4. CASE CloseDialSucceeds
    <2>1. ConnInv' /\ dialer'.url = dialer.url
      BY <1>4, DialSucceedsKeeps DEF CloseDialSucceeds
    <2>2. ServersInv'
      BY <1>4, <2>1 DEF CloseDialSucceeds, DialSucceeds, ServersInv, NoServerLeftBehind
    <2>3. QED
      BY <2>1, <2>2, DialInvSplitNext
  <1>5. CASE CloseDialFails
    <2>1. /\ stored /\ dialer.url = call.url /\ call.url \in URL
          /\ dialer.conn = 0 \/ conns[dialer.conn].state # "open"
      BY <1>5 DEF CloseDialFails, ConnInv, CallInv, Busy
    <2>2. held' \subseteq lost' /\ lost' \subseteq URL /\ call.url \in lost'
      BY <1>5, <2>1 DEF CloseDialFails, ServersInv, NoServerLeftBehind
    <2>3. ConnInv'
      <3>1. CASE Forget
        BY <1>5, <2>1, <3>1, ForgetKeeps DEF CloseDialFails
      <3>2. CASE call' = [call EXCEPT !.pc = "nextClose"] /\ UNCHANGED <<stored, dialer>>
        <4>1. call' \in Call /\ call'.pc = "nextClose" /\ call'.url = call.url
          BY <3>2 DEF ConnInv, Call
        <4>2. CallInv'
          BY <2>1, <2>2, <3>2, <4>1 DEF CallInv, Busy
        <4>3. ConnsHaveOwner' /\ FindInv'
          BY <1>5, <3>2 DEF CloseDialFails, ConnInv, ConnsHaveOwner, FindInv
        <4>4. QED
          BY <1>5, <3>2, <4>1, <4>2, <4>3 DEF CloseDialFails, ConnInv
      <3>3. QED
        BY <1>5, <3>1, <3>2 DEF CloseDialFails
    <2>4. ServersInv'
      BY <1>5, <2>2 DEF CloseDialFails, ServersInv, NoServerLeftBehind
    <2>5. QED
      BY <2>3, <2>4, DialInvSplitNext
  <1>6. ASSUME NEW reached \in BOOLEAN, NEW ok \in BOOLEAN, NextClose(reached, ok)
        PROVE  DialInv'
    <2>1. ConnInv'
      BY <1>6, ForgetKeeps DEF NextClose
    <2>2. /\ stored
          /\ dialer.url \in lost \/ (dialer.conn # 0 /\ conns[dialer.conn].url = dialer.url)
      BY <1>6 DEF NextClose, ConnInv, CallInv, Busy
    <2>3. held' \subseteq URL /\ lost' \subseteq URL /\ held' \subseteq lost'
      BY <1>6, <2>2, CloseRpc DEF NextClose
    <2>4. ServersInv'
      BY <1>6, <2>3 DEF NextClose, ServersInv, NoServerLeftBehind
    <2>5. QED
      BY <2>1, <2>4, DialInvSplitNext
  <1>7. QED
    BY <1>1, <1>2, <1>3, <1>4, <1>5, <1>6 DEF CloseStep

LEMMA NextInv ==
    ASSUME DialInv, [Next]_vars
    PROVE  DialInv'
  <1>1. CASE FindStep
    <2>1. ConnInv'
      BY <1>1, FindKeeps DEF DialInv
    <2>2. calls' \in 0 .. MaxCalls
      BY <1>1, DialAssumption, DialInvSplit
         DEF FindStep, Find, FindDialSucceeds, FindDialFails, FindOpens, FindFails, FindDone, ServersInv
    <2>3. UNCHANGED <<element, dialer, established, held, lost>>
      BY <1>1 DEF FindStep, Find, FindDialSucceeds, FindDialFails, FindOpens, FindFails, FindDone
    <2>4. ServersInv'
      BY <2>2, <2>3, DialInvSplit DEF ServersInv, NoServerLeftBehind
    <2>5. QED
      BY <2>1, <2>4, DialInvSplitNext
  <1>2. CASE Cleanup \/ ChainDone
    <2>1. ConnInv'
      BY <1>2, CleanupKeeps, ChainDoneKeeps DEF DialInv, Cleanup
    <2>2. ServersInv'
      BY <1>2, DialInvSplit DEF Cleanup, CleanupGoroutine, ChainDone, ServersInv, NoServerLeftBehind
    <2>3. QED
      BY <2>1, <2>2, DialInvSplitNext
  <1>3. CASE UNCHANGED vars
    BY <1>3 DEF vars, DialInv, TypeOK, ConnInv, ConnsHaveOwner, CallInv, Busy, FindInv, NoServerLeftBehind
  <1>4. QED
    BY <1>1, <1>2, <1>3, RequestStepKeeps, CloseStepKeeps DEF Next

LEMMA DialInvHolds == Spec => []DialInv
  BY InitInv, NextInv, PTL DEF Spec

-----------------------------------------------------------------------------
\* The variables of the dial elements keep their types.
THEOREM TypeCorrect == Spec => []TypeOK
  <1>1. DialInv => TypeOK
    BY DEF DialInv
  <1>2. QED
    BY <1>1, DialInvHolds, PTL

\* dial: no gRPC connection leaks, whatever dials and calls fail.
THEOREM NoConnLeaks == Spec => []ConnsHaveOwner
  <1>1. DialInv => ConnsHaveOwner
    BY DEF DialInv, ConnInv
  <1>2. QED
    BY <1>1, DialInvHolds, PTL

\* dial: the goroutine that closes an older gRPC connection never closes the one
\* that a Request, the Close of an old server or a Find runs on.
THEOREM CallsKeepTheirConn == Spec => []CallsRunOnTheirConn
  <1>1. DialInv => CallsRunOnTheirConn
    <2> SUFFICES ASSUME DialInv, ~chainDone PROVE CallsRunOnTheirConn
      BY DEF CallsRunOnTheirConn
    <2>1. \A i \in 1 .. Len(conns) :
             conns[i] = [url |-> conns[i].url, state |-> conns[i].state]
      <3>1. \A i \in 1 .. Len(conns) : conns[i] \in GrpcConn
        BY ElementOfSeq DEF DialInv, ConnInv
      <3>2. QED
        BY <3>1 DEF GrpcConn
    <2>2. dialer.conn # 0 => dialer.conn \in 1 .. Len(conns)
      BY DEF DialInv, ConnInv, Dialer
    <2>3. find.conn # 0 => find.conn \in 1 .. Len(conns)
      BY DEF DialInv, ConnInv, FindCall
    <2>4. call.pc = "next" => conns[dialer.conn] = [url |-> call.url, state |-> "open"]
      BY <2>1, <2>2 DEF DialInv, ConnInv, CallInv
    <2>5. call.pc = "closeOld" => conns[dialer.conn] = [url |-> dialer.url, state |-> "open"]
      BY <2>1, <2>2 DEF DialInv, ConnInv, CallInv
    <2>6. find.pc \in {"next", "open"} => conns[find.conn] = [url |-> find.url, state |-> "open"]
      BY <2>1, <2>3 DEF DialInv, ConnInv, FindInv
    <2>7. QED
      BY <2>4, <2>5, <2>6 DEF CallsRunOnTheirConn
  <1>2. QED
    BY <1>1, DialInvHolds, PTL

\* dial: a server is left with the connection only if it could not be reached
\* when it was left, or a Close went to another URL.
THEOREM ServersAreTold == Spec => []NoServerLeftBehind
  <1>1. DialInv => NoServerLeftBehind
    BY DEF DialInv
  <1>2. QED
    BY <1>1, DialInvHolds, PTL

\* dial: for any URLs and any number of calls, no gRPC connection leaks, none is closed
\* under the call that runs on it, and no server that could be reached is left behind.
THEOREM DialSafety == Spec => []DialIsSafe
  <1>1. TypeOK /\ ConnsHaveOwner /\ CallsRunOnTheirConn /\ NoServerLeftBehind => DialIsSafe
    BY DEF DialIsSafe
  <1>2. QED
    BY <1>1, TypeCorrect, NoConnLeaks, CallsKeepTheirConn, ServersAreTold, PTL

-----------------------------------------------------------------------------
(* DNS handlers.                                                           *)

Capturing == {"searches", "dnsconfigs"}

\* Answers that handlers write.
Messages ==
    {m \in [code : {"ok", "empty", "fail"}, ttl : Nat, age : Nat, of : Names!Question \cup {None}] :
        /\ m.code = "fail" => m = Names!Failed
        /\ m.code # "fail" => m.age < (2 * m.ttl - 1) * Ticks \/ m.age = 0}

\* What is known of a query on its way.
States ==
    [at : Nat, down : BOOLEAN, name : Names!Question \cup {None}, servers : SUBSET UNION {s.servers : s \in Setups},
     todo : Seq(Names!Domain), got : Messages \cup {None}, caught : Messages \cup {None},
     passed : BOOLEAN, tcp : BOOLEAN, expired : BOOLEAN, loop : BOOLEAN, good : BOOLEAN]

\* Who gets what the handlers behind i, or at i if that one remembers answers, have written.
Dest(i) == IF i \in DOMAIN Names!chain /\ Names!chain[i] \in Capturing THEN Names!chain[i] ELSE Names!Captured(i)

\* An answer that is no failure is there.
Holds(x, v, d) ==
    CASE d = "searches" -> x.got # None /\ x.got # Names!Failed
      [] d = "dnsconfigs" -> x.caught # None /\ x.caught # Names!Failed
      [] OTHER -> v # None /\ v # Names!Failed

\* The name of the query is in memory.
Known(q) == (\E p \in DOMAIN Names!chain : Names!chain[p] = "memory") /\ q.name \in DOMAIN Names!records

\* A server has given the query, or memory will give it, an answer that must not get lost.
Heard(x) == x.good /\ ~ x.expired
Owed(q, x) == Heard(x) \/ (Known(q) /\ ~ x.loop /\ q.qtype # "nil")

\* The client gets its answer on the way back, when all handlers that remember
\* answers have been left.
ServedOnReturn(x, v) ==
    /\ v # None => ~ x.down /\ Dest(x.at) = "client"
    /\ x.at = 0 /\ ~ x.down => v # None
    /\ x.at \in DOMAIN Names!chain /\ ~ x.down /\ Dest(x.at) = "client" =>
          /\ Names!chain[x.at] = "noloop" => v # None
          /\ Names!chain[x.at] = "memory" /\ x.passed => v # None

\* On the way back, what is owed to the query is where the next handler will find it.
GoodIsCarried(q, x, v) ==
    /\ x.down /\ x.at <= Len(Names!chain) => ~ Heard(x)
    /\ ~ x.down /\ x.at <= Len(Names!chain) /\ Owed(q, x) => Holds(x, v, Dest(x.at))
    /\ x.at \in DOMAIN Names!chain /\ Names!chain[x.at] = "memory" /\ ~ x.down /\ ~ x.passed => ~ Heard(x)

\* A query whose name is in memory does not get past it.
KnownStops(q, x) ==
    Known(q) => \A p \in DOMAIN Names!chain : Names!chain[p] = "memory" => x.at < p \/ (x.at = p /\ x.down)

\* One query: its state, what its client has got, and what its servers have answered.
QueryIsSound(q, x, v, c) ==
    /\ x \in States /\ x.at <= Len(Names!chain) + 1 /\ (x.at # 0 => x.name \in Names!Question)
    /\ v \in Messages \cup {None} /\ c \in Seq(Messages)
    /\ x.at = Len(Names!chain) + 1 => x.down /\ Names!chain[Len(Names!chain)] = "fanout"
    /\ ServedOnReturn(x, v) /\ GoodIsCarried(q, x, v) /\ KnownStops(q, x)
    /\ x.at = Len(Names!chain) + 1 /\ Heard(x) => \E i \in DOMAIN c : c[i] # Names!Failed

QueriesAreSound ==
    /\ query = [q \in Names!Query |-> query[q]] /\ served = [q \in Names!Query |-> served[q]]
    /\ asked = [q \in Names!Query |-> asked[q]] /\ channel = [q \in Names!Query |-> channel[q]]
    /\ \A q \in Names!Query : QueryIsSound(q, query[q], served[q], channel[q])

Entries == [left : Nat, ttl : Nat, at : Nat, of : Names!Question \cup {None}]

\* What has passed up to the last update of an entry is at most two seconds for each
\* second that it has lost.
CacheInv ==
    /\ updated \in Nat /\ now \in Nat /\ updated <= now
    /\ cache \in [Names!Question -> Entries \cup {None}]
    /\ \A k \in Names!Question : cache[k] # None =>
          /\ cache[k].left <= cache[k].ttl /\ cache[k].at <= now
          /\ cache[k].left > 0 => updated - cache[k].at <= 2 * Ticks * (cache[k].ttl - cache[k].left)

DnsInv == setup \in Setups /\ QueriesAreSound /\ CacheInv /\ Names!IdsAreFreed

\* What is assumed of a chain.
LEMMA ChainIsSound ==
    ASSUME setup \in Setups
    PROVE  /\ Len(Names!chain) \in Nat \ {0} /\ DOMAIN Names!chain = 1 .. Len(Names!chain)
           /\ \A i \in 1 .. Len(Names!chain) : Names!chain[i] \in Handlers
           /\ \A i, j \in 1 .. Len(Names!chain) : Names!chain[i] = Names!chain[j] => i = j
           /\ Names!chain[Len(Names!chain)] \in {"fanout", "connect", "adapt", "memory"}
           /\ \A i \in 1 .. Len(Names!chain) :
                 /\ Names!chain[i] \in {"fanout", "connect", "adapt"} => i = Len(Names!chain)
                 /\ Names!chain[i] = "adapt" => i > 1 /\ Names!chain[i - 1] \in {"dnsconfigs", "searches"}
                 /\ Names!chain[i] = "noloop" => \A j \in 1 .. Len(Names!chain) : Names!chain[j] = "memory" =>
                       i < j \/ \E k \in 1 .. Len(Names!chain) : j < k /\ k < i /\ Names!chain[k] \in {"dnsconfigs", "searches"}
  <1>1. Sound(Names!chain)
    BY DnsAssumption DEF Names!chain
  <1>2. Names!chain \in Seq(Handlers) /\ Names!chain # <<>>
    BY <1>1 DEF Sound
  <1>3. Len(Names!chain) \in Nat \ {0} /\ DOMAIN Names!chain = 1 .. Len(Names!chain)
        /\ \A i \in 1 .. Len(Names!chain) : Names!chain[i] \in Handlers
    BY <1>2
  <1>4. QED
    BY <1>1, <1>3 DEF Sound

LEMMA ChainLength ==
    ASSUME setup \in Setups
    PROVE  Len(Names!chain) \in Nat /\ Len(Names!chain) > 0 /\ DOMAIN Names!chain = 1 .. Len(Names!chain)
  <1>1. Len(Names!chain) \in Nat \ {0}
    BY ChainIsSound
  <1>2. DOMAIN Names!chain = 1 .. Len(Names!chain)
    BY ChainIsSound
  <1>3. QED
    BY <1>1, <1>2

LEMMA HandlersDiffer ==
    ASSUME setup \in Setups, NEW i \in 1 .. Len(Names!chain), NEW j \in 1 .. Len(Names!chain), Names!chain[i] = Names!chain[j]
    PROVE  i = j
  BY ChainIsSound

\* From noloop, an answer does not come back to memory at once.
LEMMA NoloopAndMemory ==
    ASSUME setup \in Setups, NEW i \in 1 .. Len(Names!chain), NEW j \in 1 .. Len(Names!chain),
           Names!chain[i] = "noloop", Names!chain[j] = "memory"
    PROVE  i < j \/ \E k \in 1 .. Len(Names!chain) : j < k /\ k < i /\ Names!chain[k] \in Capturing
  BY ChainIsSound DEF Capturing

LEMMA LastHandler ==
    ASSUME setup \in Setups
    PROVE  /\ Names!chain[Len(Names!chain)] \in {"fanout", "connect", "adapt", "memory"}
           /\ \A i \in 1 .. Len(Names!chain) : Names!chain[i] \in {"fanout", "connect", "adapt"} => i = Len(Names!chain)
  <1>1. Names!chain[Len(Names!chain)] \in {"fanout", "connect", "adapt", "memory"}
    BY ChainIsSound
  <1>2. \A i \in 1 .. Len(Names!chain) : Names!chain[i] \in {"fanout", "connect", "adapt"} => i = Len(Names!chain)
    BY ChainIsSound
  <1>3. QED
    BY <1>1, <1>2

\* A bounded set of numbers has a greatest one.
LEMMA GreatestExists ==
    ASSUME NEW n \in Nat, NEW S \in SUBSET (1 .. n), S # {}
    PROVE  Names!Max(S) \in S /\ \A y \in S : y <= Names!Max(S)
  <1> DEFINE T == {n - x : x \in S}
             R == OpToRel(<, Nat)
  <1>1. IsWellFoundedOn(R, Nat)
    BY NatLessThanWellFounded
  <1>2. \A k, l \in Nat : k < l => <<k, l>> \in R
    BY DEF OpToRel
  <1>3. T \in SUBSET Nat /\ T # {}
    <2>1. \A x \in S : x \in Nat /\ x <= n
      OBVIOUS
    <2>2. \A x \in S : n - x \in Nat
      BY <2>1
    <2>3. QED
      BY <2>2
  <1> HIDE DEF R
  <1>4. PICK z \in T : \A k \in T : <<k, z>> \notin R
    BY <1>1, <1>3, WFMin
  <1>5. PICK x \in S : z = n - x
    BY <1>4
  <1>6. \A y \in S : y <= x
    <2>1. SUFFICES ASSUME NEW y \in S
                   PROVE  y <= x
      OBVIOUS
    <2>2. n - y \in T /\ n - y \in Nat /\ z \in Nat /\ ~(n - y < z)
      BY <1>2, <1>3, <1>4
    <2>3. QED
      BY <1>5, <2>2
  <1>7. \E w \in S : \A y \in S : w >= y
    <2>1. \A y \in S : y \in Int /\ x \in Int
      OBVIOUS
    <2>2. \A y \in S : x >= y
      BY <1>6, <2>1
    <2>3. QED
      BY <2>2
  <1>8. Names!Max(S) \in S /\ \A y \in S : Names!Max(S) >= y
    BY <1>7 DEF Names!Max
  <1>9. QED
    BY <1>8

\* The handler that gets what is written behind it: the nearest one that remembers answers.
LEMMA CapturedIs ==
    ASSUME setup \in Setups, NEW r \in 0 .. Len(Names!chain) + 1
    PROVE  \/ Names!Captured(r) = "client" /\ \A j \in 1 .. r - 1 : Names!chain[j] \notin Capturing
           \/ \E j \in 1 .. r - 1 : /\ Names!chain[j] \in Capturing /\ Names!Captured(r) = Names!chain[j]
                                    /\ \A k \in 1 .. r - 1 : k > j => Names!chain[k] \notin Capturing
  <1> DEFINE B == Names!Behind(Capturing, r)
  <1>1. B = {i \in 1 .. r - 1 : Names!chain[i] \in Capturing}
    BY DEF Names!Behind
  <1>2. Names!Captured(r) = IF B = {} THEN "client" ELSE Names!chain[Names!Max(B)]
    BY DEF Names!Captured, Capturing
  <1> HIDE DEF B
  <1>3. CASE B = {}
    BY <1>1, <1>2, <1>3
  <1>4. CASE B # {}
    <2>1. PICK n \in Nat : B \in SUBSET (1 .. n)
      <3>1. Len(Names!chain) + 1 \in Nat /\ r \in Nat
        BY ChainLength
      <3>2. B \subseteq 1 .. r
        BY <1>1, <3>1
      <3>3. QED
        BY <3>1, <3>2
    <2>2. Names!Max(B) \in B /\ \A y \in B : y <= Names!Max(B)
      BY <1>4, <2>1, GreatestExists
    <2>3. PICK j : j = Names!Max(B)
      OBVIOUS
    <2>4. j \in 1 .. r - 1 /\ Names!chain[j] \in Capturing /\ Names!Captured(r) = Names!chain[j]
      BY <1>1, <1>2, <1>4, <2>2, <2>3
    <2>5. r \in Int
      BY ChainLength
    <2>6. \A k \in 1 .. r - 1 : k > j => Names!chain[k] \notin Capturing
      BY <1>1, <2>2, <2>3, <2>4, <2>5
    <2>7. QED
      BY <2>4, <2>6
  <1>5. QED
    BY <1>3, <1>4

\* The handler at i is the nearest one in front of r that waits, or none is there.
Lands(r, i) ==
    /\ i \in 0 .. r - 1 /\ (i > 0 => Names!chain[i] \in Names!Waiting)
    /\ \A j \in 1 .. r - 1 : j > i => Names!chain[j] \notin Names!Waiting

\* What is written at r is looked for at the handler to which the query returns.
LEMMA DestOfLanding ==
    ASSUME setup \in Setups, NEW r \in 1 .. Len(Names!chain) + 1, NEW i, Lands(r, i)
    PROVE  Dest(i) = Names!Captured(r)
  <1>1. Len(Names!chain) \in Nat /\ DOMAIN Names!chain = 1 .. Len(Names!chain) /\ i \in 0 .. Len(Names!chain) /\ r \in Nat /\ i <= r - 1
    BY ChainLength DEF Lands
  <1>2. Capturing \subseteq Names!Waiting
    BY DEF Capturing, Names!Waiting
  <1>3. CASE Names!Captured(r) = "client" /\ \A j \in 1 .. r - 1 : Names!chain[j] \notin Capturing
    <2>1. i \in DOMAIN Names!chain => i \in 1 .. r - 1
      BY <1>1
    <2>2. Dest(i) = Names!Captured(i)
      BY <1>3, <2>1 DEF Dest
    <2>3. \A j \in 1 .. i - 1 : j \in 1 .. r - 1
      BY <1>1
    <2>4. QED
      BY <1>1, <1>3, <2>2, <2>3, CapturedIs
  <1>4. ASSUME NEW j \in 1 .. r - 1, Names!chain[j] \in Capturing, Names!Captured(r) = Names!chain[j],
               \A k \in 1 .. r - 1 : k > j => Names!chain[k] \notin Capturing
        PROVE  Dest(i) = Names!Captured(r)
    <2>1. j <= i
      BY <1>1, <1>2, <1>4 DEF Lands
    <2>2. CASE j = i
      BY <1>1, <1>4, <2>2 DEF Dest
    <2>3. CASE j < i
      <3>1. i \in DOMAIN Names!chain /\ i \in 1 .. r - 1 /\ j \in 1 .. i - 1
        BY <1>1, <2>3
      <3>2. Dest(i) = Names!Captured(i)
        BY <1>4, <2>3, <3>1 DEF Dest
      <3>3. \A k \in 1 .. i - 1 : k \in 1 .. r - 1
        BY <1>1
      <3>4. PICK l \in 1 .. i - 1 : /\ Names!chain[l] \in Capturing /\ Names!Captured(i) = Names!chain[l]
                                    /\ \A k \in 1 .. i - 1 : k > l => Names!chain[k] \notin Capturing
        <4>1. i \in 0 .. Len(Names!chain) + 1
          BY <1>1
        <4>2. ~ \A k \in 1 .. i - 1 : Names!chain[k] \notin Capturing
          BY <1>4, <3>1
        <4>3. QED
          BY <4>1, <4>2, CapturedIs
      <3>5. l = j
        BY <1>1, <1>4, <3>1, <3>3, <3>4
      <3>6. QED
        BY <1>4, <3>2, <3>4, <3>5
    <2>4. QED
      BY <1>1, <2>1, <2>2, <2>3
  <1>5. QED
    <2>1. r \in 0 .. Len(Names!chain) + 1
      BY <1>1
    <2>2. QED
      BY <1>3, <1>4, <2>1, CapturedIs

\* Fields of a query that a return from handler r to handler i leaves alone.
Kept(s, x) ==
    /\ x.name = s.name /\ x.got = s.got /\ x.caught = s.caught /\ x.passed = s.passed
    /\ x.todo = s.todo /\ x.tcp = s.tcp

\* A query that moves keeps its flags.
Flags(s, x) == x.expired = s.expired /\ x.loop = s.loop /\ x.good = s.good

\* The query returns to the nearest handler that waits, or to its client.
LEMMA ReturnLands ==
    ASSUME setup \in Setups, NEW s \in States, s.at \in 1 .. Len(Names!chain) + 1, NEW x, x = Names!Return(s)
    PROVE  /\ x \in States /\ Lands(s.at, x.at) /\ ~ x.down /\ Flags(s, x)
           /\ x.at # 0 => Kept(s, x)
  <1> DEFINE B == {i \in 1 .. s.at - 1 : Names!chain[i] \in Names!Waiting}
  <1>1. x = IF B = {} THEN [Names!Idle EXCEPT !.down = FALSE, !.expired = s.expired, !.loop = s.loop, !.good = s.good]
                      ELSE [s EXCEPT !.at = Names!Max(B), !.down = FALSE]
    BY DEF Names!Return
  <1>2. s.at \in Nat /\ s.at >= 1
    BY ChainLength
  <1>3. \A i \in B : i \in 1 .. s.at - 1 /\ i \in Nat /\ Names!chain[i] \in Names!Waiting
    BY <1>2
  <1>4. \A i \in 1 .. s.at - 1 : Names!chain[i] \in Names!Waiting => i \in B
    OBVIOUS
  <1> HIDE DEF B
  <1>5. CASE B = {}
    <2>1. PICK a, b, c : a = s.expired /\ b = s.loop /\ c = s.good
      OBVIOUS
    <2>2. a \in BOOLEAN /\ b \in BOOLEAN /\ c \in BOOLEAN
      BY <2>1 DEF States
    <2>3. x = [at |-> 0, down |-> FALSE, name |-> None, servers |-> {}, todo |-> <<>>, got |-> None,
               caught |-> None, passed |-> FALSE, tcp |-> FALSE, expired |-> a, loop |-> b, good |-> c]
      BY <1>1, <1>5, <2>1 DEF Names!Idle
    <2>4. <<>> \in Seq(Names!Domain) /\ {} \in SUBSET UNION {y.servers : y \in Setups}
      OBVIOUS
    <2>5. x \in States
      BY <2>2, <2>3, <2>4 DEF States
    <2>6. x.at = 0 /\ ~ x.down /\ x.expired = a /\ x.loop = b /\ x.good = c
      BY <2>3
    <2>7. Lands(s.at, x.at)
      BY <1>2, <1>4, <1>5, <2>6 DEF Lands
    <2>8. QED
      BY <2>1, <2>5, <2>6, <2>7 DEF Flags
  <1>6. CASE B # {}
    <2>1. B \in SUBSET (1 .. s.at)
      BY <1>2, <1>3
    <2>2. PICK i \in B : i = Names!Max(B) /\ \A y \in B : y <= i
      BY <1>2, <1>6, <2>1, GreatestExists
    <2>3. i \in Nat /\ i # 0
      BY <1>2, <1>3
    <2>4. x = [s EXCEPT !.at = i, !.down = FALSE]
      BY <1>1, <1>6, <2>2
    <2>5. x \in States
      BY <2>3, <2>4 DEF States
    <2>6. x.at = i /\ ~ x.down /\ Flags(s, x) /\ Kept(s, x)
      BY <2>4 DEF States, Flags, Kept
    <2>7. \A j \in 1 .. s.at - 1 : j > i => Names!chain[j] \notin Names!Waiting
      BY <1>2, <1>4, <2>2, <2>3
    <2>8. Lands(s.at, x.at)
      BY <1>2, <1>3, <2>3, <2>6, <2>7 DEF Lands
    <2>9. QED
      BY <2>5, <2>6, <2>8
  <1>7. QED
    BY <1>5, <1>6

\* What a handler writes is kept by the nearest one that remembers answers.
LEMMA WriteIsKept ==
    ASSUME NEW s \in States, NEW m \in Messages, NEW x, x = Names!WriteMsg(s, m)
    PROVE  /\ x \in States /\ x.at = s.at /\ Flags(s, x) /\ x.name = s.name
           /\ Names!Captured(s.at) = "searches" => x.got = m
           /\ Names!Captured(s.at) = "dnsconfigs" => x.caught = m
           /\ Names!Between("memory", s.at) => x.passed
  <1> DEFINE t == IF Names!Between("memory", s.at) THEN [s EXCEPT !.passed = TRUE] ELSE s
  <1>1. t \in States /\ t.at = s.at /\ Flags(s, t) /\ t.name = s.name /\ (Names!Between("memory", s.at) => t.passed)
    <2>1. CASE Names!Between("memory", s.at)
      <3>1. t = [s EXCEPT !.passed = TRUE]
        BY <2>1
      <3> HIDE DEF t
      <3>2. t \in States
        BY <3>1 DEF States
      <3>3. QED
        BY <3>1, <3>2 DEF States, Flags
    <2>2. CASE ~ Names!Between("memory", s.at)
      BY <2>2 DEF Flags
    <2>3. QED
      BY <2>1, <2>2
  <1>2. x = CASE Names!Captured(s.at) = "searches" -> [t EXCEPT !.got = m]
              [] Names!Captured(s.at) = "dnsconfigs" -> [t EXCEPT !.caught = m]
              [] OTHER -> t
    BY DEF Names!WriteMsg
  <1> HIDE DEF t
  <1>3. CASE Names!Captured(s.at) = "searches"
    <2>1. x = [t EXCEPT !.got = m]
      BY <1>2, <1>3
    <2>2. x \in States
      BY <1>1, <2>1 DEF States
    <2>3. x.at = t.at /\ Flags(t, x) /\ x.name = t.name /\ x.got = m /\ x.passed = t.passed
      BY <1>1, <2>1 DEF States, Flags
    <2>4. QED
      BY <1>1, <1>3, <2>2, <2>3 DEF Flags
  <1>4. CASE Names!Captured(s.at) = "dnsconfigs"
    <2>1. x = [t EXCEPT !.caught = m]
      BY <1>2, <1>4
    <2>2. x \in States
      BY <1>1, <2>1 DEF States
    <2>3. x.at = t.at /\ Flags(t, x) /\ x.name = t.name /\ x.caught = m /\ x.passed = t.passed
      BY <1>1, <2>1 DEF States, Flags
    <2>4. QED
      BY <1>1, <1>4, <2>2, <2>3 DEF Flags
  <1>5. CASE Names!Captured(s.at) # "searches" /\ Names!Captured(s.at) # "dnsconfigs"
    <2>1. x = t
      BY <1>2, <1>5
    <2>2. QED
      BY <1>1, <1>5, <2>1 DEF Flags
  <1>6. QED
    BY <1>3, <1>4, <1>5

\* A handler that waits behind a memory writer is past memory.
LEMMA LandsOnMemory ==
    ASSUME setup \in Setups, NEW r \in 1 .. Len(Names!chain) + 1, NEW i, Lands(r, i), i # 0, Names!chain[i] = "memory"
    PROVE  Names!Between("memory", r)
  <1>1. i \in 1 .. r - 1 /\ r \in Nat
    BY ChainLength DEF Lands
  <1>2. \A j \in 1 .. r - 1 : Names!chain[j] \in {"searches", "dnsconfigs"} => i > j
    <2>1. \A j \in 1 .. r - 1 : Names!chain[j] \in {"searches", "dnsconfigs"} => ~(j > i) /\ j # i
      BY <1>1 DEF Lands, Names!Waiting
    <2>2. QED
      BY <1>1, <2>1
  <1>3. i \in Names!Behind({"memory"}, r)
    BY <1>1 DEF Names!Behind
  <1>4. \A j \in Names!Behind({"searches", "dnsconfigs"}, r) : i > j
    BY <1>2 DEF Names!Behind
  <1>5. QED
    BY <1>3, <1>4 DEF Names!Between

\* Nothing remembers answers in front of the first handler.
LEMMA ClientIsFirst ==
    ASSUME setup \in Setups
    PROVE  Dest(0) = "client"
  <1>1. 0 \in 0 .. Len(Names!chain) + 1 /\ 0 \notin DOMAIN Names!chain
    BY ChainLength
  <1>2. Names!Captured(0) = "client"
    BY <1>1, CapturedIs
  <1>3. QED
    BY <1>1, <1>2 DEF Dest

\* The handler behind noloop that returns comes back to it, or to one in between.
LEMMA StaysInside ==
    ASSUME setup \in Setups, NEW r \in 1 .. Len(Names!chain) + 1, NEW i, Lands(r, i),
           NEW p \in 1 .. r - 1, Names!chain[p] = "noloop"
    PROVE  i \in DOMAIN Names!chain /\ i >= p
  <1>1. Len(Names!chain) \in Nat /\ DOMAIN Names!chain = 1 .. Len(Names!chain)
    BY ChainLength
  <1>2. ~(p > i)
    BY DEF Lands, Names!Waiting
  <1>3. QED
    BY <1>1, <1>2 DEF Lands

LEMMA NoneIsNoMessage == None \notin Messages
  BY DnsAssumption DEF Messages

\* A handler that writes and returns.
LEMMA ReplyIsSound ==
    ASSUME setup \in Setups, NEW q, NEW s \in States, s.at \in 1 .. Len(Names!chain), s.name \in Names!Question,
           NEW v \in Messages \cup {None}, NEW m \in Messages, NEW c \in Seq(Messages),
           v # None => Names!Captured(s.at) = "client",
           Owed(q, s) => m # Names!Failed,
           Known(q) => \A p \in DOMAIN Names!chain : Names!chain[p] = "memory" => s.at <= p,
           NEW x, x = Names!Return(Names!WriteMsg(s, m)),
           NEW w, w = IF Names!Captured(s.at) = "client" THEN m ELSE v
    PROVE  QueryIsSound(q, x, w, c)
  <1>1. Len(Names!chain) \in Nat /\ DOMAIN Names!chain = 1 .. Len(Names!chain)
    BY ChainLength
  <1>2. PICK t : t = Names!WriteMsg(s, m)
    OBVIOUS
  <1>3. /\ t \in States /\ t.at = s.at /\ Flags(s, t) /\ t.name = s.name
        /\ Names!Captured(s.at) = "searches" => t.got = m
        /\ Names!Captured(s.at) = "dnsconfigs" => t.caught = m
        /\ Names!Between("memory", s.at) => t.passed
    BY <1>2, WriteIsKept
  <1>4. s.at \in 1 .. Len(Names!chain) + 1
    BY <1>1
  <1>5. /\ x \in States /\ Lands(s.at, x.at) /\ ~ x.down /\ Flags(t, x)
        /\ x.at # 0 => Kept(t, x)
    BY <1>2, <1>3, <1>4, ReturnLands
  <1>6. Dest(x.at) = Names!Captured(s.at)
    BY <1>4, <1>5, DestOfLanding
  <1>7. x.at \in 0 .. s.at - 1
    BY <1>5 DEF Lands
  <1>8. x.at \in Nat /\ x.at < s.at /\ x.at < Len(Names!chain)
    BY <1>1, <1>7
  <1>9. m # None
    BY NoneIsNoMessage
  <1>10. ServedOnReturn(x, w)
    BY <1>5, <1>6, <1>8, <1>9, ClientIsFirst DEF ServedOnReturn
  <1>11. Owed(q, x) = Owed(q, s) /\ Heard(x) = Heard(s)
    BY <1>3, <1>5 DEF Owed, Heard, Flags
  <1>12. GoodIsCarried(q, x, w)
    <2>1. ASSUME Owed(q, x)
          PROVE  Holds(x, w, Dest(x.at))
      <3>1. m # Names!Failed
        BY <1>11, <2>1
      <3>2. CASE Names!Captured(s.at) = "client"
        BY <1>6, <1>9, <3>1, <3>2 DEF Holds
      <3>3. CASE Names!Captured(s.at) # "client"
        <4>1. x.at # 0
          BY <1>6, <3>3, ClientIsFirst
        <4>2. x.got = t.got /\ x.caught = t.caught
          BY <1>5, <4>1 DEF Kept
        <4>3. s.at \in 0 .. Len(Names!chain) + 1
          BY <1>1
        <4>4. Names!Captured(s.at) \in {"searches", "dnsconfigs"}
          BY <3>3, <4>3, CapturedIs DEF Capturing
        <4>5. QED
          BY <1>3, <1>6, <1>9, <3>1, <4>2, <4>4 DEF Holds
      <3>4. QED
        BY <3>2, <3>3
    <2>2. ASSUME x.at \in DOMAIN Names!chain, Names!chain[x.at] = "memory"
          PROVE  x.passed
      <3>1. x.at # 0
        BY <1>1, <2>2
      <3>2. Names!Between("memory", s.at)
        BY <1>4, <1>5, <2>2, <3>1, LandsOnMemory
      <3>3. QED
        BY <1>3, <1>5, <3>1, <3>2 DEF Kept
    <2>3. QED
      BY <1>5, <2>1, <2>2 DEF GoodIsCarried
  <1>13. KnownStops(q, x)
    <2>1. \A p \in DOMAIN Names!chain : p \in Nat /\ (s.at <= p => x.at < p)
      BY <1>1, <1>8
    <2>2. QED
      BY <2>1 DEF KnownStops
  <1>14. x.at # 0 => x.name \in Names!Question
    BY <1>3, <1>5 DEF Kept
  <1>15. x.at <= Len(Names!chain) + 1 /\ x.at # Len(Names!chain) + 1
    BY <1>1, <1>8
  <1>16. QED
    BY <1>5, <1>10, <1>12, <1>13, <1>14, <1>15 DEF QueryIsSound

\* A handler that calls the next one.
LEMMA NextIsSound ==
    ASSUME setup \in Setups, NEW q, NEW s \in States, s.at \in 1 .. Len(Names!chain), s.name \in Names!Question, s.down,
           NEW v, v = None, NEW c \in Seq(Messages),
           Names!chain[s.at] \notin {"fanout", "connect", "adapt"},
           Names!chain[s.at] = "memory" => ~ Known(q) /\ ~ s.passed,
           ~ Heard(s),
           Known(q) => \A p \in DOMAIN Names!chain : Names!chain[p] = "memory" => s.at <= p,
           NEW x, x = Names!NextHandler(s)
    PROVE  /\ QueryIsSound(q, x, v, c)
           /\ s.at < Len(Names!chain) => x.at = s.at + 1
           /\ s.at = Len(Names!chain) => Names!chain[s.at] = "memory"
  <1>1. Len(Names!chain) \in Nat /\ DOMAIN Names!chain = 1 .. Len(Names!chain)
    BY ChainLength
  <1>2. CASE s.at < Len(Names!chain)
    <2>1. x = [s EXCEPT !.at = @ + 1]
      BY <1>2 DEF Names!NextHandler
    <2>2. PICK k : k = s.at + 1
      OBVIOUS
    <2>3. k \in 1 .. Len(Names!chain) /\ k \in Nat /\ x = [s EXCEPT !.at = k]
      BY <1>1, <1>2, <2>1, <2>2
    <2>4. x \in States
      BY <2>3 DEF States
    <2>5. x.at = k /\ x.down /\ Kept(s, x) /\ Flags(s, x)
      BY <2>3 DEF States, Kept, Flags
    <2>6. ServedOnReturn(x, v)
      BY <2>3, <2>5 DEF ServedOnReturn
    <2>7. GoodIsCarried(q, x, v)
      BY <2>5 DEF GoodIsCarried, Heard, Flags
    <2>8. KnownStops(q, x)
      <3>1. \A p \in DOMAIN Names!chain : p \in Nat /\ (s.at <= p /\ s.at # p => k <= p)
        BY <1>1, <2>2
      <3>2. \A p \in DOMAIN Names!chain : Known(q) /\ Names!chain[p] = "memory" => s.at # p
        OBVIOUS
      <3>3. \A p \in DOMAIN Names!chain : p \in Nat /\ (k <= p => k < p \/ k = p)
        BY <1>1, <2>3
      <3>4. QED
        BY <2>5, <3>1, <3>2, <3>3 DEF KnownStops
    <2>9. x.name \in Names!Question /\ x.at <= Len(Names!chain) + 1 /\ x.at # Len(Names!chain) + 1
      BY <1>1, <2>3, <2>5 DEF Kept
    <2>10. QED
      BY <1>2, <2>2, <2>4, <2>5, <2>6, <2>7, <2>8, <2>9 DEF QueryIsSound
  <1>3. CASE s.at = Len(Names!chain)
    <2>1. x = Names!Return([s EXCEPT !.at = @ + 1])
      BY <1>3 DEF Names!NextHandler
    <2>2. PICK t : t = [s EXCEPT !.at = Len(Names!chain) + 1]
      OBVIOUS
    <2>3. t \in States
      BY <1>1, <2>2 DEF States
    <2>4. t.at = Len(Names!chain) + 1 /\ Kept(s, t) /\ Flags(s, t)
      BY <2>2 DEF States, Kept, Flags
    <2>5. x = Names!Return(t)
      BY <1>3, <2>1, <2>2
    <2>6. t.at \in 1 .. Len(Names!chain) + 1
      BY <1>1, <2>4
    <2>7. /\ x \in States /\ Lands(t.at, x.at) /\ ~ x.down /\ Flags(t, x)
          /\ x.at # 0 => Kept(t, x)
      BY <2>3, <2>5, <2>6, ReturnLands
    <2>8. Names!chain[s.at] = "memory"
      BY <1>3, LastHandler
    <2>9. x.at = Len(Names!chain)
      <3>1. Len(Names!chain) \in 1 .. t.at - 1 /\ Names!chain[Len(Names!chain)] \in Names!Waiting
        BY <1>1, <1>3, <2>4, <2>8 DEF Names!Waiting
      <3>2. x.at \in 0 .. t.at - 1 /\ ~(Len(Names!chain) > x.at)
        BY <2>7, <3>1 DEF Lands
      <3>3. QED
        BY <1>1, <2>4, <3>2
    <2>10. x.at # 0 /\ x.at \in DOMAIN Names!chain /\ Names!chain[x.at] = "memory"
      BY <1>1, <1>3, <2>8, <2>9
    <2>11. ~ x.passed /\ x.name \in Names!Question /\ ~ Heard(x)
      BY <2>4, <2>7, <2>8, <2>10 DEF Kept, Flags, Heard
    <2>12. ServedOnReturn(x, v)
      BY <2>10, <2>11 DEF ServedOnReturn
    <2>13. ~ Known(q)
      BY <2>8
    <2>14. GoodIsCarried(q, x, v)
      BY <2>7, <2>11, <2>13 DEF GoodIsCarried, Owed
    <2>15. KnownStops(q, x)
      BY <2>13 DEF KnownStops
    <2>16. x.at <= Len(Names!chain) + 1 /\ x.at # Len(Names!chain) + 1
      <3>1. \A n \in Nat : n <= n + 1 /\ n # n + 1
        OBVIOUS
      <3>2. QED
        BY <1>1, <2>9, <3>1
    <2>17. QED
      BY <1>3, <2>7, <2>8, <2>11, <2>12, <2>14, <2>15, <2>16 DEF QueryIsSound
  <1>4. QED
    BY <1>1, <1>2, <1>3

\* A handler that returns and writes nothing.
LEMMA UnwindIsSound ==
    ASSUME setup \in Setups, NEW q, NEW s \in States, s.at \in 1 .. Len(Names!chain), s.name \in Names!Question,
           NEW v \in Messages \cup {None}, NEW c \in Seq(Messages),
           Names!chain[s.at] \notin Capturing,
           v # None => Names!Captured(s.at) = "client",
           Names!Captured(s.at) = "client" => v # None,
           Owed(q, s) => Holds(s, v, Names!Captured(s.at)),
           Names!chain[s.at] = "noloop" \/ Names!chain[s.at] = "memory" \/ (s.at > 1 /\ Names!chain[s.at - 1] \in Capturing),
           Known(q) => \A p \in DOMAIN Names!chain : Names!chain[p] = "memory" => s.at <= p,
           NEW x, x = Names!Return(s)
    PROVE  QueryIsSound(q, x, v, c)
  <1>1. Len(Names!chain) \in Nat /\ DOMAIN Names!chain = 1 .. Len(Names!chain)
    BY ChainLength
  <1>2. s.at \in 1 .. Len(Names!chain) + 1
    BY <1>1
  <1>3. /\ x \in States /\ Lands(s.at, x.at) /\ ~ x.down /\ Flags(s, x)
        /\ x.at # 0 => Kept(s, x)
    BY <1>2, ReturnLands
  <1>4. Dest(x.at) = Names!Captured(s.at)
    BY <1>2, <1>3, DestOfLanding
  <1>5. x.at \in 0 .. s.at - 1
    BY <1>3 DEF Lands
  <1>6. x.at \in Nat /\ x.at < s.at /\ x.at < Len(Names!chain)
    BY <1>1, <1>5
  <1>7. ServedOnReturn(x, v)
    BY <1>3, <1>4, <1>6, ClientIsFirst DEF ServedOnReturn
  <1>8. Owed(q, x) = Owed(q, s) /\ Heard(x) = Heard(s)
    BY <1>3 DEF Owed, Heard, Flags
  <1>9. ~(x.at \in DOMAIN Names!chain /\ Names!chain[x.at] = "memory")
    <2>1. SUFFICES ASSUME x.at \in DOMAIN Names!chain, Names!chain[x.at] = "memory"
                   PROVE  FALSE
      OBVIOUS
    <2>2. CASE Names!chain[s.at] = "noloop"
      <3>1. x.at \in 1 .. Len(Names!chain) /\ s.at \in Nat
        BY <1>1, <2>1
      <3>2. PICK k \in 1 .. Len(Names!chain) : x.at < k /\ k < s.at /\ Names!chain[k] \in Capturing
        BY <1>6, <2>1, <2>2, <3>1, NoloopAndMemory
      <3>3. k \in 1 .. s.at - 1 /\ k > x.at /\ Names!chain[k] \in Names!Waiting
        BY <3>1, <3>2 DEF Capturing, Names!Waiting
      <3>4. QED
        BY <1>3, <3>3 DEF Lands
    <2>3. CASE Names!chain[s.at] = "memory"
      <3>1. x.at \in 1 .. Len(Names!chain)
        BY <1>1, <2>1
      <3>2. s.at = x.at
        BY <2>1, <2>3, <3>1, HandlersDiffer
      <3>3. QED
        BY <1>6, <3>2
    <2>4. CASE s.at > 1 /\ Names!chain[s.at - 1] \in Capturing
      <3>1. s.at - 1 \in 1 .. s.at - 1 /\ Names!chain[s.at - 1] \in Names!Waiting
        BY <1>1, <2>4 DEF Capturing, Names!Waiting
      <3>2. ~(s.at - 1 > x.at)
        BY <1>3, <3>1 DEF Lands
      <3>3. x.at = s.at - 1
        BY <1>1, <1>6, <3>2
      <3>4. QED
        BY <2>1, <2>4, <3>3 DEF Capturing
    <2>5. QED
      BY <2>2, <2>3, <2>4
  <1>10. GoodIsCarried(q, x, v)
    <2>1. ASSUME Owed(q, x)
          PROVE  Holds(x, v, Dest(x.at))
      <3>1. Holds(s, v, Names!Captured(s.at))
        BY <1>8, <2>1
      <3>2. CASE x.at = 0
        BY <1>4, <3>1, <3>2, ClientIsFirst DEF Holds
      <3>3. CASE x.at # 0
        BY <1>3, <1>4, <3>1, <3>3 DEF Holds, Kept
      <3>4. QED
        BY <3>2, <3>3
    <2>2. QED
      BY <1>3, <1>9, <2>1 DEF GoodIsCarried
  <1>11. KnownStops(q, x)
    <2>1. \A p \in DOMAIN Names!chain : p \in Nat /\ (s.at <= p => x.at < p)
      BY <1>1, <1>6
    <2>2. QED
      BY <2>1 DEF KnownStops
  <1>12. x.at # 0 => x.name \in Names!Question
    BY <1>3 DEF Kept
  <1>13. x.at <= Len(Names!chain) + 1 /\ x.at # Len(Names!chain) + 1
    BY <1>1, <1>6
  <1>14. QED
    BY <1>3, <1>7, <1>10, <1>11, <1>12, <1>13 DEF QueryIsSound

\* The setup of the handlers never changes, and nor does what is said of one query.
LEMMA SetupStays ==
    ASSUME setup' = setup, NEW q, NEW x, NEW v, NEW c
    PROVE  QueryIsSound(q, x, v, c)' <=> QueryIsSound(q, x, v, c)
  <1>1. Names!chain' = Names!chain /\ Names!records' = Names!records
    BY DEF Names!chain, Names!records
  <1>2. Known(q)' <=> Known(q)
    BY <1>1 DEF Known
  <1>3. \A i : Names!Captured(i)' = Names!Captured(i)
    <2>1. \A i : Names!Behind(Capturing, i)' = Names!Behind(Capturing, i)
      BY <1>1 DEF Names!Behind
    <2>2. QED
      BY <1>1, <2>1 DEF Names!Captured, Capturing
  <1>4. \A i : Dest(i)' = Dest(i)
    BY <1>1, <1>3 DEF Dest
  <1>5. QED
    BY <1>1, <1>2, <1>4 DEF QueryIsSound, ServedOnReturn, GoodIsCarried, KnownStops, Owed, Heard, Holds

LEMMA QueriesStaySound ==
    ASSUME setup' = setup,
           query' = [q \in Names!Query |-> query'[q]], served' = [q \in Names!Query |-> served'[q]],
           asked' = [q \in Names!Query |-> asked'[q]], channel' = [q \in Names!Query |-> channel'[q]],
           \A q \in Names!Query : QueryIsSound(q, query'[q], served'[q], channel'[q])
    PROVE  QueriesAreSound'
  <1>1. \A q \in Names!Query : QueryIsSound(q, query[q], served[q], channel[q])'
    <2>1. SUFFICES ASSUME NEW q \in Names!Query
                   PROVE  QueryIsSound(q, query[q], served[q], channel[q])'
      OBVIOUS
    <2>2. PICK x, v, c : x = query'[q] /\ v = served'[q] /\ c = channel'[q]
      OBVIOUS
    <2>3. QueryIsSound(q, x, v, c)
      BY <2>2
    <2>4. QueryIsSound(q, x, v, c)'
      BY <2>3, SetupStays
    <2>5. QED
      BY <2>2, <2>4
  <1>2. QED
    BY <1>1 DEF QueriesAreSound

\* A query that is at x has been let in by noloop and has not yet come back to it.
Inside(x) ==
    /\ x.at # 0 /\ Names!Contains(Names!chain, "noloop")
    /\ \E p \in DOMAIN Names!chain : Names!chain[p] = "noloop" /\ (x.at > p \/ (x.at = p /\ ~ x.down))

\* Query q moves and the others stay where they are.
OneMoves(q) ==
    /\ setup' = setup
    /\ query' = [k \in Names!Query |-> query'[k]] /\ served' = [k \in Names!Query |-> served'[k]]
    /\ asked' = [k \in Names!Query |-> asked'[k]] /\ channel' = [k \in Names!Query |-> channel'[k]]
    /\ \A k \in Names!Query : k # q => query'[k] = query[k] /\ served'[k] = served[k] /\ channel'[k] = channel[k]

\* No id is left behind by q.
IdsMove(q) == \A i \in ids' : IF i = q.id THEN Inside(query'[q]) \/ (i \in ids /\ ~ Inside(query[q])) ELSE i \in ids

SoundStep(q) == OneMoves(q) /\ IdsMove(q) /\ QueryIsSound(q, query'[q], served'[q], channel'[q]) /\ CacheInv'

\* A step of one query that is sound for it is sound for all.
LEMMA SoundStepKeeps ==
    ASSUME DnsInv, NEW q \in Names!Query, SoundStep(q)
    PROVE  DnsInv'
  <1>1. setup' = setup /\ setup' \in Setups
    BY DEF DnsInv, SoundStep, OneMoves
  <1>2. QueriesAreSound'
    <2>1. \A k \in Names!Query : QueryIsSound(k, query'[k], served'[k], channel'[k])
      <3>1. SUFFICES ASSUME NEW k \in Names!Query
                     PROVE  QueryIsSound(k, query'[k], served'[k], channel'[k])
        OBVIOUS
      <3>2. CASE k = q
        BY <3>2 DEF SoundStep
      <3>3. CASE k # q
        <4>1. QueryIsSound(k, query[k], served[k], channel[k])
          BY DEF DnsInv, QueriesAreSound
        <4>2. query'[k] = query[k] /\ served'[k] = served[k] /\ channel'[k] = channel[k]
          BY <3>3 DEF SoundStep, OneMoves
        <4>3. QED
          BY <4>1, <4>2
      <3>4. QED
        BY <3>2, <3>3
    <2>2. /\ query' = [k \in Names!Query |-> query'[k]] /\ served' = [k \in Names!Query |-> served'[k]]
          /\ asked' = [k \in Names!Query |-> asked'[k]] /\ channel' = [k \in Names!Query |-> channel'[k]]
      BY DEF SoundStep, OneMoves
    <2>3. QED
      BY <1>1, <2>1, <2>2, QueriesStaySound
  <1>3. Names!IdsAreFreed'
    <2>1. Names!chain' = Names!chain
      BY <1>1 DEF Names!chain
    <2>2. \A k \in Names!Query : Names!InNoloop(k) <=> Inside(query[k])
      BY DEF Names!InNoloop, Inside
    <2>3. \A k \in Names!Query : Names!InNoloop(k)' <=> Inside(query'[k])
      BY <2>1 DEF Names!InNoloop, Inside
    <2>4. SUFFICES ASSUME NEW i \in ids'
                   PROVE  \E k \in Names!Query : k.id = i /\ Names!InNoloop(k)'
      BY DEF Names!IdsAreFreed
    <2>5. IF i = q.id THEN Inside(query'[q]) \/ (i \in ids /\ ~ Inside(query[q])) ELSE i \in ids
      BY DEF SoundStep, IdsMove
    <2>6. CASE i = q.id /\ Inside(query'[q])
      BY <2>3, <2>6
    <2>7. CASE i \in ids /\ ~(i = q.id /\ Inside(query[q]))
      <3>1. PICK k \in Names!Query : k.id = i /\ Names!InNoloop(k)
        BY <2>7 DEF DnsInv, Names!IdsAreFreed
      <3>2. k # q
        BY <2>2, <2>7, <3>1
      <3>3. query'[k] = query[k]
        BY <3>2 DEF SoundStep, OneMoves
      <3>4. QED
        BY <2>2, <2>3, <3>1, <3>3
    <2>8. QED
      BY <2>5, <2>6, <2>7
  <1>4. QED
    BY <1>1, <1>2, <1>3 DEF DnsInv, SoundStep

\* A query that comes back from a handler behind noloop is still inside.
LEMMA ReturnsInside ==
    ASSUME setup \in Setups, NEW s \in States, s.at \in 1 .. Len(Names!chain) + 1, NEW x, x = Names!Return(s),
           NEW p \in 1 .. s.at - 1, Names!chain[p] = "noloop", Names!Contains(Names!chain, "noloop")
    PROVE  Inside(x)
  <1>1. Lands(s.at, x.at) /\ ~ x.down /\ x \in States
    BY ReturnLands
  <1>2. x.at \in DOMAIN Names!chain /\ x.at >= p
    BY <1>1, StaysInside
  <1>3. DOMAIN Names!chain = 1 .. Len(Names!chain) /\ Len(Names!chain) \in Nat
    BY ChainLength
  <1>4. p \in DOMAIN Names!chain /\ p \in Nat
    BY <1>2, <1>3
  <1>5. x.at > p \/ (x.at = p /\ ~ x.down)
    BY <1>1, <1>2, <1>3, <1>4
  <1>6. x.at # 0
    BY <1>2, <1>3
  <1>7. QED
    BY <1>4, <1>5, <1>6 DEF Inside

LEMMA ReplyInside ==
    ASSUME setup \in Setups, NEW s \in States, s.at \in 1 .. Len(Names!chain), Names!chain[s.at] # "noloop",
           NEW m \in Messages, NEW x, x = Names!Return(Names!WriteMsg(s, m)) \/ x = Names!Return(s),
           NEW z, Inside(z), z.at = s.at \/ (s.at = Len(Names!chain) /\ z.at = s.at + 1)
    PROVE  Inside(x)
  <1>1. DOMAIN Names!chain = 1 .. Len(Names!chain) /\ Len(Names!chain) \in Nat
    BY ChainLength
  <1>2. PICK p \in DOMAIN Names!chain : Names!chain[p] = "noloop" /\ z.at >= p
    <2>1. PICK p \in DOMAIN Names!chain : Names!chain[p] = "noloop" /\ (z.at > p \/ (z.at = p /\ ~ z.down))
      BY DEF Inside
    <2>2. z.at \in Nat /\ p \in Nat
      BY <1>1
    <2>3. QED
      BY <2>1, <2>2
  <1>3. p \in 1 .. s.at - 1
    <2>1. p # s.at
      BY <1>2
    <2>2. p \in Nat /\ p > 0 /\ s.at \in Nat /\ p <= Len(Names!chain)
      BY <1>1
    <2>3. p <= s.at
      BY <1>1, <1>2, <2>2
    <2>4. QED
      BY <2>1, <2>2, <2>3
  <1>4. s.at \in 1 .. Len(Names!chain) + 1
    BY <1>1
  <1>5. Names!Contains(Names!chain, "noloop")
    BY DEF Inside
  <1>6. PICK t : t = Names!WriteMsg(s, m)
    OBVIOUS
  <1>7. t \in States /\ t.at = s.at
    BY <1>6, WriteIsKept
  <1>8. CASE x = Names!Return(s)
    BY <1>2, <1>3, <1>4, <1>5, <1>8, ReturnsInside
  <1>9. CASE x = Names!Return(t)
    BY <1>2, <1>3, <1>4, <1>5, <1>7, <1>9, ReturnsInside
  <1>10. QED
    BY <1>6, <1>8, <1>9

LEMMA NextInside ==
    ASSUME setup \in Setups, NEW s \in States, s.at \in 1 .. Len(Names!chain),
           NEW x, x = Names!NextHandler(s),
           Names!Contains(Names!chain, "noloop"), NEW p \in 1 .. s.at, Names!chain[p] = "noloop"
    PROVE  Inside(x)
  <1>1. DOMAIN Names!chain = 1 .. Len(Names!chain) /\ Len(Names!chain) \in Nat
    BY ChainLength
  <1>2. p \in DOMAIN Names!chain /\ p \in Nat
    BY <1>1
  <1>3. CASE s.at < Len(Names!chain)
    <2>1. x = [s EXCEPT !.at = @ + 1]
      BY <1>3 DEF Names!NextHandler
    <2>2. x.at = s.at + 1
      BY <2>1 DEF States
    <2>3. x.at > p /\ x.at # 0
      BY <1>1, <2>2
    <2>4. QED
      BY <1>2, <2>3 DEF Inside
  <1>4. CASE s.at = Len(Names!chain)
    <2>1. PICK t : t = [s EXCEPT !.at = @ + 1]
      OBVIOUS
    <2>2. x = Names!Return(t)
      BY <1>4, <2>1 DEF Names!NextHandler
    <2>3. t \in States /\ t.at = s.at + 1
      BY <2>1 DEF States
    <2>4. t.at \in 1 .. Len(Names!chain) + 1 /\ p \in 1 .. t.at - 1
      BY <1>1, <1>4, <2>3
    <2>5. QED
      BY <2>2, <2>3, <2>4, ReturnsInside
  <1>5. QED
    BY <1>1, <1>3, <1>4

LEMMA QueryFacts ==
    ASSUME DnsInv, NEW q \in Names!Query
    PROVE  QueryIsSound(q, query[q], served[q], channel[q]) /\ setup \in Setups /\ CacheInv
  BY DEF DnsInv, QueriesAreSound

\* Query q moves to x, and its client has w.
LEMMA MoveStep ==
    ASSUME DnsInv, NEW q \in Names!Query, NEW x, NEW w, NEW c,
           UNCHANGED setup, query' = [query EXCEPT ![q] = x],
           served' = [served EXCEPT ![q] = w] \/ (served' = served /\ w = served[q]),
           channel' = [channel EXCEPT ![q] = c] \/ (channel' = channel /\ c = channel[q]),
           (\E z : asked' = [asked EXCEPT ![q] = z]) \/ asked' = asked,
           QueryIsSound(q, x, w, c), CacheInv'
    PROVE  /\ query'[q] = x /\ OneMoves(q)
           /\ IdsMove(q) => SoundStep(q)
  <1>1. /\ query = [k \in Names!Query |-> query[k]] /\ served = [k \in Names!Query |-> served[k]]
        /\ asked = [k \in Names!Query |-> asked[k]] /\ channel = [k \in Names!Query |-> channel[k]]
    BY DEF DnsInv, QueriesAreSound
  <1>2. /\ query' = [k \in Names!Query |-> query'[k]] /\ query'[q] = x
        /\ \A k \in Names!Query : k # q => query'[k] = query[k]
    BY <1>1
  <1>3. /\ served' = [k \in Names!Query |-> served'[k]] /\ served'[q] = w
        /\ \A k \in Names!Query : k # q => served'[k] = served[k]
    BY <1>1
  <1>4. /\ channel' = [k \in Names!Query |-> channel'[k]] /\ channel'[q] = c
        /\ \A k \in Names!Query : k # q => channel'[k] = channel[k]
    BY <1>1
  <1>5. asked' = [k \in Names!Query |-> asked'[k]]
    BY <1>1
  <1>6. OneMoves(q)
    BY <1>2, <1>3, <1>4, <1>5 DEF OneMoves
  <1>7. QED
    BY <1>2, <1>3, <1>4, <1>6 DEF SoundStep

\* Nobody's id is left behind when a query does not leave noloop.
LEMMA IdsRest ==
    ASSUME NEW q \in Names!Query, UNCHANGED ids, Inside(query[q]) => Inside(query'[q])
    PROVE  IdsMove(q)
  BY DEF IdsMove

\* The cache does not change, or keeps what is written.
LEMMA CacheStays ==
    ASSUME CacheInv, UNCHANGED <<cache, updated>>, now' = now \/ now' = now + 1
    PROVE  CacheInv'
  <1>1. now' \in Nat /\ updated <= now' /\ \A n \in Nat : n <= now => n <= now'
    BY DEF CacheInv
  <1>2. \A k \in Names!Question : cache[k] # None => cache[k].at \in Nat
    BY DEF CacheInv, Entries
  <1>3. QED
    BY <1>1, <1>2 DEF CacheInv

LEMMA CachedIsSound ==
    ASSUME CacheInv, NEW s \in States, s.name \in Names!Question, NEW m \in Messages,
           cache' = Names!Cached(s, m), UNCHANGED <<now, updated>>
    PROVE  CacheInv'
  <1>1. CASE cache' = cache
    BY <1>1, CacheStays
  <1>2. CASE cache' # cache
    <2>1. PICK e : e = [left |-> IF m.code = "ok" THEN m.ttl ELSE 0, ttl |-> m.ttl, at |-> now, of |-> m.of]
      OBVIOUS
    <2>2. cache' = [cache EXCEPT ![s.name] = e]
      BY <1>2, <2>1 DEF Names!Cached
    <2>3. m.ttl \in Nat /\ m.of \in Names!Question \cup {None} /\ now \in Nat /\ updated \in Nat /\ updated <= now
      BY DEF Messages, CacheInv
    <2>4. e \in Entries /\ e.left <= e.ttl /\ e.at <= now /\ (e.left > 0 => e.left = e.ttl /\ updated - e.at <= 0)
      BY <2>1, <2>3 DEF Entries
    <2>5. e.left > 0 => updated - e.at <= 2 * Ticks * (e.ttl - e.left)
      <3>1. e.left > 0 => e.ttl - e.left = 0 /\ updated - e.at <= 0
        BY <2>4 DEF Entries
      <3>2. 2 * Ticks * 0 = 0
        BY DnsAssumption
      <3>3. QED
        BY <3>1, <3>2
    <2>6. cache' \in [Names!Question -> Entries \cup {None}]
      BY <2>2, <2>4 DEF CacheInv
    <2>7. \A k \in Names!Question : cache'[k] = IF k = s.name THEN e ELSE cache[k]
      BY <2>2 DEF CacheInv
    <2>8. QED
      BY <2>3, <2>4, <2>5, <2>6, <2>7 DEF CacheInv
  <1>3. QED
    BY <1>1, <1>2

\* A handler in the middle of the chain that writes m and returns.
LEMMA ReplyStep ==
    ASSUME DnsInv, NEW q \in Names!Query,
           NEW s \in States, s.at \in 1 .. Len(Names!chain), s.name \in Names!Question,
           s.at = query[q].at \/ (s.at = Len(Names!chain) /\ query[q].at = s.at + 1),
           NEW m \in Messages, served[q] # None => Names!Captured(s.at) = "client",
           Owed(q, s) => m # Names!Failed,
           Known(q) => \A p \in DOMAIN Names!chain : Names!chain[p] = "memory" => s.at <= p,
           Inside(query[q]) => Names!chain[s.at] # "noloop",
           query' = [query EXCEPT ![q] = Names!Return(Names!WriteMsg(s, m))],
           served' = IF Names!Captured(s.at) = "client" THEN [served EXCEPT ![q] = m] ELSE served,
           UNCHANGED <<setup, ids>>,
           (UNCHANGED <<asked, channel>>) \/ (asked' = [asked EXCEPT ![q] = {}] /\ channel' = [channel EXCEPT ![q] = <<>>]),
           CacheInv'
    PROVE  SoundStep(q)
  <1>1. PICK x : x = Names!Return(Names!WriteMsg(s, m))
    OBVIOUS
  <1>2. PICK v : v = served[q]
    OBVIOUS
  <1>3. PICK w : w = IF Names!Captured(s.at) = "client" THEN m ELSE v
    OBVIOUS
  <1>4. PICK c : c = channel'[q]
    OBVIOUS
  <1>5. QueryIsSound(q, query[q], v, channel[q]) /\ setup \in Setups
    BY <1>2, QueryFacts
  <1>6. v \in Messages \cup {None} /\ channel[q] \in Seq(Messages)
    BY <1>5 DEF QueryIsSound
  <1>7. channel = [k \in Names!Query |-> channel[k]]
    BY DEF DnsInv, QueriesAreSound
  <1>8. c \in Seq(Messages) /\ (channel' = [channel EXCEPT ![q] = c] \/ (channel' = channel /\ c = channel[q]))
    <2>1. CASE channel' = channel
      BY <1>4, <1>6, <2>1
    <2>2. CASE channel' = [channel EXCEPT ![q] = <<>>]
      <3>1. c = <<>>
        BY <1>4, <1>7, <2>2
      <3>2. <<>> \in Seq(Messages)
        OBVIOUS
      <3>3. QED
        BY <2>2, <3>1, <3>2
    <2>3. QED
      BY <2>1, <2>2
  <1>9. QueryIsSound(q, x, w, c)
    BY <1>1, <1>2, <1>3, <1>5, <1>6, <1>8, ReplyIsSound
  <1>10. served' = [served EXCEPT ![q] = w] \/ (served' = served /\ w = served[q])
    BY <1>2, <1>3
  <1>11. query' = [query EXCEPT ![q] = x]
    BY <1>1
  <1>12. (\E z : asked' = [asked EXCEPT ![q] = z]) \/ asked' = asked
    OBVIOUS
  <1>13. query'[q] = x /\ (IdsMove(q) => SoundStep(q))
    BY <1>8, <1>9, <1>10, <1>11, <1>12, MoveStep
  <1>14. Inside(query[q]) => Inside(x)
    BY <1>1, <1>5, ReplyInside
  <1>15. QED
    BY <1>13, <1>14, IdsRest

\* A handler that calls the next one, which leaves the query as in s.
LEMMA NextStep ==
    ASSUME DnsInv, NEW q \in Names!Query,
           NEW s \in States, s.at \in 1 .. Len(Names!chain), s.name \in Names!Question, s.down, s.at = query[q].at,
           served[q] = None, Names!chain[s.at] \notin {"fanout", "connect", "adapt"},
           Names!chain[s.at] = "memory" => ~ Known(q) /\ ~ s.passed,
           ~ Heard(s),
           Known(q) => \A p \in DOMAIN Names!chain : Names!chain[p] = "memory" => s.at <= p,
           query' = [query EXCEPT ![q] = Names!NextHandler(s)],
           UNCHANGED <<setup, served, asked, channel>>, CacheInv'
    PROVE  /\ OneMoves(q) /\ query'[q] = Names!NextHandler(s) /\ (IdsMove(q) => SoundStep(q))
           /\ Inside(query[q]) => Inside(query'[q])
  <1>1. PICK x : x = Names!NextHandler(s)
    OBVIOUS
  <1>2. PICK c : c = channel[q]
    OBVIOUS
  <1>3. QueryIsSound(q, query[q], served[q], c) /\ setup \in Setups
    BY <1>2, QueryFacts
  <1>4. c \in Seq(Messages)
    BY <1>3 DEF QueryIsSound
  <1>5. QueryIsSound(q, x, None, c)
    BY <1>1, <1>3, <1>4, NextIsSound
  <1>6. query' = [query EXCEPT ![q] = x]
    BY <1>1
  <1>7. query'[q] = x /\ OneMoves(q) /\ (IdsMove(q) => SoundStep(q))
    <2>1. served' = served /\ None = served[q] /\ channel' = channel /\ asked' = asked
      OBVIOUS
    <2>2. QED
      BY <1>2, <1>5, <1>6, <2>1, MoveStep
  <1>8. ASSUME Inside(query[q])
        PROVE  Inside(x)
    <2>1. DOMAIN Names!chain = 1 .. Len(Names!chain) /\ Len(Names!chain) \in Nat
      BY <1>3, ChainLength
    <2>2. Names!Contains(Names!chain, "noloop")
      BY <1>8 DEF Inside
    <2>3. PICK p \in DOMAIN Names!chain : Names!chain[p] = "noloop" /\ (s.at > p \/ s.at = p)
      BY <1>8 DEF Inside
    <2>4. p \in 1 .. s.at
      BY <2>1, <2>3
    <2>5. QED
      BY <1>1, <1>3, <2>2, <2>3, <2>4, NextInside
  <1>9. QED
    BY <1>1, <1>7, <1>8

\* A handler that returns without a word.
LEMMA UnwindStep ==
    ASSUME DnsInv, NEW q \in Names!Query,
           NEW s, s = query[q], s.at \in 1 .. Len(Names!chain), Names!chain[s.at] \notin Capturing,
           served[q] # None => Names!Captured(s.at) = "client",
           Names!Captured(s.at) = "client" => served[q] # None,
           Owed(q, s) => Holds(s, served[q], Names!Captured(s.at)),
           Names!chain[s.at] = "noloop" \/ Names!chain[s.at] = "memory" \/ (s.at > 1 /\ Names!chain[s.at - 1] \in Capturing),
           Known(q) => \A p \in DOMAIN Names!chain : Names!chain[p] = "memory" => s.at <= p,
           query' = [query EXCEPT ![q] = Names!Return(s)],
           UNCHANGED <<setup, served, asked, channel>>, CacheInv'
    PROVE  /\ IdsMove(q) => SoundStep(q)
           /\ Inside(query[q]) /\ Names!chain[s.at] # "noloop" => Inside(query'[q])
  <1>1. PICK x : x = Names!Return(s)
    OBVIOUS
  <1>2. PICK v, c : v = served[q] /\ c = channel[q]
    OBVIOUS
  <1>3. QueryIsSound(q, s, v, c) /\ setup \in Setups
    BY <1>2, QueryFacts
  <1>4. v \in Messages \cup {None} /\ c \in Seq(Messages) /\ s \in States
    BY <1>3 DEF QueryIsSound
  <1>5. s.name \in Names!Question
    <2>1. s.at # 0
      BY <1>3, ChainLength
    <2>2. QED
      BY <1>3, <2>1 DEF QueryIsSound
  <1>6. QueryIsSound(q, x, v, c)
    BY <1>1, <1>2, <1>3, <1>4, <1>5, UnwindIsSound
  <1>7. query' = [query EXCEPT ![q] = x]
    BY <1>1
  <1>8. query'[q] = x /\ (IdsMove(q) => SoundStep(q))
    <2>1. served' = served /\ v = served[q] /\ channel' = channel /\ c = channel[q] /\ asked' = asked
      BY <1>2
    <2>2. QED
      BY <1>6, <1>7, <2>1, MoveStep
  <1>9. ASSUME Inside(query[q]), Names!chain[s.at] # "noloop"
        PROVE  Inside(x)
    <2>1. PICK m : m = Names!Failed
      OBVIOUS
    <2>2. m \in Messages
      BY <2>1 DEF Messages, Names!Failed
    <2>3. QED
      BY <1>1, <1>3, <1>4, <1>9, <2>2, ReplyInside
  <1>10. QED
    BY <1>8, <1>9

LEMMA CallFacts ==
    ASSUME DnsInv, NEW q \in Names!Query, NEW h, Names!Calls(q, h), NEW s, s = query[q]
    PROVE  /\ s \in States /\ s.at \in 1 .. Len(Names!chain) /\ s.name \in Names!Question /\ s.down
           /\ Names!chain[s.at] = h /\ served[q] = None /\ ~ Heard(s) /\ setup \in Setups /\ CacheInv
           /\ Known(q) => \A p \in DOMAIN Names!chain : Names!chain[p] = "memory" => s.at <= p
           /\ channel[q] \in Seq(Messages)
  <1>1. QueryIsSound(q, s, served[q], channel[q]) /\ setup \in Setups /\ CacheInv
    BY QueryFacts
  <1>2. DOMAIN Names!chain = 1 .. Len(Names!chain) /\ Len(Names!chain) \in Nat
    BY <1>1, ChainLength
  <1>3. s.at \in 1 .. Len(Names!chain) /\ s.down /\ Names!chain[s.at] = h
    BY <1>2 DEF Names!Calls
  <1>4. s.at # 0 /\ s.at <= Len(Names!chain)
    BY <1>2, <1>3
  <1>5. s \in States /\ s.name \in Names!Question /\ channel[q] \in Seq(Messages)
    BY <1>1, <1>4 DEF QueryIsSound
  <1>6. served[q] = None
    BY <1>1, <1>3 DEF QueryIsSound, ServedOnReturn
  <1>7. ~ Heard(s)
    BY <1>1, <1>3, <1>4 DEF QueryIsSound, GoodIsCarried
  <1>8. Known(q) => \A p \in DOMAIN Names!chain : Names!chain[p] = "memory" => s.at <= p
    <2>1. Known(q) => \A p \in DOMAIN Names!chain : Names!chain[p] = "memory" => s.at < p \/ s.at = p
      BY <1>1 DEF QueryIsSound, KnownStops
    <2>2. \A p \in DOMAIN Names!chain : p \in Nat /\ s.at \in Nat /\ (s.at < p \/ s.at = p => s.at <= p)
      BY <1>2, <1>3
    <2>3. QED
      BY <2>1, <2>2
  <1>9. QED
    BY <1>1, <1>3, <1>5, <1>6, <1>7, <1>8

LEMMA ReturnFacts ==
    ASSUME DnsInv, NEW q \in Names!Query, NEW h, Names!Returns(q, h), NEW s, s = query[q]
    PROVE  /\ s \in States /\ s.at \in 1 .. Len(Names!chain) /\ s.name \in Names!Question /\ ~ s.down
           /\ Names!chain[s.at] = h /\ setup \in Setups /\ CacheInv
           /\ served[q] # None => Dest(s.at) = "client"
           /\ Owed(q, s) => Holds(s, served[q], Dest(s.at))
           /\ Dest(s.at) = "client" => (h = "noloop" \/ (h = "memory" /\ s.passed) => served[q] # None)
           /\ h = "memory" /\ ~ s.passed => ~ Heard(s)
           /\ Known(q) => \A p \in DOMAIN Names!chain : Names!chain[p] = "memory" => s.at <= p /\ s.at # p
  <1>1. QueryIsSound(q, s, served[q], channel[q]) /\ setup \in Setups /\ CacheInv
    BY QueryFacts
  <1>2. DOMAIN Names!chain = 1 .. Len(Names!chain) /\ Len(Names!chain) \in Nat
    BY <1>1, ChainLength
  <1>3. s.at \in 1 .. Len(Names!chain) /\ ~ s.down /\ Names!chain[s.at] = h /\ s.at \in DOMAIN Names!chain
    BY <1>2 DEF Names!Returns
  <1>4. s.at # 0 /\ s.at <= Len(Names!chain)
    BY <1>2, <1>3
  <1>5. s \in States /\ s.name \in Names!Question
    BY <1>1, <1>4 DEF QueryIsSound
  <1>6. /\ served[q] # None => Dest(s.at) = "client"
        /\ Dest(s.at) = "client" => (h = "noloop" \/ (h = "memory" /\ s.passed) => served[q] # None)
    BY <1>1, <1>3 DEF QueryIsSound, ServedOnReturn
  <1>7. /\ Owed(q, s) => Holds(s, served[q], Dest(s.at))
        /\ h = "memory" /\ ~ s.passed => ~ Heard(s)
    BY <1>1, <1>3, <1>4 DEF QueryIsSound, GoodIsCarried
  <1>8. Known(q) => \A p \in DOMAIN Names!chain : Names!chain[p] = "memory" => s.at <= p /\ s.at # p
    <2>1. Known(q) => \A p \in DOMAIN Names!chain : Names!chain[p] = "memory" => s.at < p
      BY <1>1, <1>3 DEF QueryIsSound, KnownStops
    <2>2. \A p \in DOMAIN Names!chain : p \in Nat /\ s.at \in Nat /\ (s.at < p => s.at <= p /\ s.at # p)
      BY <1>2, <1>3
    <2>3. QED
      BY <2>1, <2>2
  <1>9. QED
    BY <1>1, <1>3, <1>5, <1>6, <1>7, <1>8

LEMMA FailedIsMessage == Names!Failed \in Messages
  BY DEF Messages, Names!Failed

LEMMA SuccessIsMessage ==
    ASSUME NEW t \in Nat, NEW code \in {"ok", "empty"}, NEW n \in Names!Question
    PROVE  Names!Success(code, t, n) \in Messages /\ Names!Success(code, t, n) # Names!Failed
  BY DEF Messages, Names!Success, Names!Failed

\* A handler in the middle of the chain that writes and returns, and touches nothing else.
LEMMA CalledReply ==
    ASSUME DnsInv, NEW q \in Names!Query, NEW h, Names!Calls(q, h) \/ Names!Returns(q, h), NEW s, s = query[q],
           NEW z \in States, z.at = s.at, z.name \in Names!Question,
           NEW m \in Messages, Owed(q, z) => m # Names!Failed, served[q] # None => Names!Captured(s.at) = "client",
           Names!Calls(q, h) \/ h # "noloop",
           Names!Reply(q, z, m), UNCHANGED <<setup, ids, updated, now, asked, channel>>
    PROVE  SoundStep(q)
  <1>1. /\ s \in States /\ s.at \in 1 .. Len(Names!chain) /\ s.name \in Names!Question /\ CacheInv
        /\ Names!chain[s.at] = h /\ setup \in Setups
        /\ Known(q) => \A p \in DOMAIN Names!chain : Names!chain[p] = "memory" => s.at <= p
    <2>1. CASE Names!Calls(q, h)
      BY <2>1, CallFacts
    <2>2. CASE Names!Returns(q, h)
      BY <2>2, ReturnFacts
    <2>3. QED
      BY <2>1, <2>2
  <1>2. z \in States /\ z.at = s.at /\ z.name \in Names!Question
    OBVIOUS
  <1>3. query' = [query EXCEPT ![q] = Names!Return(Names!WriteMsg(z, m))]
    BY DEF Names!Reply
  <1>4. served' = IF Names!Captured(z.at) = "client" THEN [served EXCEPT ![q] = m] ELSE served
    BY <1>2 DEF Names!Reply, Names!Answer
  <1>5. CacheInv'
    <2>1. cache' = Names!Cached(z, m)
      BY DEF Names!Reply
    <2>2. QED
      BY <1>1, <1>2, <2>1, CachedIsSound
  <1>6. Inside(query[q]) => Names!chain[z.at] # "noloop"
    <2>1. SUFFICES ASSUME Inside(s), h = "noloop"
                   PROVE  FALSE
      BY <1>1, <1>2
    <2>2. s.down
      BY <2>1 DEF Names!Calls
    <2>3. PICK p \in DOMAIN Names!chain : Names!chain[p] = "noloop" /\ s.at > p
      BY <2>1, <2>2 DEF Inside
    <2>4. DOMAIN Names!chain = 1 .. Len(Names!chain) /\ Len(Names!chain) \in Nat
      BY <1>1, ChainLength
    <2>5. p = s.at
      BY <1>1, <2>1, <2>3, <2>4, HandlersDiffer
    <2>6. QED
      BY <2>3, <2>4, <2>5
  <1>7. QED
    BY <1>1, <1>2, <1>3, <1>4, <1>5, <1>6, ReplyStep

\* The same without a change of the query before.
LEMMA PlainReply ==
    ASSUME DnsInv, NEW q \in Names!Query, NEW h, Names!Calls(q, h) \/ Names!Returns(q, h), NEW s, s = query[q],
           NEW m \in Messages, Owed(q, s) => m # Names!Failed, served[q] # None => Names!Captured(s.at) = "client",
           Names!Calls(q, h) \/ h # "noloop",
           Names!Reply(q, s, m), UNCHANGED <<setup, ids, updated, now, asked, channel>>
    PROVE  SoundStep(q)
  <1>1. s \in States /\ s.name \in Names!Question
    <2>1. CASE Names!Calls(q, h)
      BY <2>1, CallFacts
    <2>2. CASE Names!Returns(q, h)
      BY <2>2, ReturnFacts
    <2>3. QED
      BY <2>1, <2>2
  <1>2. QED
    BY <1>1, CalledReply

\* Memory knows nothing of a query that has come past it, and a query on its way down is
\* owed nothing by a server.
LEMMA NothingIsOwed ==
    ASSUME DnsInv, NEW q \in Names!Query, NEW h \in {"fanout", "connect", "adapt"}, Names!Calls(q, h)
    PROVE  ~ Known(q) /\ ~ Owed(q, query[q]) /\ query[q].at = Len(Names!chain)
  <1>1. PICK s : s = query[q]
    OBVIOUS
  <1>2. /\ s.at \in 1 .. Len(Names!chain) /\ Names!chain[s.at] = h /\ setup \in Setups /\ ~ Heard(s)
        /\ Known(q) => \A p \in DOMAIN Names!chain : Names!chain[p] = "memory" => s.at <= p
    BY <1>1, CallFacts
  <1>3. DOMAIN Names!chain = 1 .. Len(Names!chain) /\ Len(Names!chain) \in Nat
    BY <1>2, ChainLength
  <1>4. s.at = Len(Names!chain)
    BY <1>2, LastHandler
  <1>5. ~ Known(q)
    <2>1. SUFFICES ASSUME Known(q)
                   PROVE  FALSE
      OBVIOUS
    <2>2. PICK p \in DOMAIN Names!chain : Names!chain[p] = "memory"
      BY <2>1 DEF Known
    <2>3. s.at <= p
      BY <1>2, <2>1, <2>2
    <2>4. p = s.at
      BY <1>3, <1>4, <2>3
    <2>5. QED
      BY <1>2, <2>2, <2>4
  <1>6. QED
    BY <1>1, <1>2, <1>4, <1>5 DEF Owed

LEMMA PassStep ==
    ASSUME DnsInv, NEW q \in Names!Query, NEW h, Names!Calls(q, h), h \notin {"fanout", "connect", "adapt", "memory"}, Names!Pass(q)
    PROVE  SoundStep(q)
  <1>1. PICK s : s = query[q]
    OBVIOUS
  <1>2. /\ s \in States /\ s.at \in 1 .. Len(Names!chain) /\ s.name \in Names!Question /\ s.down
        /\ Names!chain[s.at] = h /\ served[q] = None /\ ~ Heard(s) /\ CacheInv
        /\ Known(q) => \A p \in DOMAIN Names!chain : Names!chain[p] = "memory" => s.at <= p
    BY <1>1, CallFacts
  <1>3. query = [k \in Names!Query |-> query[k]]
    BY DEF DnsInv, QueriesAreSound
  <1>4. query' = [query EXCEPT ![q] = Names!NextHandler(s)]
    BY <1>1, <1>3 DEF Names!Pass
  <1>5. UNCHANGED <<setup, ids, cache, updated, now, asked, channel, served>>
    BY DEF Names!Pass
  <1>6. CacheInv'
    BY <1>2, <1>5, CacheStays
  <1>7. (IdsMove(q) => SoundStep(q)) /\ (Inside(query[q]) => Inside(query'[q]))
    BY <1>1, <1>2, <1>4, <1>5, <1>6, NextStep
  <1>8. QED
    BY <1>5, <1>7, IdsRest

LEMMA FailStep ==
    ASSUME DnsInv, NEW q \in Names!Query, NEW h, Names!Calls(q, h) \/ (Names!Returns(q, h) /\ h # "noloop"),
           ~ Owed(q, query[q]), served[q] # None => Names!Captured(query[q].at) = "client", Names!HandleFailed(q)
    PROVE  SoundStep(q)
  <1>1. Names!Reply(q, query[q], Names!Failed) /\ UNCHANGED <<setup, ids, updated, now, asked, channel>>
    BY DEF Names!HandleFailed
  <1>2. PICK s : s = query[q]
    OBVIOUS
  <1>3. Names!Reply(q, s, Names!Failed) /\ ~ Owed(q, s) /\ (served[q] # None => Names!Captured(s.at) = "client")
    BY <1>1, <1>2
  <1>4. CASE Names!Calls(q, h)
    BY <1>1, <1>2, <1>3, <1>4, FailedIsMessage, PlainReply
  <1>5. CASE Names!Returns(q, h) /\ h # "noloop"
    BY <1>1, <1>2, <1>3, <1>5, FailedIsMessage, PlainReply
  <1>6. QED
    BY <1>4, <1>5

LEMMA CheckMsgStep ==
    ASSUME DnsInv, NEW q \in Names!Query, Names!checkMsgHandler(q)
    PROVE  SoundStep(q)
  <1>1. Names!Calls(q, "checkmsg") /\ IF q.qtype = "nil" THEN Names!HandleFailed(q) ELSE Names!Pass(q)
    BY DEF Names!checkMsgHandler
  <1>2. PICK s : s = query[q]
    OBVIOUS
  <1>3. ~ Heard(s) /\ served[q] = None
    BY <1>1, <1>2, CallFacts
  <1>4. CASE q.qtype = "nil"
    <2>1. ~ Owed(q, query[q])
      BY <1>2, <1>3, <1>4 DEF Owed
    <2>2. QED
      BY <1>1, <1>3, <1>4, <2>1, FailStep
  <1>5. CASE q.qtype # "nil"
    BY <1>1, <1>5, PassStep
  <1>6. QED
    BY <1>4, <1>5

LEMMA NorecursionStep ==
    ASSUME DnsInv, NEW q \in Names!Query, Names!norecursionDNSHandler(q)
    PROVE  SoundStep(q)
  <1>1. Names!Calls(q, "norecursion") /\ Names!Pass(q)
    BY DEF Names!norecursionDNSHandler
  <1>2. QED
    BY <1>1, PassStep

\* A handler that remembers answers sends the query on.
LEMMA AskStep ==
    ASSUME DnsInv, NEW q \in Names!Query, NEW h \in Capturing, Names!Calls(q, h) \/ Names!Returns(q, h),
           served[q] = None, ~ Heard(query[q]),
           NEW s \in States, s.at = query[q].at, s.name \in Names!Question, s.down, Flags(query[q], s),
           query' = [query EXCEPT ![q] = Names!NextHandler(s)],
           UNCHANGED <<setup, ids, cache, updated, now, asked, channel, served>>
    PROVE  SoundStep(q)
  <1>1. PICK r : r = query[q]
    OBVIOUS
  <1>2. /\ r.at \in 1 .. Len(Names!chain) /\ Names!chain[r.at] = h /\ CacheInv
        /\ Known(q) => \A p \in DOMAIN Names!chain : Names!chain[p] = "memory" => r.at <= p
    <2>1. CASE Names!Calls(q, h)
      BY <1>1, <2>1, CallFacts
    <2>2. CASE Names!Returns(q, h)
      BY <1>1, <2>2, ReturnFacts
    <2>3. QED
      BY <2>1, <2>2
  <1>3. CacheInv'
    BY <1>2, CacheStays
  <1>4. ~ Heard(s)
    BY DEF Heard, Flags
  <1>5. h \notin {"fanout", "connect", "adapt"} /\ h # "memory"
    BY DEF Capturing
  <1>6. (IdsMove(q) => SoundStep(q)) /\ (Inside(query[q]) => Inside(query'[q]))
    BY <1>1, <1>2, <1>3, <1>4, <1>5, NextStep
  <1>7. QED
    BY <1>6, IdsRest

LEMMA DnsConfigsStep ==
    ASSUME DnsInv, NEW q \in Names!Query, Names!dnsConfigsHandler(q)
    PROVE  SoundStep(q)
  <1>1. Names!Calls(q, "dnsconfigs")
    BY DEF Names!dnsConfigsHandler
  <1>2. PICK r : r = query[q]
    OBVIOUS
  <1>3. r \in States /\ r.name \in Names!Question /\ r.down /\ served[q] = None /\ ~ Heard(r) /\ setup \in Setups
    BY <1>1, <1>2, CallFacts
  <1>4. PICK sv, td : sv = setup.servers /\ td = setup.domains
    OBVIOUS
  <1>5. PICK s : s = [r EXCEPT !.servers = sv, !.todo = td, !.caught = None]
    OBVIOUS
  <1>6. query = [k \in Names!Query |-> query[k]]
    BY DEF DnsInv, QueriesAreSound
  <1>7. query' = [query EXCEPT ![q] = Names!NextHandler(s)]
    BY <1>2, <1>4, <1>5, <1>6 DEF Names!dnsConfigsHandler
  <1>8. s \in States
    <2>1. sv \in SUBSET UNION {y.servers : y \in Setups}
      BY <1>3, <1>4
    <2>2. td \in Seq(Names!Domain)
      BY <1>3, <1>4, DnsAssumption
    <2>3. QED
      BY <1>3, <1>5, <2>1, <2>2 DEF States
  <1>9. s.at = r.at /\ s.name = r.name /\ s.down = r.down /\ Flags(r, s)
    BY <1>3, <1>5 DEF States, Flags
  <1>10. UNCHANGED <<setup, ids, cache, updated, now, asked, channel, served>>
    BY DEF Names!dnsConfigsHandler
  <1>11. QED
    BY <1>1, <1>2, <1>3, <1>7, <1>8, <1>9, <1>10, AskStep DEF Capturing

LEMMA OwnIsQuestion ==
    ASSUME NEW q \in Names!Query
    PROVE  Names!Own(q) \in Names!Question /\ Names!Own(q)[1] = q.name /\ Names!Own(q)[3] = q.qtype
  BY DEF Names!Own, Names!Question, Names!Name, Names!Domain

LEMMA SearchesStep ==
    ASSUME DnsInv, NEW q \in Names!Query, Names!searchDomainsHandler(q)
    PROVE  SoundStep(q)
  <1>1. Names!Calls(q, "searches")
    BY DEF Names!searchDomainsHandler
  <1>2. PICK r : r = query[q]
    OBVIOUS
  <1>3. r \in States /\ r.down /\ served[q] = None /\ ~ Heard(r)
    BY <1>1, <1>2, CallFacts
  <1>4. PICK n : n = Names!Own(q)
    OBVIOUS
  <1>5. PICK s : s = [r EXCEPT !.name = n, !.got = None]
    OBVIOUS
  <1>6. query = [k \in Names!Query |-> query[k]]
    BY DEF DnsInv, QueriesAreSound
  <1>7. query' = [query EXCEPT ![q] = Names!NextHandler(s)]
    BY <1>2, <1>4, <1>5, <1>6 DEF Names!searchDomainsHandler
  <1>8. n \in Names!Question
    BY <1>4, OwnIsQuestion
  <1>9. s \in States
    BY <1>3, <1>5, <1>8 DEF States
  <1>10. s.at = r.at /\ s.name = n /\ s.down = r.down /\ Flags(r, s)
    BY <1>3, <1>5 DEF States, Flags
  <1>11. UNCHANGED <<setup, ids, cache, updated, now, asked, channel, served>>
    BY DEF Names!searchDomainsHandler
  <1>12. QED
    BY <1>1, <1>2, <1>3, <1>7, <1>8, <1>9, <1>10, <1>11, AskStep DEF Capturing

\* Only a failure is a message that is no answer.
LEMMA FailuresAreEqual ==
    ASSUME NEW m \in Messages
    PROVE  m.code = "fail" <=> m = Names!Failed
  BY DEF Messages, Names!Failed

LEMMA DestOfCapturing ==
    ASSUME DnsInv, NEW q \in Names!Query, NEW h \in Capturing, Names!Returns(q, h)
    PROVE  Dest(query[q].at) = h /\ served[q] = None
  <1>1. PICK s : s = query[q]
    OBVIOUS
  <1>2. s.at \in 1 .. Len(Names!chain) /\ Names!chain[s.at] = h /\ setup \in Setups /\ (served[q] # None => Dest(s.at) = "client")
    BY <1>1, ReturnFacts
  <1>3. s.at \in DOMAIN Names!chain
    BY <1>2, ChainLength
  <1>4. Dest(s.at) = h /\ h # "client"
    BY <1>2, <1>3 DEF Dest, Capturing
  <1>5. QED
    BY <1>1, <1>2, <1>4

LEMMA DnsConfigsReturnsStep ==
    ASSUME DnsInv, NEW q \in Names!Query, Names!dnsConfigsReturns(q)
    PROVE  SoundStep(q)
  <1>1. Names!Returns(q, "dnsconfigs") /\ UNCHANGED <<setup, ids, updated, now, asked, channel>>
    BY DEF Names!dnsConfigsReturns
  <1>2. PICK s : s = query[q]
    OBVIOUS
  <1>3. /\ s \in States /\ s.at \in 1 .. Len(Names!chain) /\ s.name \in Names!Question /\ CacheInv
        /\ Owed(q, s) => Holds(s, served[q], Dest(s.at))
    BY <1>1, <1>2, ReturnFacts
  <1>4. served[q] = None /\ (Owed(q, s) => s.caught # None /\ s.caught # Names!Failed)
    <2>1. Dest(s.at) = "dnsconfigs" /\ served[q] = None
      BY <1>1, <1>2, DestOfCapturing DEF Capturing
    <2>2. QED
      BY <1>3, <2>1 DEF Holds
  <1>5. s.caught \in Messages \cup {None}
    BY <1>3 DEF States
  <1>6. CASE s.caught # None
    <2>1. PICK m \in Messages : m = s.caught
      BY <1>5, <1>6
    <2>2. Names!Reply(q, s, m)
      BY <1>2, <1>6, <2>1 DEF Names!dnsConfigsReturns
    <2>3. QED
      BY <1>1, <1>2, <1>4, <2>1, <2>2, PlainReply
  <1>7. CASE s.caught = None /\ s.tcp
    <2>1. Names!Reply(q, s, Names!Failed)
      BY <1>2, <1>7 DEF Names!dnsConfigsReturns
    <2>2. ~ Owed(q, s)
      BY <1>4, <1>7
    <2>3. QED
      BY <1>1, <1>2, <1>4, <2>1, <2>2, FailedIsMessage, PlainReply
  <1>8. CASE s.caught = None /\ ~ s.tcp
    <2>1. PICK z : z = [s EXCEPT !.tcp = TRUE, !.down = TRUE]
      OBVIOUS
    <2>2. query = [k \in Names!Query |-> query[k]]
      BY DEF DnsInv, QueriesAreSound
    <2>3. query' = [query EXCEPT ![q] = Names!NextHandler(z)] /\ UNCHANGED <<cache, served>>
      BY <1>2, <1>8, <2>1, <2>2 DEF Names!dnsConfigsReturns
    <2>4. z \in States
      BY <1>3, <2>1 DEF States
    <2>5. z.at = s.at /\ z.name = s.name /\ z.down /\ Flags(s, z)
      BY <1>3, <2>1 DEF States, Flags
    <2>6. ~ Heard(s)
      BY <1>4, <1>8 DEF Owed
    <2>7. QED
      BY <1>1, <1>2, <1>3, <1>4, <2>3, <2>4, <2>5, <2>6, AskStep DEF Capturing
  <1>9. QED
    BY <1>6, <1>7, <1>8

LEMMA SearchesReturnsStep ==
    ASSUME DnsInv, NEW q \in Names!Query, Names!searchDomainsReturns(q)
    PROVE  SoundStep(q)
  <1>1. Names!Returns(q, "searches") /\ UNCHANGED <<setup, ids, updated, now, asked, channel>>
    BY DEF Names!searchDomainsReturns
  <1>2. PICK s : s = query[q]
    OBVIOUS
  <1>3. /\ s \in States /\ s.at \in 1 .. Len(Names!chain) /\ CacheInv
        /\ Owed(q, s) => Holds(s, served[q], Dest(s.at))
    BY <1>1, <1>2, ReturnFacts
  <1>4. served[q] = None /\ (Owed(q, s) => s.got # None /\ s.got # Names!Failed)
    <2>1. Dest(s.at) = "searches" /\ served[q] = None
      BY <1>1, <1>2, DestOfCapturing DEF Capturing
    <2>2. QED
      BY <1>3, <2>1 DEF Holds
  <1>5. s.got \in Messages \cup {None} /\ s.todo \in Seq(Names!Domain)
    BY <1>3 DEF States
  <1>6. PICK o : o = Names!Own(q)
    OBVIOUS
  <1>7. PICK y : y = [s EXCEPT !.name = o]
    OBVIOUS
  <1>8. o \in Names!Question
    BY <1>6, OwnIsQuestion
  <1>9. /\ y \in States /\ y.name = o /\ y.at = s.at /\ y.got = s.got /\ y.todo = s.todo /\ Flags(s, y)
    BY <1>3, <1>7, <1>8 DEF States, Flags
  <1>10. Owed(q, y) => Owed(q, s)
    BY <1>9 DEF Flags, Owed, Heard
  <1>11. CASE s.got # None /\ s.got.code # "fail"
    <2>1. PICK m \in Messages : m = s.got
      BY <1>5, <1>11
    <2>2. Names!Reply(q, y, m)
      BY <1>2, <1>11, <1>6, <1>7, <1>9, <2>1 DEF Names!searchDomainsReturns
    <2>3. QED
      BY <1>1, <1>2, <1>4, <1>8, <1>9, <1>10, <2>1, <2>2, CalledReply
  <1>12. ~(s.got # None /\ s.got.code # "fail") => ~ Owed(q, s)
    BY <1>4, <1>5, FailuresAreEqual
  <1>13. CASE ~(s.got # None /\ s.got.code # "fail") /\ s.todo = <<>>
    <2>1. Names!Reply(q, y, Names!Failed)
      BY <1>2, <1>13, <1>6, <1>7, <1>9 DEF Names!searchDomainsReturns
    <2>2. QED
      BY <1>1, <1>2, <1>4, <1>12, <1>13, <1>8, <1>9, <1>10, <2>1, FailedIsMessage, CalledReply
  <1>14. CASE ~(s.got # None /\ s.got.code # "fail") /\ s.todo # <<>>
    <2>1. PICK n, td : n = <<q.name, Head(s.todo), q.qtype>> /\ td = Tail(s.todo)
      OBVIOUS
    <2>2. PICK z : z = [y EXCEPT !.name = n, !.todo = td, !.got = None, !.down = TRUE]
      OBVIOUS
    <2>3. query = [k \in Names!Query |-> query[k]]
      BY DEF DnsInv, QueriesAreSound
    <2>4. query' = [query EXCEPT ![q] = Names!NextHandler(z)] /\ UNCHANGED <<cache, served>>
      BY <1>2, <1>14, <1>6, <1>7, <1>9, <2>1, <2>2, <2>3 DEF Names!searchDomainsReturns
    <2>5. n \in Names!Question /\ td \in Seq(Names!Domain)
      <3>1. Head(s.todo) \in Names!Domain /\ Tail(s.todo) \in Seq(Names!Domain)
        BY <1>5, <1>14
      <3>2. q.name \in Names!Name /\ q.qtype \in {k.qtype : k \in Names!Query}
        BY DEF Names!Name
      <3>3. QED
        BY <2>1, <3>1, <3>2 DEF Names!Question
    <2>6. z \in States
      BY <1>9, <2>2, <2>5 DEF States
    <2>7. z.at = s.at /\ z.name = n /\ z.down /\ Flags(s, z)
      BY <1>9, <2>2 DEF States, Flags
    <2>8. ~ Heard(s)
      BY <1>12, <1>14 DEF Owed
    <2>9. QED
      BY <1>1, <1>2, <1>3, <1>4, <2>4, <2>5, <2>6, <2>7, <2>8, AskStep DEF Capturing
  <1>15. QED
    BY <1>11, <1>13, <1>14

LEMMA NoloopStep ==
    ASSUME DnsInv, NEW q \in Names!Query, Names!noloopDNSHandler(q)
    PROVE  SoundStep(q)
  <1>1. Names!Calls(q, "noloop") /\ UNCHANGED <<setup, updated, now, asked, channel>>
    BY DEF Names!noloopDNSHandler
  <1>2. PICK s : s = query[q]
    OBVIOUS
  <1>3. /\ s \in States /\ s.at \in 1 .. Len(Names!chain) /\ s.name \in Names!Question /\ s.down
        /\ Names!chain[s.at] = "noloop" /\ served[q] = None /\ ~ Heard(s) /\ CacheInv /\ setup \in Setups
        /\ Known(q) => \A p \in DOMAIN Names!chain : Names!chain[p] = "memory" => s.at <= p
    BY <1>1, <1>2, CallFacts
  <1>4. CASE q.id \in ids
    <2>1. PICK z : z = [s EXCEPT !.loop = TRUE]
      OBVIOUS
    <2>2. z \in States /\ z.at = s.at /\ z.name \in Names!Question
      BY <1>3, <2>1 DEF States
    <2>3. z.loop /\ ~ Heard(z)
      BY <1>3, <2>1 DEF States, Heard
    <2>4. Names!Reply(q, z, Names!Failed) /\ UNCHANGED ids
      BY <1>2, <1>4, <2>1 DEF Names!noloopDNSHandler
    <2>5. ~ Owed(q, z)
      BY <2>3 DEF Owed
    <2>6. QED
      BY <1>1, <1>2, <1>3, <2>2, <2>4, <2>5, FailedIsMessage, CalledReply
  <1>5. CASE q.id \notin ids
    <2>1. query = [k \in Names!Query |-> query[k]]
      BY DEF DnsInv, QueriesAreSound
    <2>2. ids' = ids \cup {q.id} /\ query' = [query EXCEPT ![q] = Names!NextHandler(s)] /\ UNCHANGED <<cache, served>>
      BY <1>2, <1>5, <2>1 DEF Names!noloopDNSHandler
    <2>3. CacheInv'
      BY <1>1, <1>3, <2>2, CacheStays
    <2>4. query'[q] = Names!NextHandler(s) /\ (IdsMove(q) => SoundStep(q))
      BY <1>1, <1>2, <1>3, <2>2, <2>3, NextStep
    <2>5. Inside(query'[q])
      <3>1. s.at \in 1 .. s.at /\ s.at \in DOMAIN Names!chain
        BY <1>3, ChainLength
      <3>2. Names!Contains(Names!chain, "noloop")
        BY <1>3, <3>1 DEF Names!Contains
      <3>3. QED
        BY <1>3, <2>4, <3>1, <3>2, NextInside
    <2>6. IdsMove(q)
      BY <2>2, <2>5 DEF IdsMove
    <2>7. QED
      BY <2>4, <2>6
  <1>6. QED
    BY <1>4, <1>5

\* A handler that does not remember answers is not where they are looked for.
LEMMA DestOfOthers ==
    ASSUME DnsInv, NEW q \in Names!Query, NEW h, h \notin Capturing, Names!Returns(q, h)
    PROVE  Dest(query[q].at) = Names!Captured(query[q].at)
  <1>1. Names!chain[query[q].at] = h
    BY DEF Names!Returns
  <1>2. QED
    BY <1>1 DEF Dest

LEMMA NoloopReturnsStep ==
    ASSUME DnsInv, NEW q \in Names!Query, Names!noloopReturns(q)
    PROVE  SoundStep(q)
  <1>1. Names!Returns(q, "noloop") /\ UNCHANGED <<setup, cache, updated, now, asked, channel, served>> /\ ids' = ids \ {q.id}
    BY DEF Names!noloopReturns
  <1>2. PICK s : s = query[q]
    OBVIOUS
  <1>3. /\ s \in States /\ s.at \in 1 .. Len(Names!chain) /\ Names!chain[s.at] = "noloop" /\ CacheInv
        /\ served[q] # None => Dest(s.at) = "client"
        /\ Owed(q, s) => Holds(s, served[q], Dest(s.at))
        /\ Dest(s.at) = "client" => served[q] # None
        /\ Known(q) => \A p \in DOMAIN Names!chain : Names!chain[p] = "memory" => s.at <= p
    BY <1>1, <1>2, ReturnFacts
  <1>4. Dest(s.at) = Names!Captured(s.at)
    BY <1>1, <1>2, DestOfOthers DEF Capturing
  <1>5. query = [k \in Names!Query |-> query[k]]
    BY DEF DnsInv, QueriesAreSound
  <1>6. query' = [query EXCEPT ![q] = Names!Return(s)]
    BY <1>2, <1>5 DEF Names!noloopReturns
  <1>7. CacheInv'
    BY <1>1, <1>3, CacheStays
  <1>8. Names!chain[s.at] \notin Capturing
    BY <1>3 DEF Capturing
  <1>9. IdsMove(q) => SoundStep(q)
    BY <1>1, <1>2, <1>3, <1>4, <1>6, <1>7, <1>8, UnwindStep
  <1>10. IdsMove(q)
    BY <1>1 DEF IdsMove
  <1>11. QED
    BY <1>9, <1>10

LEMMA MemoryStep ==
    ASSUME DnsInv, NEW q \in Names!Query, Names!memoryHandler(q)
    PROVE  SoundStep(q)
  <1>1. Names!Calls(q, "memory") /\ UNCHANGED <<setup, ids, updated, now, asked, channel>>
    BY DEF Names!memoryHandler
  <1>2. PICK s : s = query[q]
    OBVIOUS
  <1>3. /\ s \in States /\ s.at \in 1 .. Len(Names!chain) /\ s.name \in Names!Question /\ s.down
        /\ Names!chain[s.at] = "memory" /\ served[q] = None /\ ~ Heard(s) /\ CacheInv
        /\ Known(q) => \A p \in DOMAIN Names!chain : Names!chain[p] = "memory" => s.at <= p
    BY <1>1, <1>2, CallFacts
  <1>4. CASE Names!Answers(q) # {}
    <2>1. PICK m : m = Names!Success("ok", 3600, s.name)
      OBVIOUS
    <2>2. m \in Messages /\ m # Names!Failed
      BY <1>3, <2>1, SuccessIsMessage
    <2>3. Names!Reply(q, s, m)
      BY <1>2, <1>4, <2>1 DEF Names!memoryHandler
    <2>4. QED
      BY <1>1, <1>2, <1>3, <2>2, <2>3, PlainReply
  <1>5. CASE Names!Answers(q) = {} /\ q.name \in DOMAIN Names!records
    <2>1. PICK m : m = Names!Success("empty", 0, s.name)
      OBVIOUS
    <2>2. m \in Messages /\ m # Names!Failed
      BY <1>3, <2>1, SuccessIsMessage
    <2>3. Names!Reply(q, s, m)
      BY <1>2, <1>5, <2>1 DEF Names!memoryHandler
    <2>4. QED
      BY <1>1, <1>2, <1>3, <2>2, <2>3, PlainReply
  <1>6. CASE Names!Answers(q) = {} /\ q.name \notin DOMAIN Names!records
    <2>1. PICK z : z = [s EXCEPT !.passed = FALSE]
      OBVIOUS
    <2>2. query = [k \in Names!Query |-> query[k]]
      BY DEF DnsInv, QueriesAreSound
    <2>3. query' = [query EXCEPT ![q] = Names!NextHandler(z)] /\ UNCHANGED <<cache, served>>
      BY <1>2, <1>6, <2>1, <2>2 DEF Names!memoryHandler
    <2>4. z \in States
      BY <1>3, <2>1 DEF States
    <2>5. z.at = s.at /\ z.name = s.name /\ z.down /\ Flags(s, z) /\ ~ z.passed
      BY <1>3, <2>1 DEF States, Flags
    <2>6. ~ Heard(z)
      BY <1>3, <2>5 DEF Heard, Flags
    <2>7. ~ Known(q)
      BY <1>6 DEF Known
    <2>8. CacheInv'
      BY <1>1, <1>3, <2>3, CacheStays
    <2>9. UNCHANGED <<setup, served, asked, channel>> /\ UNCHANGED ids
      BY <1>1, <2>3
    <2>10. z.at \in 1 .. Len(Names!chain) /\ z.name \in Names!Question /\ z.at = query[q].at
           /\ Names!chain[z.at] \notin {"fanout", "connect", "adapt"}
      BY <1>2, <1>3, <2>5
    <2>11. (IdsMove(q) => SoundStep(q)) /\ (Inside(query[q]) => Inside(query'[q]))
      BY <1>3, <2>3, <2>4, <2>5, <2>6, <2>7, <2>8, <2>9, <2>10, NextStep
    <2>12. QED
      BY <2>9, <2>11, IdsRest
  <1>7. QED
    BY <1>4, <1>5, <1>6

LEMMA MemoryReturnsStep ==
    ASSUME DnsInv, NEW q \in Names!Query, Names!memoryReturns(q)
    PROVE  SoundStep(q)
  <1>1. Names!Returns(q, "memory") /\ IF query[q].passed THEN Names!Unwind(q) ELSE Names!HandleFailed(q)
    BY DEF Names!memoryReturns
  <1>2. PICK s : s = query[q]
    OBVIOUS
  <1>3. /\ s \in States /\ s.at \in 1 .. Len(Names!chain) /\ Names!chain[s.at] = "memory" /\ CacheInv /\ setup \in Setups
        /\ served[q] # None => Dest(s.at) = "client"
        /\ Owed(q, s) => Holds(s, served[q], Dest(s.at))
        /\ Dest(s.at) = "client" => (s.passed => served[q] # None)
        /\ ~ s.passed => ~ Heard(s)
        /\ Known(q) => \A p \in DOMAIN Names!chain : Names!chain[p] = "memory" => s.at <= p /\ s.at # p
    BY <1>1, <1>2, ReturnFacts
  <1>4. Dest(s.at) = Names!Captured(s.at)
    BY <1>1, <1>2, DestOfOthers DEF Capturing
  <1>5. CASE s.passed
    <2>1. query = [k \in Names!Query |-> query[k]]
      BY DEF DnsInv, QueriesAreSound
    <2>2. query' = [query EXCEPT ![q] = Names!Return(s)]
      BY <1>1, <1>2, <1>5, <2>1 DEF Names!Unwind
    <2>3. UNCHANGED <<setup, ids, cache, updated, now, asked, channel, served>>
      BY <1>1, <1>2, <1>5 DEF Names!Unwind
    <2>4. CacheInv'
      BY <1>3, <2>3, CacheStays
    <2>5. Names!chain[s.at] \notin Capturing
      BY <1>3 DEF Capturing
    <2>6. (IdsMove(q) => SoundStep(q)) /\ (Inside(query[q]) => Inside(query'[q]))
      BY <1>2, <1>3, <1>4, <1>5, <2>2, <2>3, <2>4, <2>5, UnwindStep
    <2>7. QED
      BY <2>3, <2>6, IdsRest
  <1>6. CASE ~ s.passed
    <2>1. s.at \in DOMAIN Names!chain
      BY <1>3, ChainLength
    <2>2. ~ Known(q)
      BY <1>3, <2>1
    <2>3. ~ Owed(q, query[q])
      BY <1>2, <1>3, <1>6, <2>2 DEF Owed
    <2>4. served[q] # None => Names!Captured(query[q].at) = "client"
      BY <1>2, <1>3, <1>4
    <2>5. Names!HandleFailed(q)
      BY <1>1, <1>2, <1>6
    <2>6. QED
      BY <1>1, <2>3, <2>4, <2>5, FailStep
  <1>7. QED
    BY <1>5, <1>6

LEMMA AnsweredIsMessage ==
    ASSUME NEW n \in Names!Question, NEW m \in Names!Answered(n)
    PROVE  m \in Messages
  BY FailedIsMessage, SuccessIsMessage, DnsAssumption DEF Names!Answered

LEMMA ConnectStep ==
    ASSUME DnsInv, NEW q \in Names!Query, Names!connectDNSHandler(q)
    PROVE  SoundStep(q)
  <1>1. Names!Calls(q, "connect") /\ UNCHANGED <<setup, ids, updated, now, asked, channel>>
    BY DEF Names!connectDNSHandler
  <1>2. PICK m \in Names!Answered(query[q].name) : Names!Reply(q, query[q], m)
    BY DEF Names!connectDNSHandler
  <1>3. m \in Messages
    <2>1. query[q].name \in Names!Question
      BY <1>1, CallFacts
    <2>2. QED
      BY <2>1, AnsweredIsMessage
  <1>4. PICK s : s = query[q]
    OBVIOUS
  <1>5. served[q] = None
    BY <1>1, <1>4, CallFacts
  <1>6. ~ Owed(q, s)
    BY <1>1, <1>4, NothingIsOwed
  <1>7. Names!Reply(q, s, m)
    BY <1>2, <1>4
  <1>8. QED
    BY <1>1, <1>3, <1>4, <1>5, <1>6, <1>7, PlainReply

LEMMA AdaptStep ==
    ASSUME DnsInv, NEW q \in Names!Query, Names!adaptedHandler(q)
    PROVE  SoundStep(q)
  <1>1. Names!Calls(q, "adapt") /\ UNCHANGED <<setup, ids, updated, now, asked, channel>>
    BY DEF Names!adaptedHandler
  <1>2. \/ \E m \in Names!Answered(query[q].name) : Names!Reply(q, query[q], m)
        \/ Names!Unwind(q)
    BY DEF Names!adaptedHandler
  <1>3. PICK s : s = query[q]
    OBVIOUS
  <1>4. /\ s \in States /\ s.name \in Names!Question /\ s.at \in 1 .. Len(Names!chain) /\ Names!chain[s.at] = "adapt" /\ served[q] = None /\ CacheInv /\ setup \in Setups
        /\ Known(q) => \A p \in DOMAIN Names!chain : Names!chain[p] = "memory" => s.at <= p
    BY <1>1, <1>3, CallFacts
  <1>5. ~ Owed(q, s)
    BY <1>1, <1>3, NothingIsOwed
  <1>6. ASSUME NEW m \in Names!Answered(query[q].name), Names!Reply(q, query[q], m)
        PROVE  SoundStep(q)
    <2>1. m \in Messages
      BY <1>3, <1>4, <1>6, AnsweredIsMessage
    <2>2. Names!Reply(q, s, m)
      BY <1>3, <1>6
    <2>3. QED
      BY <1>1, <1>3, <1>4, <1>5, <2>1, <2>2, PlainReply
  <1>7. CASE Names!Unwind(q)
    <2>1. query = [k \in Names!Query |-> query[k]]
      BY DEF DnsInv, QueriesAreSound
    <2>2. query' = [query EXCEPT ![q] = Names!Return(s)]
      BY <1>3, <1>7, <2>1 DEF Names!Unwind
    <2>3. UNCHANGED <<setup, ids, cache, updated, now, asked, channel, served>>
      BY <1>7 DEF Names!Unwind
    <2>4. CacheInv'
      BY <1>4, <2>3, CacheStays
    <2>5. s.at > 1 /\ Names!chain[s.at - 1] \in Capturing
      BY <1>4, ChainIsSound DEF Capturing
    <2>6. Names!Captured(s.at) # "client"
      <3>1. Len(Names!chain) \in Nat
        BY <1>4, ChainLength
      <3>2. s.at - 1 \in 1 .. s.at - 1 /\ s.at \in 0 .. Len(Names!chain) + 1
        BY <1>4, <2>5, <3>1
      <3>3. \/ Names!Captured(s.at) = "client" /\ \A j \in 1 .. s.at - 1 : Names!chain[j] \notin Capturing
            \/ \E j \in 1 .. s.at - 1 : Names!chain[j] \in Capturing /\ Names!Captured(s.at) = Names!chain[j]
        BY <1>4, <3>2, CapturedIs
      <3>4. QED
        BY <2>5, <3>2, <3>3 DEF Capturing
    <2>7. Names!chain[s.at] \notin Capturing /\ Names!chain[s.at] # "noloop"
      BY <1>4 DEF Capturing
    <2>8. (IdsMove(q) => SoundStep(q)) /\ (Inside(query[q]) => Inside(query'[q]))
      BY <1>3, <1>4, <1>5, <2>2, <2>3, <2>4, <2>5, <2>6, <2>7, UnwindStep
    <2>9. QED
      BY <2>3, <2>8, IdsRest
  <1>8. QED
    BY <1>2, <1>6, <1>7

\* A time in whole seconds.
LEMMA WholeSeconds ==
    ASSUME NEW n \in Nat, NEW w \in Nat \ {0}
    PROVE  n \div w \in Nat /\ w * (n \div w) <= n /\ n < w * (n \div w) + w
  OBVIOUS

LEMMA Multiplied ==
    ASSUME NEW v \in Nat, NEW i \in Int, NEW j \in Int
    PROVE  /\ v * (i + j) = v * i + v * j
           /\ i <= j => v * i <= v * j
  <1>1. v * (i + j) = v * i + v * j
    OBVIOUS
  <1>2. ASSUME i <= j
        PROVE  v * i <= v * j
    <2>1. PICK k \in Nat : j = i + k
      <3>1. j - i \in Nat /\ j = i + (j - i)
        BY <1>2
      <3>2. QED
        BY <3>1
    <2>2. v * j = v * i + v * k /\ v * k \in Nat
      BY <2>1
    <2>3. v * i \in Int
      OBVIOUS
    <2>4. QED
      BY <2>2, <2>3
  <1>3. QED
    BY <1>1, <1>2

\* An update of the cache that takes d seconds from each entry takes more than half of
\* the time since the last one, or all of it when no second has passed.
LEMMA UpdateIsSound ==
    ASSUME CacheInv, NEW t, t = IF (now - updated) \div Ticks = 0 THEN updated ELSE now
    PROVE  /\ Names!updateTTL \in [Names!Question -> Entries \cup {None}] /\ t \in Nat /\ t <= now
           /\ \A k \in Names!Question : Names!updateTTL[k] # None =>
                 LET e == Names!updateTTL[k]
                 IN  /\ e.left <= e.ttl /\ e.at <= now
                     /\ e.left > 0 => t - e.at <= 2 * Ticks * (e.ttl - e.left) /\ now - e.at < (2 * e.ttl - 1) * Ticks
  <1>1. updated \in Nat /\ now \in Nat /\ updated <= now /\ Ticks \in Nat \ {0}
    BY DnsAssumption DEF CacheInv
  <1>2. PICK d : d = (now - updated) \div Ticks
    OBVIOUS
  <1>3. d \in Nat /\ now - updated < Ticks * d + Ticks
    <2>1. now - updated \in Nat
      BY <1>1
    <2>2. QED
      BY <1>1, <1>2, <2>1, WholeSeconds
  <1>4. t = IF d = 0 THEN updated ELSE now
    BY <1>2
  <1>5. t \in Nat /\ t <= now
    BY <1>1, <1>4
  <1>6. PICK u : u = Names!updateTTL
    OBVIOUS
  <1>7. u = [k \in Names!Question |-> IF cache[k] = None THEN None
                                      ELSE [cache[k] EXCEPT !.left = IF @ < d THEN 0 ELSE @ - d]]
    BY <1>2, <1>6 DEF Names!updateTTL
  <1>8. \A k \in Names!Question :
           /\ u[k] \in Entries \cup {None}
           /\ u[k] # None => /\ u[k].left <= u[k].ttl /\ u[k].at <= now
                             /\ u[k].left > 0 => t - u[k].at <= 2 * Ticks * (u[k].ttl - u[k].left) /\ now - u[k].at < (2 * u[k].ttl - 1) * Ticks
    <2>1. SUFFICES ASSUME NEW k \in Names!Question, u[k] # None
                   PROVE  /\ u[k] \in Entries
                          /\ u[k].left <= u[k].ttl /\ u[k].at <= now
                          /\ u[k].left > 0 => t - u[k].at <= 2 * Ticks * (u[k].ttl - u[k].left) /\ now - u[k].at < (2 * u[k].ttl - 1) * Ticks
      OBVIOUS
    <2>2. cache[k] # None
      BY <1>7, <2>1
    <2>3. PICK e : e = cache[k]
      OBVIOUS
    <2>4. e \in Entries /\ e.left <= e.ttl /\ e.at <= now /\ (e.left > 0 => updated - e.at <= 2 * Ticks * (e.ttl - e.left))
      BY <2>2, <2>3 DEF CacheInv
    <2>5. PICK n : n = IF e.left < d THEN 0 ELSE e.left - d
      OBVIOUS
    <2>6. u[k] = [e EXCEPT !.left = n]
      BY <1>7, <2>2, <2>3, <2>5
    <2>7. e.left \in Nat /\ e.ttl \in Nat /\ e.at \in Nat
      BY <2>4 DEF Entries
    <2>8. n \in Nat /\ n <= e.left /\ n <= e.ttl
      BY <1>3, <2>4, <2>5, <2>7
    <2>9. u[k] \in Entries /\ u[k].left = n /\ u[k].ttl = e.ttl /\ u[k].at = e.at
      BY <2>4, <2>6, <2>8 DEF Entries
    <2>10. ASSUME n > 0
           PROVE  t - e.at <= 2 * Ticks * (e.ttl - n) /\ now - e.at < (2 * e.ttl - 1) * Ticks
      <3>1. n = e.left - d /\ e.left > 0
        BY <1>3, <2>5, <2>7, <2>8, <2>10
      <3>2. PICK z \in Nat : z = e.ttl - e.left
        BY <2>4, <2>7
      <3>3. e.ttl - n = z + d /\ z + d <= e.ttl - 1
        BY <1>3, <2>7, <2>8, <2>10, <3>1, <3>2
      <3>4. updated - e.at <= 2 * Ticks * z
        BY <2>4, <3>1, <3>2
      <3>5. PICK b \in Int : b = 2 * Ticks * z
        BY <1>1
      <3>6. PICK f \in Nat : f = Ticks * d
        BY <1>1, <1>3
      <3>7. 2 * Ticks * (z + d) = b + 2 * f
        <4>1. 2 * Ticks * d = 2 * f
          BY <1>1, <1>3, <3>6
        <4>2. QED
          BY <1>1, <1>3, <3>5, <4>1
      <3>8. (2 * e.ttl - 1) * Ticks = 2 * Ticks * (e.ttl - 1) + Ticks
        BY <1>1, <2>7
      <3>9. PICK g \in Int : g = 2 * Ticks * (e.ttl - 1)
        BY <1>1, <2>7
      <3>10. b + 2 * f <= g
        <4>1. PICK i, j \in Int : i = z + d /\ j = e.ttl - 1
          BY <1>3, <2>7
        <4>2. i <= j
          BY <3>3, <4>1
        <4>3. PICK v \in Nat : v = 2 * Ticks
          BY <1>1
        <4>4. v * i <= v * j
          BY <4>2, Multiplied
        <4>5. v * i = 2 * Ticks * (z + d)
          BY <4>1, <4>3
        <4>6. v * j = 2 * Ticks * (e.ttl - 1)
          BY <4>1, <4>3
        <4>7. PICK x, y \in Int : x = v * i /\ y = v * j
          OBVIOUS
        <4>8. x = b + 2 * f
          BY <3>7, <4>5, <4>7
        <4>9. y = g
          BY <3>9, <4>6, <4>7
        <4>10. x <= y
          BY <4>4, <4>7
        <4>11. QED
          BY <4>8, <4>9, <4>10
      <3>11. now - updated < f + Ticks /\ updated - e.at <= b
        BY <1>3, <3>4, <3>5, <3>6
      <3>12. now - e.at < g + Ticks
        <4>1. b \in Int /\ f \in Nat /\ g \in Int
          BY <3>5, <3>6, <3>9
        <4>2. PICK p, q \in Int : p = now - updated /\ q = updated - e.at /\ now - e.at = p + q
          BY <1>1, <2>7
        <4>3. p < f + Ticks /\ q <= b
          BY <3>11, <4>2
        <4>4. QED
          BY <1>1, <3>10, <4>1, <4>2, <4>3
      <3>13. t - e.at <= b + 2 * f
        <4>1. CASE d = 0
          BY <1>1, <1>4, <2>7, <3>5, <3>6, <3>11, <4>1
        <4>2. CASE d > 0
          <5>1. Ticks <= f
            <6>1. PICK k1 \in Nat : d = k1 + 1
              <7>1. d - 1 \in Nat /\ d = (d - 1) + 1
                BY <1>3, <4>2
              <7>2. QED
                BY <7>1
            <6>2. f = Ticks * k1 + Ticks /\ Ticks * k1 \in Nat
              BY <1>1, <3>6, <6>1
            <6>3. QED
              BY <1>1, <6>2
          <5>2. QED
            BY <1>1, <1>4, <2>7, <3>5, <3>6, <3>11, <4>2, <5>1
        <4>3. QED
          BY <1>3, <4>1, <4>2
      <3>14. t - e.at <= 2 * Ticks * (e.ttl - n)
        BY <3>3, <3>7, <3>13
      <3>15. now - e.at < (2 * e.ttl - 1) * Ticks
        BY <3>8, <3>9, <3>12
      <3>16. QED
        BY <3>14, <3>15
    <2>11. QED
      BY <2>4, <2>8, <2>9, <2>10
  <1>9. u \in [Names!Question -> Entries \cup {None}]
    BY <1>7, <1>8
  <1>10. QED
    BY <1>5, <1>6, <1>8, <1>9

LEMMA CacheStep ==
    ASSUME DnsInv, NEW q \in Names!Query, Names!dnsCacheHandler(q)
    PROVE  SoundStep(q)
  <1>1. Names!Calls(q, "cache") /\ UNCHANGED <<setup, ids, now, asked, channel>>
    BY DEF Names!dnsCacheHandler
  <1>2. PICK s : s = query[q]
    OBVIOUS
  <1>3. /\ s \in States /\ s.at \in 1 .. Len(Names!chain) /\ s.name \in Names!Question /\ s.down
        /\ Names!chain[s.at] = "cache" /\ served[q] = None /\ ~ Heard(s) /\ CacheInv /\ setup \in Setups
        /\ Known(q) => \A p \in DOMAIN Names!chain : Names!chain[p] = "memory" => s.at <= p
    BY <1>1, <1>2, CallFacts
  <1>4. PICK t : t = IF (now - updated) \div Ticks = 0 THEN updated ELSE now
    OBVIOUS
  <1>5. PICK u : u = Names!updateTTL
    OBVIOUS
  <1>6. PICK e : e = u[s.name]
    OBVIOUS
  <1>7. /\ u \in [Names!Question -> Entries \cup {None}] /\ t \in Nat /\ t <= now
        /\ \A k \in Names!Question : u[k] # None =>
              /\ u[k].left <= u[k].ttl /\ u[k].at <= now
              /\ u[k].left > 0 => t - u[k].at <= 2 * Ticks * (u[k].ttl - u[k].left) /\ now - u[k].at < (2 * u[k].ttl - 1) * Ticks
    BY <1>3, <1>4, <1>5, UpdateIsSound
  <1>8. updated' = t
    BY <1>4 DEF Names!dnsCacheHandler
  <1>9. query = [k \in Names!Query |-> query[k]]
    BY DEF DnsInv, QueriesAreSound
  <1>10. now' = now /\ now \in Nat
    BY <1>1, <1>3 DEF CacheInv
  <1>11. CASE e # None /\ Names!validateMsg(e)
    <2>1. PICK m : m = [code |-> "ok", ttl |-> e.ttl, age |-> now - e.at, of |-> e.of]
      OBVIOUS
    <2>2. /\ query' = [query EXCEPT ![q] = Names!Return(Names!WriteMsg(s, m))]
          /\ cache' = u /\ Names!Answer(q, m)
      BY <1>2, <1>5, <1>6, <1>9, <1>11, <2>1 DEF Names!dnsCacheHandler
    <2>3. e \in Entries /\ e.left > 0 /\ e.at <= now /\ now - e.at < (2 * e.ttl - 1) * Ticks
      BY <1>3, <1>6, <1>7, <1>11 DEF Names!validateMsg
    <2>4. m \in Messages /\ m # Names!Failed
      <3>1. e.ttl \in Nat /\ now - e.at \in Nat /\ e.of \in Names!Question \cup {None}
        BY <1>10, <2>3 DEF Entries
      <3>2. PICK g \in Nat : g = now - e.at
        BY <3>1
      <3>3. m = [code |-> "ok", ttl |-> e.ttl, age |-> g, of |-> e.of] /\ g < (2 * e.ttl - 1) * Ticks
        BY <2>1, <2>3, <3>2
      <3>4. QED
        BY <3>1, <3>3 DEF Messages, Names!Failed
    <2>5. served' = IF Names!Captured(s.at) = "client" THEN [served EXCEPT ![q] = m] ELSE served
      BY <1>2, <2>2 DEF Names!Answer
    <2>6. CacheInv'
      BY <1>7, <1>8, <1>10, <2>2 DEF CacheInv
    <2>7. Names!chain[s.at] # "noloop"
      BY <1>3
    <2>8. QED
      BY <1>1, <1>2, <1>3, <2>2, <2>4, <2>5, <2>6, <2>7, ReplyStep
  <1>12. CASE ~(e # None /\ Names!validateMsg(e))
    <2>1. query' = [query EXCEPT ![q] = Names!NextHandler(s)] /\ cache' = [u EXCEPT ![s.name] = None] /\ UNCHANGED served
      BY <1>2, <1>5, <1>6, <1>9, <1>12 DEF Names!dnsCacheHandler
    <2>2. cache' \in [Names!Question -> Entries \cup {None}]
      BY <1>7, <2>1
    <2>3. \A k \in Names!Question : cache'[k] # None => cache'[k] = u[k]
      BY <1>7, <2>1
    <2>4. \A k \in Names!Question : cache'[k] # None =>
             /\ cache'[k].left <= cache'[k].ttl /\ cache'[k].at <= now
             /\ cache'[k].left > 0 => t - cache'[k].at <= 2 * Ticks * (cache'[k].ttl - cache'[k].left)
      BY <1>7, <2>3
    <2>5. CacheInv'
      BY <1>7, <1>8, <1>10, <2>2, <2>4 DEF CacheInv
    <2>6. (IdsMove(q) => SoundStep(q)) /\ (Inside(query[q]) => Inside(query'[q]))
      BY <1>1, <1>2, <1>3, <2>1, <2>5, NextStep
    <2>7. QED
      BY <1>1, <2>6, IdsRest
  <1>13. QED
    BY <1>11, <1>12

LEMMA FanoutFacts ==
    ASSUME DnsInv, NEW q \in Names!Query, query[q].at = Len(Names!chain) + 1, NEW s, s = query[q]
    PROVE  /\ s \in States /\ s.name \in Names!Question /\ s.down /\ served[q] = None /\ ~ Known(q)
           /\ Names!chain[Len(Names!chain)] = "fanout" /\ setup \in Setups /\ CacheInv
           /\ Len(Names!chain) \in 1 .. Len(Names!chain) /\ Len(Names!chain) \in Nat
           /\ channel[q] \in Seq(Messages)
           /\ Heard(s) => \E i \in DOMAIN channel[q] : channel[q][i] # Names!Failed
           /\ s.at = Len(Names!chain) + 1
  <1>1. QueryIsSound(q, s, served[q], channel[q]) /\ setup \in Setups /\ CacheInv
    BY QueryFacts
  <1>2. DOMAIN Names!chain = 1 .. Len(Names!chain) /\ Len(Names!chain) \in Nat /\ Len(Names!chain) > 0
    BY <1>1, ChainLength
  <1>3. s.at = Len(Names!chain) + 1 /\ s.at # 0
    BY <1>2
  <1>4. s \in States /\ s.name \in Names!Question /\ channel[q] \in Seq(Messages)
    BY <1>1, <1>3 DEF QueryIsSound
  <1>5. s.down /\ Names!chain[Len(Names!chain)] = "fanout"
        /\ (Heard(s) => \E i \in DOMAIN channel[q] : channel[q][i] # Names!Failed)
    BY <1>1, <1>3 DEF QueryIsSound
  <1>6. served[q] = None
    BY <1>1, <1>5 DEF QueryIsSound, ServedOnReturn
  <1>7. ~ Known(q)
    <2>1. SUFFICES ASSUME Known(q)
                   PROVE  FALSE
      OBVIOUS
    <2>2. PICK p \in DOMAIN Names!chain : Names!chain[p] = "memory"
      BY <2>1 DEF Known
    <2>3. s.at < p \/ s.at = p
      BY <1>1, <2>1, <2>2 DEF QueryIsSound, KnownStops
    <2>4. QED
      BY <1>2, <1>3, <2>2, <2>3
  <1>8. Len(Names!chain) \in 1 .. Len(Names!chain)
    BY <1>2
  <1>9. QED
    BY <1>1, <1>2, <1>3, <1>4, <1>5, <1>6, <1>7, <1>8

LEMMA FanoutStep ==
    ASSUME DnsInv, NEW q \in Names!Query, Names!fanoutHandler(q)
    PROVE  SoundStep(q)
  <1>1. Names!Calls(q, "fanout")
    BY DEF Names!fanoutHandler
  <1>2. PICK s : s = query[q]
    OBVIOUS
  <1>3. /\ s \in States /\ s.at \in 1 .. Len(Names!chain) /\ s.name \in Names!Question /\ s.down
        /\ Names!chain[s.at] = "fanout" /\ served[q] = None /\ ~ Heard(s) /\ CacheInv /\ setup \in Setups
        /\ channel[q] \in Seq(Messages)
    BY <1>1, <1>2, CallFacts
  <1>4. ~ Known(q) /\ ~ Owed(q, s) /\ s.at = Len(Names!chain)
    BY <1>1, <1>2, NothingIsOwed
  <1>5. CASE s.servers = {}
    <2>1. Names!HandleFailed(q)
      BY <1>2, <1>5 DEF Names!fanoutHandler
    <2>2. QED
      BY <1>1, <1>2, <1>3, <1>4, <2>1, FailStep
  <1>6. CASE s.servers # {}
    <2>1. query = [k \in Names!Query |-> query[k]]
      BY DEF DnsInv, QueriesAreSound
    <2>2. PICK n : n = Len(Names!chain) + 1
      OBVIOUS
    <2>3. PICK x : x = [s EXCEPT !.at = n]
      OBVIOUS
    <2>4. /\ query' = [query EXCEPT ![q] = x] /\ asked' = [asked EXCEPT ![q] = s.servers]
          /\ UNCHANGED <<setup, ids, cache, updated, now, channel, served>>
      BY <1>2, <1>6, <2>1, <2>2, <2>3 DEF Names!fanoutHandler
    <2>5. Len(Names!chain) \in Nat /\ n \in Nat /\ ~(n <= Len(Names!chain)) /\ n > 0 /\ n <= n
      BY <1>3, <2>2, ChainLength
    <2>6. x \in States
      BY <1>3, <2>3, <2>5 DEF States
    <2>7. x.at = n /\ x.down /\ x.name = s.name /\ Flags(s, x)
      BY <1>3, <2>3, <2>5 DEF States, Flags
    <2>8. ~ Heard(x)
      BY <1>3, <2>7 DEF Heard, Flags
    <2>9. PICK v, c : v = served[q] /\ c = channel[q]
      OBVIOUS
    <2>10. ServedOnReturn(x, v) /\ GoodIsCarried(q, x, v) /\ KnownStops(q, x)
      BY <1>3, <1>4, <2>5, <2>7, <2>8, <2>9 DEF ServedOnReturn, GoodIsCarried, KnownStops
    <2>11. QueryIsSound(q, x, v, c)
      BY <1>3, <1>4, <2>2, <2>5, <2>6, <2>7, <2>8, <2>9, <2>10 DEF QueryIsSound
    <2>12. CacheInv'
      BY <1>3, <2>4, CacheStays
    <2>13. query'[q] = x /\ (IdsMove(q) => SoundStep(q))
      BY <2>4, <2>9, <2>11, <2>12, MoveStep
    <2>14. Inside(s) => Inside(x)
      <3>1. DOMAIN Names!chain = 1 .. Len(Names!chain)
        BY <1>3, ChainLength
      <3>2. \A p \in DOMAIN Names!chain : n > p
        BY <2>2, <2>5, <3>1
      <3>3. n # 0
        BY <2>5
      <3>4. QED
        BY <2>7, <3>2, <3>3 DEF Inside
    <2>15. QED
      BY <1>2, <2>4, <2>13, <2>14, IdsRest
  <1>7. QED
    BY <1>5, <1>6

\* The answer that is taken is the first success, if there is one.
LEMMA WaitResponseIsSound ==
    ASSUME DnsInv, NEW q \in Names!Query, channel[q] \in Seq(Messages)
    PROVE  IF \E i \in DOMAIN channel[q] : channel[q][i] # Names!Failed
           THEN /\ Names!waitResponse(q) \in Messages /\ Names!waitResponse(q) # Names!Failed /\ Names!waitResponse(q) # None
                /\ \E i \in DOMAIN channel[q] : Names!waitResponse(q) = channel[q][i]
           ELSE Names!waitResponse(q) = None
  <1> DEFINE S == {i \in DOMAIN channel[q] : channel[q][i] # Names!Failed}
             R == OpToRel(<, Nat)
  <1>1. Names!waitResponse(q) = IF S = {} THEN None ELSE channel[q][Names!Min(S)]
    BY DEF Names!waitResponse
  <1>2. IsWellFoundedOn(R, Nat)
    BY NatLessThanWellFounded
  <1>3. \A k, l \in Nat : k < l => <<k, l>> \in R
    BY DEF OpToRel
  <1>4. S \in SUBSET Nat
    OBVIOUS
  <1>5. CASE S # {}
    <2> HIDE DEF R, S
    <2>1. PICK z \in S : \A k \in S : <<k, z>> \notin R
      BY <1>2, <1>4, <1>5, WFMin
    <2>2. ASSUME NEW k \in S
          PROVE  z <= k
      <3>1. k \in Nat /\ z \in Nat /\ <<k, z>> \notin R
        BY <1>4, <2>1
      <3>2. ~(k < z)
        BY <1>3, <3>1
      <3>3. QED
        BY <3>1, <3>2
    <2>3. Names!Min(S) \in S
      <3>1. \E w \in S : \A k \in S : w <= k
        BY <2>2
      <3>2. QED
        BY <3>1 DEF Names!Min
    <2>4. PICK i : i = Names!Min(S)
      OBVIOUS
    <2>5. i \in DOMAIN channel[q] /\ channel[q][i] # Names!Failed
      BY <2>3, <2>4 DEF S
    <2>6. channel[q][i] \in Messages
      BY <2>5
    <2>7. Names!waitResponse(q) = channel[q][i]
      BY <1>1, <1>5, <2>4
    <2>8. QED
      BY <2>5, <2>6, <2>7, NoneIsNoMessage
  <1>6. CASE S = {}
    <2>1. ~ \E i \in DOMAIN channel[q] : channel[q][i] # Names!Failed
      BY <1>6
    <2>2. Names!waitResponse(q) = None
      BY <1>1, <1>6
    <2>3. QED
      BY <2>1, <2>2
  <1>7. QED
    BY <1>5, <1>6

\* fanout has an answer, or gives up.
LEMMA FanoutReturnsStep ==
    ASSUME DnsInv, NEW q \in Names!Query, query[q].at = Len(Names!chain) + 1, NEW m \in Messages,
           m = Names!Failed => ~ Heard(query[q]), Names!FanoutReturns(q, m)
    PROVE  SoundStep(q)
  <1>1. PICK r : r = query[q]
    OBVIOUS
  <1>2. /\ r \in States /\ r.name \in Names!Question /\ served[q] = None /\ ~ Known(q)
        /\ Names!chain[Len(Names!chain)] = "fanout" /\ setup \in Setups /\ CacheInv
        /\ Len(Names!chain) \in 1 .. Len(Names!chain) /\ Len(Names!chain) \in Nat
        /\ r.at = Len(Names!chain) + 1
    BY <1>1, FanoutFacts
  <1>3. PICK n : n = Len(Names!chain)
    OBVIOUS
  <1>4. PICK s : s = [r EXCEPT !.at = n]
    OBVIOUS
  <1>5. s \in States /\ s.at = n /\ s.name = r.name /\ Flags(r, s)
    BY <1>2, <1>3, <1>4 DEF States, Flags
  <1>6. /\ query' = [query EXCEPT ![q] = Names!Return(Names!WriteMsg(s, m))]
        /\ cache' = Names!Cached(s, m)
        /\ served' = IF Names!Captured(s.at) = "client" THEN [served EXCEPT ![q] = m] ELSE served
        /\ asked' = [asked EXCEPT ![q] = {}] /\ channel' = [channel EXCEPT ![q] = <<>>]
        /\ UNCHANGED <<setup, ids, updated, now>>
    <2>1. s = [query[q] EXCEPT !.at = Len(Names!chain)] /\ s.at = Len(Names!chain)
      BY <1>1, <1>3, <1>4, <1>5
    <2>2. QED
      BY <2>1 DEF Names!FanoutReturns
  <1>7. CacheInv'
    BY <1>2, <1>5, <1>6, CachedIsSound
  <1>8. Owed(q, s) => m # Names!Failed
    BY <1>1, <1>2, <1>5 DEF Owed, Heard, Flags
  <1>9. s.at \in 1 .. Len(Names!chain) /\ s.name \in Names!Question /\ s.at = Len(Names!chain) /\ query[q].at = s.at + 1
        /\ Names!chain[s.at] # "noloop"
    BY <1>1, <1>2, <1>3, <1>5
  <1>10. QED
    BY <1>2, <1>5, <1>6, <1>7, <1>8, <1>9, ReplyStep

LEMMA FanoutAnswersStep ==
    ASSUME DnsInv, NEW q \in Names!Query, Names!fanoutAnswers(q)
    PROVE  SoundStep(q)
  <1>1. query[q].at = Len(Names!chain) + 1 /\ Names!waitResponse(q) # None /\ Names!FanoutReturns(q, Names!waitResponse(q))
    BY DEF Names!fanoutAnswers
  <1>2. channel[q] \in Seq(Messages)
    BY <1>1, FanoutFacts
  <1>3. PICK m : m = Names!waitResponse(q)
    OBVIOUS
  <1>4. m \in Messages /\ m # Names!Failed
    BY <1>1, <1>2, <1>3, WaitResponseIsSound
  <1>5. Names!FanoutReturns(q, m)
    BY <1>1, <1>3
  <1>6. QED
    BY <1>1, <1>4, <1>5, FanoutReturnsStep

LEMMA FanoutFailsStep ==
    ASSUME DnsInv, NEW q \in Names!Query, Names!fanoutFails(q)
    PROVE  SoundStep(q)
  <1>1. /\ query[q].at = Len(Names!chain) + 1 /\ Names!FanoutReturns(q, Names!Failed)
        /\ query[q].expired \/ Names!waitResponse(q) = None
    BY DEF Names!fanoutFails
  <1>2. PICK s : s = query[q]
    OBVIOUS
  <1>3. channel[q] \in Seq(Messages) /\ (Heard(s) => \E i \in DOMAIN channel[q] : channel[q][i] # Names!Failed)
    BY <1>1, <1>2, FanoutFacts
  <1>4. ~ Heard(s)
    <2>1. CASE s.expired
      BY <2>1 DEF Heard
    <2>2. CASE Names!waitResponse(q) = None
      BY <1>3, <2>2, WaitResponseIsSound
    <2>3. QED
      BY <1>1, <1>2, <2>1, <2>2
  <1>5. QED
    BY <1>1, <1>2, <1>4, FailedIsMessage, FanoutReturnsStep

\* A query that stays in fanout while servers answer or its time is over.
LEMMA FanoutStays ==
    ASSUME DnsInv, NEW q \in Names!Query, query[q].at = Len(Names!chain) + 1,
           NEW x \in States, x.at = query[q].at, x.down = query[q].down, x.name = query[q].name,
           NEW c \in Seq(Messages), Heard(x) => \E i \in DOMAIN c : c[i] # Names!Failed,
           query' = [query EXCEPT ![q] = x],
           channel' = [channel EXCEPT ![q] = c] \/ (channel' = channel /\ c = channel[q]),
           (\E z : asked' = [asked EXCEPT ![q] = z]) \/ asked' = asked,
           UNCHANGED <<setup, ids, cache, updated, now, served>>
    PROVE  SoundStep(q)
  <1>1. PICK r : r = query[q]
    OBVIOUS
  <1>2. /\ r.name \in Names!Question /\ served[q] = None /\ ~ Known(q) /\ r.down
        /\ Names!chain[Len(Names!chain)] = "fanout" /\ setup \in Setups /\ CacheInv
        /\ Len(Names!chain) \in Nat /\ r.at = Len(Names!chain) + 1
    BY <1>1, FanoutFacts
  <1>3. x.at = Len(Names!chain) + 1 /\ x.down /\ x.name \in Names!Question
    BY <1>1, <1>2
  <1>4. x.at <= Len(Names!chain) + 1 /\ ~(x.at <= Len(Names!chain))
    BY <1>2, <1>3
  <1>5. PICK v : v = served[q]
    OBVIOUS
  <1>6. ServedOnReturn(x, v) /\ GoodIsCarried(q, x, v) /\ KnownStops(q, x)
    <2>1. ~(x.at \in DOMAIN Names!chain)
      BY <1>2, <1>3, <1>4, ChainLength
    <2>2. QED
      BY <1>2, <1>3, <1>4, <1>5, <2>1 DEF ServedOnReturn, GoodIsCarried, KnownStops
  <1>7. QueryIsSound(q, x, v, c)
    BY <1>2, <1>3, <1>4, <1>5, <1>6 DEF QueryIsSound
  <1>8. CacheInv'
    BY <1>2, CacheStays
  <1>9. query'[q] = x /\ (IdsMove(q) => SoundStep(q))
    BY <1>5, <1>7, <1>8, MoveStep
  <1>10. Inside(query[q]) => Inside(x)
    BY <1>1, <1>2, <1>3 DEF Inside
  <1>11. QED
    BY <1>9, <1>10, IdsRest

LEMMA DeadlineStep ==
    ASSUME DnsInv, NEW q \in Names!Query, Names!Deadline(q)
    PROVE  SoundStep(q)
  <1>1. query[q].at = Len(Names!chain) + 1 /\ UNCHANGED <<setup, ids, cache, updated, now, asked, channel, served>>
    BY DEF Names!Deadline
  <1>2. PICK s : s = query[q]
    OBVIOUS
  <1>3. s \in States /\ channel[q] \in Seq(Messages)
    BY <1>1, <1>2, FanoutFacts
  <1>4. PICK x : x = [s EXCEPT !.expired = TRUE]
    OBVIOUS
  <1>5. query = [k \in Names!Query |-> query[k]]
    BY DEF DnsInv, QueriesAreSound
  <1>6. query' = [query EXCEPT ![q] = x]
    BY <1>2, <1>4, <1>5 DEF Names!Deadline
  <1>7. x \in States
    BY <1>3, <1>4 DEF States
  <1>8. x.at = s.at /\ x.down = s.down /\ x.name = s.name /\ ~ Heard(x)
    BY <1>3, <1>4 DEF States, Heard
  <1>9. PICK c : c = channel[q]
    OBVIOUS
  <1>10. QED
    BY <1>1, <1>2, <1>3, <1>6, <1>7, <1>8, <1>9, FanoutStays

LEMMA ExchangeStep ==
    ASSUME DnsInv, NEW q \in Names!Query, NEW server, Names!Exchange(q, server)
    PROVE  SoundStep(q)
  <1>1. /\ query[q].at = Len(Names!chain) + 1 /\ UNCHANGED <<setup, ids, cache, updated, now, served>>
        /\ asked' = [asked EXCEPT ![q] = @ \ {server}]
    BY DEF Names!Exchange
  <1>2. PICK m \in Names!Answered(query[q].name) :
          /\ channel' = [channel EXCEPT ![q] = Append(@, m)]
          /\ query' = [query EXCEPT ![q].good = @ \/ m # Names!Failed]
    BY DEF Names!Exchange
  <1>3. PICK s : s = query[q]
    OBVIOUS
  <1>4. s \in States /\ s.name \in Names!Question /\ channel[q] \in Seq(Messages) /\ (Heard(s) => \E i \in DOMAIN channel[q] : channel[q][i] # Names!Failed)
    BY <1>1, <1>3, FanoutFacts
  <1>5. m \in Messages
    BY <1>2, <1>3, <1>4, AnsweredIsMessage
  <1>6. PICK g \in BOOLEAN : g <=> s.good \/ m # Names!Failed
    OBVIOUS
  <1>7. PICK x : x = [s EXCEPT !.good = g]
    OBVIOUS
  <1>8. query = [k \in Names!Query |-> query[k]] /\ channel = [k \in Names!Query |-> channel[k]]
    BY DEF DnsInv, QueriesAreSound
  <1>9. s.good \in BOOLEAN
    BY <1>4 DEF States
  <1>10. g = (s.good \/ m # Names!Failed)
    BY <1>6, <1>9
  <1>11. query' = [query EXCEPT ![q] = x]
    BY <1>2, <1>3, <1>7, <1>8, <1>10
  <1>12. PICK d : d = channel[q]
    OBVIOUS
  <1>13. PICK c : c = Append(d, m)
    OBVIOUS
  <1>14. channel' = [channel EXCEPT ![q] = c]
    BY <1>2, <1>8, <1>12, <1>13
  <1>15. /\ c \in Seq(Messages) /\ Len(c) = Len(d) + 1 /\ Len(d) \in Nat /\ c[Len(d) + 1] = m
         /\ \A i \in 1 .. Len(d) : c[i] = d[i]
    BY <1>4, <1>5, <1>12, <1>13, AppendProperties
  <1>16. x \in States
    BY <1>4, <1>7 DEF States
  <1>17. x.at = s.at /\ x.down = s.down /\ x.name = s.name /\ x.good = g /\ x.expired = s.expired
    BY <1>4, <1>7 DEF States
  <1>18. Heard(x) => \E i \in DOMAIN c : c[i] # Names!Failed
    <2>1. DOMAIN c = 1 .. Len(d) + 1 /\ DOMAIN d = 1 .. Len(d)
      BY <1>4, <1>12, <1>15
    <2>2. CASE m # Names!Failed
      <3>1. Len(d) + 1 \in DOMAIN c
        BY <1>15, <2>1
      <3>2. QED
        BY <1>15, <2>2, <3>1
    <2>3. CASE m = Names!Failed
      <3>1. SUFFICES ASSUME Heard(x)
                     PROVE  \E i \in DOMAIN c : c[i] # Names!Failed
        OBVIOUS
      <3>2. Heard(s)
        BY <1>6, <1>17, <2>3, <3>1 DEF Heard
      <3>3. PICK i \in DOMAIN d : d[i] # Names!Failed
        BY <1>4, <1>12, <3>2
      <3>4. i \in DOMAIN c /\ c[i] = d[i]
        BY <1>15, <2>1, <3>3
      <3>5. QED
        BY <3>3, <3>4
    <2>4. QED
      BY <2>2, <2>3
  <1>19. (\E z : asked' = [asked EXCEPT ![q] = z]) \/ asked' = asked
    BY <1>1
  <1>20. QED
    BY <1>1, <1>3, <1>11, <1>14, <1>15, <1>16, <1>17, <1>18, <1>19, FanoutStays

LEMMA ListenStep ==
    ASSUME DnsInv, NEW q \in Names!Query, Names!ListenAndServe(q)
    PROVE  SoundStep(q)
  <1>1. query[q] = Names!Idle /\ UNCHANGED <<setup, ids, cache, updated, now, asked, channel, served>>
    BY DEF Names!ListenAndServe
  <1>2. PICK v, c : v = served[q] /\ c = channel[q]
    OBVIOUS
  <1>3. QueryIsSound(q, Names!Idle, v, c) /\ setup \in Setups /\ CacheInv
    BY <1>1, <1>2, QueryFacts
  <1>4. PICK n : n = Names!Own(q)
    OBVIOUS
  <1>5. n \in Names!Question
    BY <1>4, OwnIsQuestion
  <1>6. PICK x : x = [Names!Idle EXCEPT !.at = 1, !.name = n]
    OBVIOUS
  <1>7. x = [at |-> 1, down |-> TRUE, name |-> n, servers |-> {}, todo |-> <<>>, got |-> None,
             caught |-> None, passed |-> FALSE, tcp |-> FALSE, expired |-> FALSE, loop |-> FALSE, good |-> FALSE]
    BY <1>6 DEF Names!Idle
  <1>8. x.at = 1 /\ x.down /\ x.name = n /\ ~ x.good
    BY <1>7
  <1>9. x \in States
    <2>1. <<>> \in Seq(Names!Domain) /\ {} \in SUBSET UNION {y.servers : y \in Setups}
      OBVIOUS
    <2>2. QED
      BY <1>5, <1>7, <2>1 DEF States
  <1>10. v = None
    BY <1>3 DEF QueryIsSound, ServedOnReturn, Names!Idle
  <1>11. Len(Names!chain) \in Nat /\ Len(Names!chain) > 0 /\ DOMAIN Names!chain = 1 .. Len(Names!chain)
    BY <1>3, ChainLength
  <1>12. x.at <= Len(Names!chain) + 1 /\ x.at # Len(Names!chain) + 1
    BY <1>8, <1>11
  <1>13. ~ Heard(x)
    BY <1>8 DEF Heard
  <1>14. KnownStops(q, x)
    <2>1. \A p \in DOMAIN Names!chain : x.at < p \/ x.at = p
      BY <1>8, <1>11
    <2>2. QED
      BY <1>8, <2>1 DEF KnownStops
  <1>15. ServedOnReturn(x, v) /\ GoodIsCarried(q, x, v)
    BY <1>8, <1>10, <1>13 DEF ServedOnReturn, GoodIsCarried
  <1>16. c \in Seq(Messages)
    BY <1>3 DEF QueryIsSound
  <1>17. QueryIsSound(q, x, v, c)
    BY <1>5, <1>8, <1>9, <1>10, <1>12, <1>14, <1>15, <1>16 DEF QueryIsSound
  <1>18. query' = [query EXCEPT ![q] = x]
    BY <1>4, <1>6 DEF Names!ListenAndServe
  <1>19. CacheInv'
    BY <1>1, <1>3, CacheStays
  <1>20. query'[q] = x /\ (IdsMove(q) => SoundStep(q))
    BY <1>1, <1>2, <1>17, <1>18, <1>19, MoveStep
  <1>21. ~ Inside(query[q])
    BY <1>1 DEF Inside, Names!Idle
  <1>22. QED
    BY <1>1, <1>20, <1>21, IdsRest

LEMMA HandlerStep ==
    ASSUME DnsInv, NEW q \in Names!Query, Names!Handler(q)
    PROVE  SoundStep(q)
  BY CheckMsgStep, NorecursionStep, DnsConfigsStep, DnsConfigsReturnsStep, SearchesStep, SearchesReturnsStep,
     NoloopStep, NoloopReturnsStep, CacheStep, MemoryStep, MemoryReturnsStep, FanoutStep, FanoutAnswersStep,
     FanoutFailsStep, AdaptStep, ConnectStep DEF Names!Handler

\* Nothing but time changes.
LEMMA TickStep ==
    ASSUME DnsInv, Names!Tick
    PROVE  DnsInv'
  <1>1. now' = now + 1 /\ UNCHANGED <<setup, ids, cache, updated, query, asked, channel, served>>
    BY DEF Names!Tick
  <1>2. CacheInv'
    BY <1>1, CacheStays DEF DnsInv
  <1>3. QueriesAreSound'
    BY <1>1, QueriesStaySound DEF DnsInv, QueriesAreSound
  <1>4. Names!IdsAreFreed'
    BY <1>1 DEF DnsInv, Names!IdsAreFreed, Names!InNoloop, Names!chain
  <1>5. QED
    BY <1>1, <1>2, <1>3, <1>4 DEF DnsInv

LEMMA DnsStep ==
    ASSUME DnsInv, Names!DnsNext
    PROVE  DnsInv'
  <1>1. setup.queries \subseteq Names!Query
    BY DEF DnsInv, Names!Query
  <1>2. CASE Names!Tick
    BY <1>2, TickStep
  <1>3. ASSUME NEW q \in setup.queries, Names!Deadline(q) \/ Names!Handler(q)
        PROVE  DnsInv'
    BY <1>1, <1>3, DeadlineStep, HandlerStep, SoundStepKeeps
  <1>4. ASSUME NEW q \in setup.queries, Names!ListenAndServe(q) \/ \E s \in asked[q] : Names!Exchange(q, s)
        PROVE  DnsInv'
    BY <1>1, <1>4, ListenStep, ExchangeStep, SoundStepKeeps
  <1>5. QED
    BY <1>2, <1>3, <1>4 DEF Names!DnsNext, Names!Serve

LEMMA DnsStarts ==
    ASSUME Names!DnsInit
    PROVE  DnsInv
  <1>1. setup \in Setups /\ ids = {}
    BY DEF Names!DnsInit
  <1>2. /\ cache = [k \in Names!Question |-> None] /\ updated = 0 /\ now = 0
        /\ query = [q \in Names!Query |-> Names!Idle]
        /\ asked = [q \in Names!Query |-> {}] /\ channel = [q \in Names!Query |-> <<>>]
        /\ served = [q \in Names!Query |-> None]
    BY DEF Names!DnsInit
  <1>3. CacheInv
    BY <1>2 DEF CacheInv
  <1>4. PICK x : x = Names!Idle
    OBVIOUS
  <1>5. x = [at |-> 0, down |-> TRUE, name |-> None, servers |-> {}, todo |-> <<>>, got |-> None,
             caught |-> None, passed |-> FALSE, tcp |-> FALSE, expired |-> FALSE, loop |-> FALSE, good |-> FALSE]
    BY <1>4 DEF Names!Idle
  <1>6. x \in States
    <2>1. <<>> \in Seq(Names!Domain) /\ {} \in SUBSET UNION {y.servers : y \in Setups}
      OBVIOUS
    <2>2. QED
      BY <1>5, <2>1 DEF States
  <1>7. x.at = 0 /\ x.down /\ ~ x.good
    BY <1>5
  <1>8. Len(Names!chain) \in Nat /\ Len(Names!chain) > 0 /\ DOMAIN Names!chain = 1 .. Len(Names!chain)
    BY <1>1, ChainLength
  <1>9. \A q \in Names!Query : QueryIsSound(q, x, None, <<>>)
    <2>1. SUFFICES ASSUME NEW q \in Names!Query
                   PROVE  QueryIsSound(q, x, None, <<>>)
      OBVIOUS
    <2>2. ServedOnReturn(x, None) /\ GoodIsCarried(q, x, None)
      BY <1>7 DEF ServedOnReturn, GoodIsCarried, Heard
    <2>3. KnownStops(q, x)
      <3>1. \A p \in DOMAIN Names!chain : x.at < p
        BY <1>7, <1>8
      <3>2. QED
        BY <3>1 DEF KnownStops
    <2>4. x.at <= Len(Names!chain) + 1 /\ x.at # Len(Names!chain) + 1
      BY <1>7, <1>8
    <2>5. <<>> \in Seq(Messages)
      OBVIOUS
    <2>6. QED
      BY <1>6, <1>7, <2>2, <2>3, <2>4, <2>5 DEF QueryIsSound
  <1>10. QueriesAreSound
    BY <1>2, <1>4, <1>9 DEF QueriesAreSound
  <1>11. QED
    BY <1>1, <1>3, <1>10 DEF DnsInv, Names!IdsAreFreed

-----------------------------------------------------------------------------
(* Whose answers they are.                                                 *)

\* An answer that is no failure is to a question with the name and the type of q.
Mine(q, m) == m # None /\ m.code # "fail" => m.of[1] = q.name /\ m.of[3] = q.qtype

Named(q, n) == n[1] = q.name /\ n[3] = q.qtype

\* What q asks for and has got is its own.
OwnState(q, x) == (x.at # 0 => Named(q, x.name)) /\ Mine(q, x.got) /\ Mine(q, x.caught)

OwnCache(c) == \A k \in Names!Question : c[k] # None => c[k].of[1] = k[1] /\ c[k].of[3] = k[3]

\* Queries and the cache know whose answers they have.
OwnInv ==
    /\ \A q \in Names!Query :
          /\ OwnState(q, query[q]) /\ Mine(q, served[q])
          /\ \A i \in DOMAIN channel[q] : Mine(q, channel[q][i])
    /\ OwnCache(cache)

LEMMA FailedIsMine ==
    ASSUME NEW q
    PROVE  Mine(q, Names!Failed)
  BY DEF Mine, Names!Failed

\* On the way back a query has what it had.
LEMMA ReturnIsOwn ==
    ASSUME setup \in Setups, NEW q \in Names!Query, NEW s \in States, s.at # 0, OwnState(q, s),
           NEW x, x = Names!Return(s)
    PROVE  OwnState(q, x)
  <1>1. Named(q, s.name) /\ Mine(q, s.got) /\ Mine(q, s.caught)
    BY DEF OwnState
  <1>2. PICK y : y = [Names!Idle EXCEPT !.down = FALSE, !.expired = s.expired, !.loop = s.loop, !.good = s.good]
    OBVIOUS
  <1>3. y.at = 0 /\ y.got = None /\ y.caught = None
    BY <1>2 DEF Names!Idle
  <1>4. CASE x = y
    BY <1>3, <1>4 DEF OwnState, Mine
  <1>5. CASE x # y
    <2>1. PICK n : x = [s EXCEPT !.at = n, !.down = FALSE]
      BY <1>2, <1>5 DEF Names!Return
    <2>2. x.name = s.name /\ x.got = s.got /\ x.caught = s.caught
      BY <2>1 DEF States
    <2>3. QED
      BY <1>1, <2>2 DEF OwnState
  <1>6. QED
    BY <1>4, <1>5

LEMMA NextIsOwn ==
    ASSUME setup \in Setups, NEW q \in Names!Query, NEW s \in States, s.at \in 1 .. Len(Names!chain), OwnState(q, s),
           NEW x, x = Names!NextHandler(s)
    PROVE  OwnState(q, x)
  <1>1. PICK y : y = [s EXCEPT !.at = @ + 1]
    OBVIOUS
  <1>2. Len(Names!chain) \in Nat
    BY ChainLength
  <1>3. y \in States /\ y.at = s.at + 1 /\ y.name = s.name /\ y.got = s.got /\ y.caught = s.caught
    BY <1>1 DEF States
  <1>4. s.at # 0 /\ y.at # 0
    BY <1>2, <1>3
  <1>5. OwnState(q, y)
    BY <1>3, <1>4 DEF OwnState
  <1>6. x = y \/ x = Names!Return(y)
    BY <1>1 DEF Names!NextHandler
  <1>7. CASE x = y
    BY <1>5, <1>7
  <1>8. CASE x = Names!Return(y)
    BY <1>3, <1>4, <1>5, <1>8, ReturnIsOwn
  <1>9. QED
    BY <1>6, <1>7, <1>8

\* A query that writes m and returns.
LEMMA WriteIsOwn ==
    ASSUME setup \in Setups, NEW q \in Names!Query, NEW s \in States, s.at # 0, OwnState(q, s),
           NEW m \in Messages, Mine(q, m), NEW x, x = Names!Return(Names!WriteMsg(s, m))
    PROVE  OwnState(q, x)
  <1>1. PICK y : y = Names!WriteMsg(s, m)
    OBVIOUS
  <1>2. y \in States /\ y.at = s.at
    BY <1>1, WriteIsKept
  <1>3. y.name = s.name /\ (y.got = s.got \/ y.got = m) /\ (y.caught = s.caught \/ y.caught = m)
    <2>1. PICK t : t = IF Names!Between("memory", s.at) THEN [s EXCEPT !.passed = TRUE] ELSE s
      OBVIOUS
    <2>2. t \in States /\ t.at = s.at /\ t.name = s.name /\ t.got = s.got /\ t.caught = s.caught
      BY <2>1 DEF States
    <2>3. y = [t EXCEPT !.got = m] \/ y = [t EXCEPT !.caught = m] \/ y = t
      BY <1>1, <2>1 DEF Names!WriteMsg
    <2>4. QED
      BY <2>2, <2>3 DEF States
  <1>4. OwnState(q, y)
    BY <1>2, <1>3 DEF OwnState
  <1>5. QED
    BY <1>1, <1>2, <1>4, ReturnIsOwn

LEMMA CachedIsOwn ==
    ASSUME CacheInv, OwnCache(cache), NEW q \in Names!Query, NEW s \in States, s.name \in Names!Question, Named(q, s.name),
           NEW m \in Messages, Mine(q, m), NEW c, c = Names!Cached(s, m)
    PROVE  OwnCache(c)
  <1>1. CASE c = cache
    BY <1>1
  <1>2. CASE c # cache
    <2>1. PICK e : e = [left |-> IF m.code = "ok" THEN m.ttl ELSE 0, ttl |-> m.ttl, at |-> now, of |-> m.of]
      OBVIOUS
    <2>2. c = [cache EXCEPT ![s.name] = e] /\ m.code # "fail"
      BY <1>2, <2>1 DEF Names!Cached
    <2>3. \A k \in Names!Question : c[k] = IF k = s.name THEN e ELSE cache[k]
      BY <2>2 DEF CacheInv
    <2>4. e.of[1] = s.name[1] /\ e.of[3] = s.name[3]
      BY <2>1, <2>2, NoneIsNoMessage DEF Mine, Named
    <2>5. QED
      BY <2>3, <2>4 DEF OwnCache
  <1>3. QED
    BY <1>1, <1>2

\* Query q moves to x, its client has w, and its servers have answered c.
LEMMA OwnMoves ==
    ASSUME DnsInv, OwnInv, NEW q \in Names!Query, NEW x, NEW w, NEW c,
           query' = [query EXCEPT ![q] = x],
           served' = [served EXCEPT ![q] = w] \/ (served' = served /\ w = served[q]),
           channel' = [channel EXCEPT ![q] = c] \/ (channel' = channel /\ c = channel[q]),
           UNCHANGED setup,
           OwnState(q, x), Mine(q, w), \A i \in DOMAIN c : Mine(q, c[i]), OwnCache(cache')
    PROVE  OwnInv'
  <1>1. /\ query = [k \in Names!Query |-> query[k]] /\ served = [k \in Names!Query |-> served[k]]
        /\ channel = [k \in Names!Query |-> channel[k]]
    BY DEF DnsInv, QueriesAreSound
  <1>2. \A k \in Names!Query : /\ query'[k] = IF k = q THEN x ELSE query[k]
                               /\ served'[k] = IF k = q THEN w ELSE served[k]
                               /\ channel'[k] = IF k = q THEN c ELSE channel[k]
    BY <1>1
  <1>3. SUFFICES ASSUME NEW k \in Names!Query
                 PROVE  /\ OwnState(k, query'[k]) /\ Mine(k, served'[k])
                        /\ \A i \in DOMAIN channel'[k] : Mine(k, channel'[k][i])
    BY DEF OwnInv, OwnCache
  <1>4. CASE k = q
    <2>1. query'[k] = x /\ served'[k] = w /\ channel'[k] = c
      BY <1>2, <1>4
    <2>2. QED
      BY <1>4, <2>1
  <1>5. CASE k # q
    <2>1. query'[k] = query[k] /\ served'[k] = served[k] /\ channel'[k] = channel[k]
      BY <1>2, <1>5
    <2>2. QED
      BY <2>1 DEF OwnInv
  <1>6. QED
    BY <1>4, <1>5

LEMMA OwnFacts ==
    ASSUME DnsInv, OwnInv, NEW q \in Names!Query
    PROVE  /\ OwnState(q, query[q]) /\ Mine(q, served[q]) /\ OwnCache(cache)
           /\ \A i \in DOMAIN channel[q] : Mine(q, channel[q][i])
  BY DEF OwnInv

\* A handler that writes and returns.
LEMMA OwnReply ==
    ASSUME DnsInv, OwnInv, NEW q \in Names!Query, NEW s \in States, s.at \in 1 .. Len(Names!chain),
           s.name \in Names!Question, OwnState(q, s), NEW m \in Messages, Mine(q, m),
           query' = [query EXCEPT ![q] = Names!Return(Names!WriteMsg(s, m))],
           OwnCache(cache'),
           served' = [served EXCEPT ![q] = m] \/ served' = served,
           (UNCHANGED channel) \/ channel' = [channel EXCEPT ![q] = <<>>], UNCHANGED setup
    PROVE  OwnInv'
  <1>1. setup \in Setups
    BY QueryFacts
  <1>2. PICK x : x = Names!Return(Names!WriteMsg(s, m))
    OBVIOUS
  <1>3. s.at # 0
    BY <1>1, ChainLength
  <1>4. OwnState(q, x)
    BY <1>1, <1>2, <1>3, WriteIsOwn
  <1>5. query' = [query EXCEPT ![q] = x]
    BY <1>2
  <1>6. PICK w : w = IF served' = served THEN served[q] ELSE m
    OBVIOUS
  <1>7. Mine(q, w) /\ (served' = [served EXCEPT ![q] = w] \/ (served' = served /\ w = served[q]))
    BY <1>6, OwnFacts
  <1>8. PICK c : c = IF channel' = channel THEN channel[q] ELSE <<>>
    OBVIOUS
  <1>9. \A i \in DOMAIN c : Mine(q, c[i])
    BY <1>8, OwnFacts
  <1>10. channel' = [channel EXCEPT ![q] = c] \/ (channel' = channel /\ c = channel[q])
    BY <1>8
  <1>11. QED
    BY <1>4, <1>5, <1>7, <1>9, <1>10, OwnMoves

\* A handler that is called or returned to: what is known of its query.
LEMMA HandlerFacts ==
    ASSUME DnsInv, OwnInv, NEW q \in Names!Query, NEW h, Names!Calls(q, h) \/ Names!Returns(q, h), NEW s, s = query[q]
    PROVE  /\ s \in States /\ s.at \in 1 .. Len(Names!chain) /\ s.at # 0 /\ s.name \in Names!Question
           /\ OwnState(q, s) /\ Named(q, s.name) /\ CacheInv /\ setup \in Setups
           /\ query = [k \in Names!Query |-> query[k]]
  <1>1. /\ s \in States /\ s.at \in 1 .. Len(Names!chain) /\ s.name \in Names!Question /\ CacheInv /\ setup \in Setups
    <2>1. CASE Names!Calls(q, h)
      BY <2>1, CallFacts
    <2>2. CASE Names!Returns(q, h)
      BY <2>2, ReturnFacts
    <2>3. QED
      BY <2>1, <2>2
  <1>2. s.at # 0
    BY <1>1, ChainLength
  <1>3. OwnState(q, s)
    BY OwnFacts
  <1>4. QED
    BY <1>1, <1>2, <1>3 DEF OwnState, DnsInv, QueriesAreSound

\* The same for a handler in the middle of the chain.
LEMMA OwnWrites ==
    ASSUME DnsInv, OwnInv, NEW q \in Names!Query, NEW h, Names!Calls(q, h) \/ Names!Returns(q, h),
           NEW s \in States, s.at = query[q].at, s.name \in Names!Question, OwnState(q, s),
           NEW m \in Messages, Mine(q, m), Names!Reply(q, s, m), UNCHANGED <<setup, channel>>
    PROVE  OwnInv'
  <1>1. s.at \in 1 .. Len(Names!chain) /\ s.at # 0 /\ CacheInv
    BY HandlerFacts
  <1>2. /\ query' = [query EXCEPT ![q] = Names!Return(Names!WriteMsg(s, m))] /\ cache' = Names!Cached(s, m)
        /\ served' = [served EXCEPT ![q] = m] \/ served' = served
    BY DEF Names!Reply, Names!Answer
  <1>3. OwnCache(cache')
    <2>1. Named(q, s.name)
      BY <1>1 DEF OwnState
    <2>2. QED
      BY <1>1, <1>2, <2>1, CachedIsOwn, OwnFacts
  <1>4. QED
    BY <1>1, <1>2, <1>3, OwnReply

\* A handler that passes the query on, as in s.
LEMMA OwnPasses ==
    ASSUME DnsInv, OwnInv, NEW q \in Names!Query, NEW h, Names!Calls(q, h) \/ Names!Returns(q, h),
           NEW s \in States, s.at = query[q].at, OwnState(q, s),
           query' = [query EXCEPT ![q] = Names!NextHandler(s)] \/ query' = [query EXCEPT ![q] = Names!Return(s)],
           OwnCache(cache'), UNCHANGED <<setup, served, channel>>
    PROVE  OwnInv'
  <1>1. s.at \in 1 .. Len(Names!chain) /\ s.at # 0 /\ setup \in Setups
    BY HandlerFacts
  <1>2. PICK x : query' = [query EXCEPT ![q] = x] /\ (x = Names!NextHandler(s) \/ x = Names!Return(s))
    OBVIOUS
  <1>3. OwnState(q, x)
    BY <1>1, <1>2, NextIsOwn, ReturnIsOwn
  <1>4. PICK w, c : w = served[q] /\ c = channel[q]
    OBVIOUS
  <1>5. Mine(q, w) /\ \A i \in DOMAIN c : Mine(q, c[i])
    BY <1>4, OwnFacts
  <1>6. QED
    BY <1>2, <1>3, <1>4, <1>5, OwnMoves

\* What the cache does not write keeps its owner.
LEMMA UpdateIsOwn ==
    ASSUME CacheInv, OwnCache(cache), NEW c, NEW n \in Names!Question, c = Names!updateTTL \/ c = [Names!updateTTL EXCEPT ![n] = None]
    PROVE  OwnCache(c)
  <1>1. PICK u : u = Names!updateTTL
    OBVIOUS
  <1>2. PICK d : d = (now - updated) \div Ticks
    OBVIOUS
  <1>3. u = [k \in Names!Question |-> IF cache[k] = None THEN None
                                      ELSE [cache[k] EXCEPT !.left = IF @ < d THEN 0 ELSE @ - d]]
    BY <1>1, <1>2 DEF Names!updateTTL
  <1>4. \A k \in Names!Question : c[k] # None => c[k] = u[k]
    BY <1>1, <1>3
  <1>5. ASSUME NEW k \in Names!Question, c[k] # None
        PROVE  c[k].of[1] = k[1] /\ c[k].of[3] = k[3]
    <2>1. c[k] = u[k] /\ cache[k] # None
      BY <1>3, <1>4, <1>5
    <2>2. PICK e, l : e = cache[k] /\ u[k] = [e EXCEPT !.left = l]
      BY <1>3, <2>1
    <2>3. e \in Entries
      BY <2>1, <2>2 DEF CacheInv
    <2>4. u[k].of = e.of
      BY <2>2, <2>3 DEF Entries
    <2>5. e.of[1] = k[1] /\ e.of[3] = k[3]
      BY <2>1, <2>2 DEF OwnCache
    <2>6. QED
      BY <2>1, <2>4, <2>5
  <1>6. QED
    BY <1>5 DEF OwnCache

\* Answers to a query with the name that it asks for are its own.
LEMMA SuccessIsMine ==
    ASSUME NEW q, NEW n, Named(q, n), NEW m,
           m \in Names!Answered(n) \/ \E code, t : m = Names!Success(code, t, n)
    PROVE  Mine(q, m)
  BY DEF Names!Answered, Names!Success, Names!Failed, Mine, Named

LEMMA OwnFails ==
    ASSUME DnsInv, OwnInv, NEW q \in Names!Query, NEW h, Names!Calls(q, h) \/ Names!Returns(q, h), Names!HandleFailed(q)
    PROVE  OwnInv'
  <1>1. PICK s, m : s = query[q] /\ m = Names!Failed
    OBVIOUS
  <1>2. m \in Messages /\ Mine(q, m)
    BY <1>1, FailedIsMessage, FailedIsMine
  <1>3. Names!Reply(q, s, m) /\ UNCHANGED <<setup, channel>>
    BY <1>1 DEF Names!HandleFailed
  <1>4. s \in States /\ s.name \in Names!Question /\ OwnState(q, s)
    BY <1>1, HandlerFacts
  <1>5. QED
    BY <1>1, <1>2, <1>3, <1>4, OwnWrites

LEMMA OwnPlain ==
    ASSUME DnsInv, OwnInv, NEW q \in Names!Query, NEW h, Names!Calls(q, h) \/ Names!Returns(q, h), Names!Pass(q) \/ Names!Unwind(q)
    PROVE  OwnInv'
  <1>1. PICK s : s = query[q]
    OBVIOUS
  <1>2. s \in States /\ OwnState(q, s) /\ query = [k \in Names!Query |-> query[k]]
    BY <1>1, HandlerFacts
  <1>3. query' = [query EXCEPT ![q] = Names!NextHandler(s)] \/ query' = [query EXCEPT ![q] = Names!Return(s)]
    BY <1>1, <1>2 DEF Names!Pass, Names!Unwind
  <1>4. UNCHANGED <<setup, cache, served, channel>>
    BY DEF Names!Pass, Names!Unwind
  <1>5. OwnCache(cache')
    BY <1>4, OwnFacts
  <1>6. QED
    BY <1>1, <1>2, <1>3, <1>4, <1>5, OwnPasses

LEMMA OwnDnsConfigs ==
    ASSUME DnsInv, OwnInv, NEW q \in Names!Query, Names!dnsConfigsHandler(q) \/ Names!dnsConfigsReturns(q)
    PROVE  OwnInv'
  <1>1. PICK s : s = query[q]
    OBVIOUS
  <1>2. PICK h : h = "dnsconfigs" /\ (Names!Calls(q, h) \/ Names!Returns(q, h))
    BY DEF Names!dnsConfigsHandler, Names!dnsConfigsReturns
  <1>3. /\ s \in States /\ s.name \in Names!Question /\ OwnState(q, s) /\ setup \in Setups
        /\ query = [k \in Names!Query |-> query[k]]
    BY <1>1, <1>2, HandlerFacts
  <1>4. UNCHANGED <<setup, channel>> /\ OwnCache(cache)
    BY OwnFacts DEF Names!dnsConfigsHandler, Names!dnsConfigsReturns
  <1>5. CASE Names!dnsConfigsHandler(q)
    <2>1. PICK sv, td : sv = setup.servers /\ td = setup.domains
      OBVIOUS
    <2>2. PICK y : y = [s EXCEPT !.servers = sv, !.todo = td, !.caught = None]
      OBVIOUS
    <2>3. query' = [query EXCEPT ![q] = Names!NextHandler(y)] /\ UNCHANGED <<cache, served>>
      BY <1>1, <1>3, <1>5, <2>1, <2>2 DEF Names!dnsConfigsHandler
    <2>4. y \in States
      <3>1. sv \in SUBSET UNION {k.servers : k \in Setups} /\ td \in Seq(Names!Domain)
        BY <1>3, <2>1, DnsAssumption
      <3>2. QED
        BY <1>3, <2>2, <3>1 DEF States
    <2>5. y.at = s.at /\ y.name = s.name /\ y.got = s.got /\ y.caught = None
      BY <1>3, <2>2 DEF States
    <2>6. OwnState(q, y)
      BY <1>3, <2>5 DEF OwnState, Mine
    <2>7. QED
      BY <1>1, <1>2, <1>4, <2>3, <2>4, <2>5, <2>6, OwnPasses
  <1>6. CASE Names!dnsConfigsReturns(q)
    <2>1. CASE s.caught # None
      <3>1. PICK m \in Messages : m = s.caught
        BY <1>3, <2>1 DEF States
      <3>2. Names!Reply(q, s, m) /\ Mine(q, m)
        BY <1>1, <1>3, <1>6, <2>1, <3>1 DEF Names!dnsConfigsReturns, OwnState
      <3>3. QED
        BY <1>1, <1>2, <1>3, <1>4, <3>1, <3>2, OwnWrites
    <2>2. CASE s.caught = None /\ s.tcp
      <3>1. PICK m \in Messages : m = Names!Failed
        BY FailedIsMessage
      <3>2. Names!Reply(q, s, m) /\ Mine(q, m)
        BY <1>1, <1>6, <2>2, <3>1, FailedIsMine DEF Names!dnsConfigsReturns
      <3>3. QED
        BY <1>1, <1>2, <1>3, <1>4, <3>1, <3>2, OwnWrites
    <2>3. CASE s.caught = None /\ ~ s.tcp
      <3>1. PICK y : y = [s EXCEPT !.tcp = TRUE, !.down = TRUE]
        OBVIOUS
      <3>2. query' = [query EXCEPT ![q] = Names!NextHandler(y)] /\ UNCHANGED <<cache, served>>
        BY <1>1, <1>3, <1>6, <2>3, <3>1 DEF Names!dnsConfigsReturns
      <3>3. y \in States /\ y.at = s.at /\ y.name = s.name /\ y.got = s.got /\ y.caught = s.caught
        BY <1>3, <3>1 DEF States
      <3>4. OwnState(q, y)
        BY <1>3, <3>3 DEF OwnState
      <3>5. QED
        BY <1>1, <1>2, <1>4, <3>2, <3>3, <3>4, OwnPasses
    <2>4. QED
      BY <2>1, <2>2, <2>3
  <1>7. QED
    BY <1>5, <1>6

LEMMA OwnSearches ==
    ASSUME DnsInv, OwnInv, NEW q \in Names!Query, Names!searchDomainsHandler(q) \/ Names!searchDomainsReturns(q)
    PROVE  OwnInv'
  <1>1. PICK s : s = query[q]
    OBVIOUS
  <1>2. PICK h : h = "searches" /\ (Names!Calls(q, h) \/ Names!Returns(q, h))
    BY DEF Names!searchDomainsHandler, Names!searchDomainsReturns
  <1>3. /\ s \in States /\ OwnState(q, s) /\ query = [k \in Names!Query |-> query[k]]
    BY <1>1, <1>2, HandlerFacts
  <1>4. UNCHANGED <<setup, channel>> /\ OwnCache(cache)
    BY OwnFacts DEF Names!searchDomainsHandler, Names!searchDomainsReturns
  <1>5. PICK o : o = Names!Own(q)
    OBVIOUS
  <1>6. o \in Names!Question /\ Named(q, o)
    BY <1>5, OwnIsQuestion DEF Named
  <1>7. CASE Names!searchDomainsHandler(q)
    <2>1. PICK y : y = [s EXCEPT !.name = o, !.got = None]
      OBVIOUS
    <2>2. query' = [query EXCEPT ![q] = Names!NextHandler(y)] /\ UNCHANGED <<cache, served>>
      BY <1>1, <1>3, <1>5, <1>7, <2>1 DEF Names!searchDomainsHandler
    <2>3. y \in States /\ y.at = s.at /\ y.name = o /\ y.got = None /\ y.caught = s.caught
      BY <1>3, <1>6, <2>1 DEF States
    <2>4. OwnState(q, y)
      BY <1>3, <1>6, <2>3 DEF OwnState, Mine
    <2>5. QED
      BY <1>1, <1>2, <1>4, <2>2, <2>3, <2>4, OwnPasses
  <1>8. CASE Names!searchDomainsReturns(q)
    <2>1. PICK y : y = [s EXCEPT !.name = o]
      OBVIOUS
    <2>2. /\ y \in States /\ y.at = s.at /\ y.name = o /\ y.got = s.got /\ y.caught = s.caught /\ y.todo = s.todo
      BY <1>3, <1>6, <2>1 DEF States
    <2>3. OwnState(q, y) /\ y.name \in Names!Question
      BY <1>3, <1>6, <2>2 DEF OwnState
    <2>4. CASE y.got # None /\ y.got.code # "fail"
      <3>1. PICK m \in Messages : m = y.got
        BY <2>2, <2>4 DEF States
      <3>2. Names!Reply(q, y, m) /\ Mine(q, m)
        BY <1>1, <1>5, <1>8, <2>1, <2>3, <2>4, <3>1 DEF Names!searchDomainsReturns, OwnState
      <3>3. QED
        BY <1>1, <1>2, <1>4, <2>2, <2>3, <3>1, <3>2, OwnWrites
    <2>5. CASE ~(y.got # None /\ y.got.code # "fail") /\ y.todo = <<>>
      <3>1. PICK m \in Messages : m = Names!Failed
        BY FailedIsMessage
      <3>2. Names!Reply(q, y, m) /\ Mine(q, m)
        BY <1>1, <1>5, <1>8, <2>1, <2>5, <3>1, FailedIsMine DEF Names!searchDomainsReturns
      <3>3. QED
        BY <1>1, <1>2, <1>4, <2>2, <2>3, <3>1, <3>2, OwnWrites
    <2>6. CASE ~(y.got # None /\ y.got.code # "fail") /\ y.todo # <<>>
      <3>1. PICK n, td : n = <<q.name, Head(s.todo), q.qtype>> /\ td = Tail(s.todo)
        OBVIOUS
      <3>2. PICK z : z = [y EXCEPT !.name = n, !.todo = td, !.got = None, !.down = TRUE]
        OBVIOUS
      <3>3. query' = [query EXCEPT ![q] = Names!NextHandler(z)] /\ UNCHANGED <<cache, served>>
        BY <1>1, <1>3, <1>5, <1>8, <2>1, <2>2, <2>6, <3>1, <3>2 DEF Names!searchDomainsReturns
      <3>4. n \in Names!Question /\ td \in Seq(Names!Domain) /\ Named(q, n)
        <4>1. s.todo \in Seq(Names!Domain) /\ s.todo # <<>>
          BY <1>3, <2>2, <2>6 DEF States
        <4>2. Head(s.todo) \in Names!Domain /\ Tail(s.todo) \in Seq(Names!Domain)
          BY <4>1
        <4>3. q.name \in Names!Name /\ q.qtype \in {k.qtype : k \in Names!Query}
          BY DEF Names!Name
        <4>4. QED
          BY <3>1, <4>2, <4>3 DEF Names!Question, Named
      <3>5. z \in States /\ z.at = s.at /\ z.name = n /\ z.got = None /\ z.caught = s.caught
        BY <2>2, <3>2, <3>4 DEF States
      <3>6. OwnState(q, z)
        BY <1>3, <3>4, <3>5 DEF OwnState, Mine
      <3>7. QED
        BY <1>1, <1>2, <1>4, <3>3, <3>5, <3>6, OwnPasses
    <2>7. QED
      BY <2>4, <2>5, <2>6
  <1>9. QED
    BY <1>7, <1>8

LEMMA OwnNoloop ==
    ASSUME DnsInv, OwnInv, NEW q \in Names!Query, Names!noloopDNSHandler(q) \/ Names!noloopReturns(q)
    PROVE  OwnInv'
  <1>1. PICK s : s = query[q]
    OBVIOUS
  <1>2. PICK h : h = "noloop" /\ (Names!Calls(q, h) \/ Names!Returns(q, h))
    BY DEF Names!noloopDNSHandler, Names!noloopReturns
  <1>3. s \in States /\ s.name \in Names!Question /\ OwnState(q, s) /\ query = [k \in Names!Query |-> query[k]]
    BY <1>1, <1>2, HandlerFacts
  <1>4. UNCHANGED <<setup, channel>> /\ OwnCache(cache)
    BY OwnFacts DEF Names!noloopDNSHandler, Names!noloopReturns
  <1>5. CASE Names!noloopDNSHandler(q) /\ q.id \in ids
    <2>1. PICK y : y = [s EXCEPT !.loop = TRUE]
      OBVIOUS
    <2>2. y \in States /\ y.at = s.at /\ y.name = s.name /\ y.got = s.got /\ y.caught = s.caught
      BY <1>3, <2>1 DEF States
    <2>3. OwnState(q, y)
      BY <1>3, <2>2 DEF OwnState
    <2>4. PICK m \in Messages : m = Names!Failed
      BY FailedIsMessage
    <2>5. Names!Reply(q, y, m) /\ Mine(q, m)
      BY <1>1, <1>5, <2>1, <2>4, FailedIsMine DEF Names!noloopDNSHandler
    <2>6. QED
      BY <1>1, <1>2, <1>3, <1>4, <2>2, <2>3, <2>4, <2>5, OwnWrites
  <1>6. CASE ~(Names!noloopDNSHandler(q) /\ q.id \in ids)
    <2>1. query' = [query EXCEPT ![q] = Names!NextHandler(s)] \/ query' = [query EXCEPT ![q] = Names!Return(s)]
      BY <1>1, <1>3, <1>6 DEF Names!noloopDNSHandler, Names!noloopReturns
    <2>2. UNCHANGED <<cache, served>>
      BY <1>6 DEF Names!noloopDNSHandler, Names!noloopReturns
    <2>3. QED
      BY <1>1, <1>2, <1>3, <1>4, <2>1, <2>2, OwnPasses
  <1>7. QED
    BY <1>5, <1>6

LEMMA OwnMemory ==
    ASSUME DnsInv, OwnInv, NEW q \in Names!Query, Names!memoryHandler(q) \/ Names!memoryReturns(q)
    PROVE  OwnInv'
  <1>1. PICK s : s = query[q]
    OBVIOUS
  <1>2. PICK h : h = "memory" /\ (Names!Calls(q, h) \/ Names!Returns(q, h))
    BY DEF Names!memoryHandler, Names!memoryReturns
  <1>3. /\ s \in States /\ s.name \in Names!Question /\ OwnState(q, s) /\ Named(q, s.name)
        /\ query = [k \in Names!Query |-> query[k]]
    BY <1>1, <1>2, HandlerFacts
  <1>4. CASE Names!memoryReturns(q)
    BY <1>2, <1>4, OwnFails, OwnPlain DEF Names!memoryReturns
  <1>5. CASE Names!memoryHandler(q)
    <2>1. UNCHANGED <<setup, channel>> /\ OwnCache(cache)
      BY <1>5, OwnFacts DEF Names!memoryHandler
    <2>2. \/ \E code \in {"ok", "empty"}, t \in Nat : Names!Reply(q, s, Names!Success(code, t, s.name))
          \/ query' = [query EXCEPT ![q] = Names!NextHandler([@ EXCEPT !.passed = FALSE])] /\ UNCHANGED <<cache, served>>
      BY <1>1, <1>5 DEF Names!memoryHandler
    <2>3. ASSUME NEW code \in {"ok", "empty"}, NEW t \in Nat, Names!Reply(q, s, Names!Success(code, t, s.name))
          PROVE  OwnInv'
      <3>1. PICK m : m = Names!Success(code, t, s.name)
        OBVIOUS
      <3>2. m \in Messages /\ Mine(q, m)
        BY <1>3, <3>1, SuccessIsMessage, SuccessIsMine
      <3>3. Names!Reply(q, s, m)
        BY <2>3, <3>1
      <3>4. QED
        BY <1>1, <1>2, <1>3, <2>1, <3>2, <3>3, OwnWrites
    <2>4. ASSUME query' = [query EXCEPT ![q] = Names!NextHandler([@ EXCEPT !.passed = FALSE])], UNCHANGED <<cache, served>>
          PROVE  OwnInv'
      <3>1. PICK y : y = [s EXCEPT !.passed = FALSE]
        OBVIOUS
      <3>2. query' = [query EXCEPT ![q] = Names!NextHandler(y)]
        BY <1>1, <1>3, <2>4, <3>1
      <3>3. y \in States /\ y.at = s.at /\ y.name = s.name /\ y.got = s.got /\ y.caught = s.caught
        BY <1>3, <3>1 DEF States
      <3>4. OwnState(q, y)
        BY <1>3, <3>3 DEF OwnState
      <3>5. QED
        BY <1>1, <1>2, <2>1, <2>4, <3>2, <3>3, <3>4, OwnPasses
    <2>5. QED
      BY <2>2, <2>3, <2>4
  <1>6. QED
    BY <1>4, <1>5

LEMMA OwnFromCache ==
    ASSUME DnsInv, OwnInv, NEW q \in Names!Query, Names!dnsCacheHandler(q)
    PROVE  OwnInv'
  <1>1. PICK s : s = query[q]
    OBVIOUS
  <1>2. PICK h : h = "cache" /\ Names!Calls(q, h)
    BY DEF Names!dnsCacheHandler
  <1>3. /\ s \in States /\ s.name \in Names!Question /\ OwnState(q, s) /\ Named(q, s.name) /\ CacheInv
        /\ s.at \in 1 .. Len(Names!chain) /\ query = [k \in Names!Query |-> query[k]]
    BY <1>1, <1>2, HandlerFacts
  <1>4. UNCHANGED <<setup, channel>> /\ OwnCache(cache)
    BY OwnFacts DEF Names!dnsCacheHandler
  <1>5. PICK u : u = Names!updateTTL
    OBVIOUS
  <1>6. OwnCache(u)
    BY <1>3, <1>4, <1>5, UpdateIsOwn
  <1>7. PICK e : e = u[s.name]
    OBVIOUS
  <1>8. CASE e # None /\ Names!validateMsg(e)
    <2>1. PICK m : m = [code |-> "ok", ttl |-> e.ttl, age |-> now - e.at, of |-> e.of]
      OBVIOUS
    <2>2. /\ query' = [query EXCEPT ![q] = Names!Return(Names!WriteMsg(s, m))]
          /\ cache' = u /\ Names!Answer(q, m)
      BY <1>1, <1>3, <1>5, <1>7, <1>8, <2>1 DEF Names!dnsCacheHandler
    <2>3. served' = [served EXCEPT ![q] = m] \/ served' = served
      BY <2>2 DEF Names!Answer
    <2>4. Mine(q, m)
      <3>1. m.of = e.of
        BY <2>1
      <3>2. e.of[1] = s.name[1] /\ e.of[3] = s.name[3]
        BY <1>3, <1>6, <1>7, <1>8 DEF OwnCache
      <3>3. QED
        BY <1>3, <3>1, <3>2 DEF Mine, Named
    <2>5. m \in Messages
      <3>1. /\ u[s.name] \in Entries \cup {None}
            /\ e.at <= now /\ (e.left > 0 => now - e.at < (2 * e.ttl - 1) * Ticks)
        BY <1>3, <1>5, <1>7, <1>8, UpdateIsSound
      <3>2. e \in Entries /\ e.left > 0
        BY <1>7, <1>8, <3>1 DEF Names!validateMsg
      <3>3. PICK g \in Nat : g = now - e.at
        BY <1>3, <3>1, <3>2 DEF Entries, CacheInv
      <3>4. m = [code |-> "ok", ttl |-> e.ttl, age |-> g, of |-> e.of] /\ g < (2 * e.ttl - 1) * Ticks
        BY <2>1, <3>1, <3>2, <3>3
      <3>5. e.ttl \in Nat /\ e.of \in Names!Question \cup {None}
        BY <3>2 DEF Entries
      <3>6. QED
        BY <3>4, <3>5 DEF Messages, Names!Failed
    <2>6. QED
      BY <1>3, <1>4, <1>6, <2>2, <2>3, <2>4, <2>5, OwnReply
  <1>9. CASE ~(e # None /\ Names!validateMsg(e))
    <2>1. query' = [query EXCEPT ![q] = Names!NextHandler(s)] /\ cache' = [u EXCEPT ![s.name] = None] /\ UNCHANGED served
      BY <1>1, <1>3, <1>5, <1>7, <1>9 DEF Names!dnsCacheHandler
    <2>2. OwnCache(cache')
      BY <1>3, <1>4, <1>5, <2>1, UpdateIsOwn
    <2>3. QED
      BY <1>1, <1>2, <1>3, <1>4, <2>1, <2>2, OwnPasses
  <1>10. QED
    BY <1>8, <1>9

LEMMA OwnSent ==
    ASSUME DnsInv, OwnInv, NEW q \in Names!Query, Names!connectDNSHandler(q) \/ Names!adaptedHandler(q)
    PROVE  OwnInv'
  <1>1. PICK s : s = query[q]
    OBVIOUS
  <1>2. PICK h : Names!Calls(q, h)
    BY DEF Names!connectDNSHandler, Names!adaptedHandler
  <1>3. s \in States /\ s.name \in Names!Question /\ OwnState(q, s) /\ Named(q, s.name)
    BY <1>1, <1>2, HandlerFacts
  <1>4. CASE Names!Unwind(q)
    BY <1>2, <1>4, OwnPlain
  <1>5. CASE ~ Names!Unwind(q)
    <2>1. PICK m \in Names!Answered(s.name) : Names!Reply(q, s, m)
      BY <1>1, <1>5 DEF Names!connectDNSHandler, Names!adaptedHandler
    <2>2. m \in Messages /\ Mine(q, m)
      BY <1>3, AnsweredIsMessage, SuccessIsMine
    <2>3. UNCHANGED <<setup, channel>>
      BY DEF Names!connectDNSHandler, Names!adaptedHandler
    <2>4. QED
      BY <1>1, <1>2, <1>3, <2>1, <2>2, <2>3, OwnWrites
  <1>6. QED
    BY <1>4, <1>5

\* A query in fanout.
LEMMA OwnInFanout ==
    ASSUME DnsInv, OwnInv, NEW q \in Names!Query, query[q].at = Len(Names!chain) + 1, NEW s, s = query[q]
    PROVE  /\ s \in States /\ s.name \in Names!Question /\ OwnState(q, s) /\ Named(q, s.name)
           /\ channel[q] \in Seq(Messages) /\ CacheInv /\ setup \in Setups /\ s.at # 0
           /\ Len(Names!chain) \in 1 .. Len(Names!chain) /\ Len(Names!chain) \in Nat
           /\ query = [k \in Names!Query |-> query[k]] /\ channel = [k \in Names!Query |-> channel[k]]
  <1>1. /\ s \in States /\ s.name \in Names!Question /\ channel[q] \in Seq(Messages) /\ CacheInv /\ setup \in Setups
        /\ Len(Names!chain) \in 1 .. Len(Names!chain) /\ Len(Names!chain) \in Nat
    BY FanoutFacts
  <1>2. s.at # 0
    BY <1>1
  <1>3. OwnState(q, s)
    BY OwnFacts
  <1>4. QED
    BY <1>1, <1>2, <1>3 DEF OwnState, DnsInv, QueriesAreSound

LEMMA OwnFanout ==
    ASSUME DnsInv, OwnInv, NEW q \in Names!Query, Names!fanoutHandler(q)
    PROVE  OwnInv'
  <1>1. PICK s : s = query[q]
    OBVIOUS
  <1>2. PICK h : Names!Calls(q, h)
    BY DEF Names!fanoutHandler
  <1>3. /\ s \in States /\ s.at # 0 /\ OwnState(q, s) /\ setup \in Setups /\ query = [k \in Names!Query |-> query[k]]
    BY <1>1, <1>2, HandlerFacts
  <1>4. CASE s.servers = {}
    BY <1>1, <1>2, <1>4, OwnFails DEF Names!fanoutHandler
  <1>5. CASE s.servers # {}
    <2>1. PICK n : n = Len(Names!chain) + 1
      OBVIOUS
    <2>2. PICK x : x = [s EXCEPT !.at = n]
      OBVIOUS
    <2>3. query' = [query EXCEPT ![q] = x] /\ UNCHANGED <<setup, cache, channel, served>>
      BY <1>1, <1>3, <1>5, <2>1, <2>2 DEF Names!fanoutHandler
    <2>4. x.name = s.name /\ x.got = s.got /\ x.caught = s.caught
      BY <1>3, <2>2 DEF States
    <2>5. OwnState(q, x)
      BY <1>3, <2>4 DEF OwnState
    <2>6. PICK w, c : w = served[q] /\ c = channel[q]
      OBVIOUS
    <2>7. Mine(q, w) /\ (\A i \in DOMAIN c : Mine(q, c[i])) /\ OwnCache(cache')
      BY <2>3, <2>6, OwnFacts
    <2>8. QED
      BY <2>3, <2>5, <2>6, <2>7, OwnMoves
  <1>6. QED
    BY <1>4, <1>5

LEMMA OwnFromFanout ==
    ASSUME DnsInv, OwnInv, NEW q \in Names!Query, Names!fanoutAnswers(q) \/ Names!fanoutFails(q)
    PROVE  OwnInv'
  <1>1. query[q].at = Len(Names!chain) + 1
    BY DEF Names!fanoutAnswers, Names!fanoutFails
  <1>2. PICK r : r = query[q]
    OBVIOUS
  <1>3. /\ r \in States /\ r.name \in Names!Question /\ OwnState(q, r) /\ Named(q, r.name)
        /\ channel[q] \in Seq(Messages) /\ CacheInv
        /\ Len(Names!chain) \in 1 .. Len(Names!chain) /\ Len(Names!chain) \in Nat /\ r.at # 0
    BY <1>1, <1>2, OwnInFanout
  <1>4. PICK m : Names!FanoutReturns(q, m) /\ m \in Messages /\ Mine(q, m)
    <2>1. CASE Names!fanoutFails(q)
      <3>1. PICK m : m = Names!Failed
        OBVIOUS
      <3>2. QED
        BY <2>1, <3>1, FailedIsMessage, FailedIsMine DEF Names!fanoutFails
    <2>2. CASE Names!fanoutAnswers(q)
      <3>1. PICK m : m = Names!waitResponse(q)
        OBVIOUS
      <3>2. Names!FanoutReturns(q, m) /\ m # None
        BY <2>2, <3>1 DEF Names!fanoutAnswers
      <3>3. \E i \in DOMAIN channel[q] : m = channel[q][i]
        BY <1>3, <3>1, <3>2, WaitResponseIsSound
      <3>4. m \in Messages /\ Mine(q, m)
        BY <1>3, <3>3, OwnFacts
      <3>5. QED
        BY <3>2, <3>4
    <2>3. QED
      BY <2>1, <2>2
  <1>5. PICK n : n = Len(Names!chain)
    OBVIOUS
  <1>6. PICK s : s = [r EXCEPT !.at = n]
    OBVIOUS
  <1>7. s \in States /\ s.at = n /\ s.name = r.name /\ s.got = r.got /\ s.caught = r.caught
    BY <1>3, <1>5, <1>6 DEF States
  <1>8. OwnState(q, s)
    BY <1>3, <1>7 DEF OwnState
  <1>9. /\ query' = [query EXCEPT ![q] = Names!Return(Names!WriteMsg(s, m))] /\ cache' = Names!Cached(s, m)
        /\ served' = [served EXCEPT ![q] = m] \/ served' = served
        /\ channel' = [channel EXCEPT ![q] = <<>>] /\ UNCHANGED setup
    <2>1. s = [query[q] EXCEPT !.at = Len(Names!chain)]
      BY <1>2, <1>5, <1>6
    <2>2. QED
      BY <1>4, <2>1 DEF Names!FanoutReturns
  <1>10. OwnCache(cache')
    BY <1>3, <1>4, <1>7, <1>9, CachedIsOwn, OwnFacts
  <1>11. s.at \in 1 .. Len(Names!chain) /\ s.name \in Names!Question
    BY <1>3, <1>5, <1>7
  <1>12. QED
    BY <1>4, <1>7, <1>8, <1>9, <1>10, <1>11, OwnReply

LEMMA OwnInTime ==
    ASSUME DnsInv, OwnInv, NEW q \in Names!Query, Names!Deadline(q) \/ \E server : Names!Exchange(q, server)
    PROVE  OwnInv'
  <1>1. query[q].at = Len(Names!chain) + 1 /\ UNCHANGED <<setup, cache, served>>
    BY DEF Names!Deadline, Names!Exchange
  <1>2. PICK s, d : s = query[q] /\ d = channel[q]
    OBVIOUS
  <1>3. /\ s \in States /\ s.name \in Names!Question /\ OwnState(q, s) /\ Named(q, s.name)
        /\ d \in Seq(Messages) /\ query = [k \in Names!Query |-> query[k]] /\ channel = [k \in Names!Query |-> channel[k]]
    BY <1>1, <1>2, OwnInFanout
  <1>4. PICK w : w = served[q]
    OBVIOUS
  <1>5. Mine(q, w) /\ (\A i \in DOMAIN d : Mine(q, d[i])) /\ OwnCache(cache')
    BY <1>1, <1>2, <1>4, OwnFacts
  <1>6. CASE Names!Deadline(q)
    <2>1. PICK x : x = [s EXCEPT !.expired = TRUE]
      OBVIOUS
    <2>2. query' = [query EXCEPT ![q] = x] /\ UNCHANGED channel
      BY <1>2, <1>3, <1>6, <2>1 DEF Names!Deadline
    <2>3. x.name = s.name /\ x.got = s.got /\ x.caught = s.caught
      BY <1>3, <2>1 DEF States
    <2>4. OwnState(q, x)
      BY <1>3, <2>3 DEF OwnState
    <2>5. QED
      BY <1>1, <1>2, <1>4, <1>5, <2>2, <2>4, OwnMoves
  <1>7. ASSUME NEW server, Names!Exchange(q, server)
        PROVE  OwnInv'
    <2>1. PICK m \in Names!Answered(s.name) :
            /\ channel' = [channel EXCEPT ![q] = Append(@, m)]
            /\ query' = [query EXCEPT ![q].good = @ \/ m # Names!Failed]
      BY <1>2, <1>7 DEF Names!Exchange
    <2>2. PICK g : g = (s.good \/ m # Names!Failed)
      OBVIOUS
    <2>3. PICK x : x = [s EXCEPT !.good = g]
      OBVIOUS
    <2>4. query' = [query EXCEPT ![q] = x]
      BY <1>2, <1>3, <2>1, <2>2, <2>3
    <2>5. x.name = s.name /\ x.got = s.got /\ x.caught = s.caught
      BY <1>3, <2>3 DEF States
    <2>6. OwnState(q, x)
      BY <1>3, <2>5 DEF OwnState
    <2>7. PICK c : c = Append(d, m)
      OBVIOUS
    <2>8. channel' = [channel EXCEPT ![q] = c]
      BY <1>2, <1>3, <2>1, <2>7
    <2>9. m \in Messages /\ Mine(q, m)
      BY <1>3, <2>1, AnsweredIsMessage, SuccessIsMine
    <2>10. \A i \in DOMAIN c : Mine(q, c[i])
      <3>1. /\ c \in Seq(Messages) /\ Len(c) = Len(d) + 1 /\ Len(d) \in Nat /\ c[Len(d) + 1] = m
            /\ \A i \in 1 .. Len(d) : c[i] = d[i]
        BY <1>3, <2>7, <2>9, AppendProperties
      <3>2. DOMAIN c = 1 .. Len(d) + 1 /\ DOMAIN d = 1 .. Len(d)
        BY <1>3, <3>1
      <3>3. QED
        BY <1>5, <2>9, <3>1, <3>2
    <2>11. QED
      BY <1>1, <1>4, <1>5, <2>4, <2>6, <2>8, <2>10, OwnMoves
  <1>8. QED
    BY <1>6, <1>7

LEMMA OwnListens ==
    ASSUME DnsInv, OwnInv, NEW q \in Names!Query, Names!ListenAndServe(q)
    PROVE  OwnInv'
  <1>1. query = [k \in Names!Query |-> query[k]] /\ UNCHANGED <<setup, cache, channel, served>>
    BY DEF DnsInv, QueriesAreSound, Names!ListenAndServe
  <1>2. PICK n : n = Names!Own(q)
    OBVIOUS
  <1>3. PICK x : x = [Names!Idle EXCEPT !.at = 1, !.name = n]
    OBVIOUS
  <1>4. query' = [query EXCEPT ![q] = x]
    BY <1>1, <1>2, <1>3 DEF Names!ListenAndServe
  <1>5. x.name = n /\ x.got = None /\ x.caught = None
    BY <1>3 DEF Names!Idle
  <1>6. OwnState(q, x)
    BY <1>2, <1>5, OwnIsQuestion DEF OwnState, Named, Mine
  <1>7. PICK w, c : w = served[q] /\ c = channel[q]
    OBVIOUS
  <1>8. Mine(q, w) /\ (\A i \in DOMAIN c : Mine(q, c[i])) /\ OwnCache(cache')
    BY <1>1, <1>7, OwnFacts
  <1>9. QED
    BY <1>1, <1>4, <1>6, <1>7, <1>8, OwnMoves

LEMMA OwnStep ==
    ASSUME DnsInv, OwnInv, Names!DnsNext
    PROVE  OwnInv'
  <1>1. setup.queries \subseteq Names!Query
    BY DEF DnsInv, Names!Query
  <1>2. CASE Names!Tick
    BY <1>2 DEF OwnInv, OwnCache, Names!Tick
  <1>3. ASSUME NEW q \in setup.queries, Names!Handler(q)
        PROVE  OwnInv'
    <2>1. q \in Names!Query
      BY <1>1
    <2>2. CASE Names!checkMsgHandler(q)
      BY <2>1, <2>2, OwnFails, OwnPlain DEF Names!checkMsgHandler
    <2>3. CASE Names!norecursionDNSHandler(q)
      BY <2>1, <2>3, OwnPlain DEF Names!norecursionDNSHandler
    <2>4. QED
      BY <1>3, <2>1, <2>2, <2>3, OwnDnsConfigs, OwnSearches, OwnNoloop, OwnMemory, OwnFromCache, OwnSent, OwnFanout,
         OwnFromFanout DEF Names!Handler
  <1>4. ASSUME NEW q \in setup.queries,
               Names!Deadline(q) \/ Names!ListenAndServe(q) \/ \E server \in asked[q] : Names!Exchange(q, server)
        PROVE  OwnInv'
    BY <1>1, <1>4, OwnInTime, OwnListens
  <1>5. QED
    BY <1>2, <1>3, <1>4 DEF Names!DnsNext, Names!Serve

LEMMA OwnStarts ==
    ASSUME Names!DnsInit
    PROVE  OwnInv
  <1>1. /\ cache = [k \in Names!Question |-> None] /\ query = [q \in Names!Query |-> Names!Idle]
        /\ channel = [q \in Names!Query |-> <<>>] /\ served = [q \in Names!Query |-> None]
    BY DEF Names!DnsInit
  <1>2. PICK x : x = Names!Idle
    OBVIOUS
  <1>3. x.at = 0 /\ x.got = None /\ x.caught = None
    BY <1>2 DEF Names!Idle
  <1>4. \A q : OwnState(q, x) /\ Mine(q, None)
    BY <1>3 DEF OwnState, Mine
  <1>5. QED
    BY <1>1, <1>2, <1>4 DEF OwnInv, OwnCache

\* What the invariant says of the clients.
LEMMA DnsIsRight ==
    ASSUME DnsInv, OwnInv
    PROVE  Names!FailureIsReal /\ Names!OwnAnswer /\ Names!CacheIsFresh /\ Names!IdsAreFreed
  <1>1. \A q \in Names!Query : query[q].at = 0 /\ ~ query[q].down => served[q] # None
    <2>1. \A q \in Names!Query : ServedOnReturn(query[q], served[q])
      BY QueryFacts DEF QueryIsSound
    <2>2. QED
      BY <2>1 DEF ServedOnReturn
  <1>2. ASSUME NEW q \in Names!Query, served[q] = Names!Failed, q.qtype # "nil"
        PROVE  \/ query[q].expired \/ query[q].loop
               \/ ~ query[q].good /\ (Names!Contains(Names!chain, "memory") => q.name \notin DOMAIN Names!records)
    <2>1. PICK x, v : x = query[q] /\ v = served[q]
      OBVIOUS
    <2>2. QueryIsSound(q, x, v, channel[q]) /\ setup \in Setups
      BY <2>1, QueryFacts
    <2>3. Len(Names!chain) \in Nat /\ DOMAIN Names!chain = 1 .. Len(Names!chain)
      BY <2>2, ChainLength
    <2>4. v = Names!Failed /\ v # None
      BY <1>2, <2>1, FailedIsMessage, NoneIsNoMessage
    <2>5. ~ x.down /\ Dest(x.at) = "client"
      BY <2>2, <2>4 DEF QueryIsSound, ServedOnReturn
    <2>6. x.at <= Len(Names!chain)
      <3>1. x.at \in Nat /\ x.at <= Len(Names!chain) + 1 /\ x.at # Len(Names!chain) + 1
        BY <2>2, <2>5 DEF QueryIsSound, States
      <3>2. QED
        BY <2>3, <3>1
    <2>7. ~ Owed(q, x)
      BY <2>2, <2>4, <2>5, <2>6 DEF QueryIsSound, GoodIsCarried, Holds
    <2>8. Names!Contains(Names!chain, "memory") /\ q.name \in DOMAIN Names!records => Known(q)
      BY <2>3 DEF Names!Contains, Known
    <2>9. QED
      BY <1>2, <2>1, <2>7, <2>8 DEF Owed, Heard
  <1>3. Names!CacheIsFresh
    <2>1. SUFFICES ASSUME NEW q \in Names!Query, served[q] # None, served[q].code # "fail"
                   PROVE  served[q].age < (2 * served[q].ttl - 1) * Ticks \/ served[q].age = 0
      BY DEF Names!CacheIsFresh
    <2>2. served[q] \in Messages
      BY <2>1, QueryFacts DEF QueryIsSound
    <2>3. QED
      BY <2>1, <2>2 DEF Messages
  <1>4. Names!OwnAnswer
    <2>1. SUFFICES ASSUME NEW q \in Names!Query, served[q] # None, served[q].code # "fail"
                   PROVE  served[q].of[1] = q.name /\ served[q].of[3] = q.qtype
      BY DEF Names!OwnAnswer
    <2>2. OwnState(q, query[q]) /\ Mine(q, served[q])
      BY DEF OwnInv
    <2>3. QED
      BY <2>1, <2>2 DEF Mine
  <1>5. QED
    BY <1>1, <1>2, <1>3, <1>4 DEF DnsInv, Names!FailureIsReal

DnsPartInv == part = "dns" => DnsInv /\ OwnInv

\* dnsutils: whatever the chain of handlers, the queries and their answers, a query fails
\* only if nobody could answer it in time, a query gets an answer to a question of its own,
\* one from the cache is younger than twice its time to live, less a second, and noloop
\* forgets the queries that are over (AnswersAreRight of MCCalls).
THEOREM AnswersAreAlwaysRight == MCSpec => []AnswersAreRight
  <1>1. MCInit => DnsPartInv
    BY DnsStarts, OwnStarts DEF MCInit, DnsPartInv
  <1>2. DnsPartInv /\ [MCNext]_allVars => DnsPartInv'
    <2>1. SUFFICES ASSUME DnsPartInv, [MCNext]_allVars, part' = "dns"
                   PROVE  DnsInv' /\ OwnInv'
      BY DEF DnsPartInv
    <2>2. part = "dns"
      BY <2>1 DEF MCNext, allVars
    <2>3. DnsInv /\ OwnInv
      BY <2>1, <2>2 DEF DnsPartInv
    <2>4. CASE MCNext
      <3>1. Names!DnsNext
        BY <2>2, <2>4 DEF MCNext
      <3>2. QED
        BY <2>3, <3>1, DnsStep, OwnStep
    <2>5. CASE UNCHANGED allVars
      <3>1. UNCHANGED <<setup, ids, cache, updated, now, query, asked, channel, served>>
        BY <2>5 DEF allVars, dnsVars
      <3>2. CacheInv'
        BY <2>3, <3>1, CacheStays DEF DnsInv
      <3>3. QueriesAreSound'
        BY <2>3, <3>1, QueriesStaySound DEF DnsInv, QueriesAreSound
      <3>4. Names!IdsAreFreed'
        BY <2>3, <3>1 DEF DnsInv, Names!IdsAreFreed, Names!InNoloop, Names!chain
      <3>5. OwnInv'
        BY <2>3, <3>1 DEF OwnInv
      <3>6. QED
        BY <2>3, <3>1, <3>2, <3>3, <3>4, <3>5 DEF DnsInv
    <2>6. QED
      BY <2>1, <2>4, <2>5
  <1>3. DnsPartInv => AnswersAreRight
    BY DnsIsRight DEF DnsPartInv, AnswersAreRight
  <1>4. QED
    BY <1>1, <1>2, <1>3, PTL DEF MCSpec
=============================================================================

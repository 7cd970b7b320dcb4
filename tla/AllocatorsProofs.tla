-------------------------- MODULE AllocatorsProofs --------------------------
(***************************************************************************)
(* Proofs about MCAllocators: nothing that an endpoint gives out is given  *)
(* to two of its connections, peers learn the prefix of their endpoint,    *)
(* and descriptors have an owner.  Each part has an inductive invariant    *)
(* that says what its tables have to do with each other while calls are in *)
(* the rest of the chain, and a lemma for the step that keeps it.          *)
(***************************************************************************)
EXTENDS MCAllocators, FiniteSetTheorems, WellFoundedInduction, TLAPS

\* The variables of MCSpec.
allVars == <<part, allocatorVars, keeperVars>>

\* A set of numbers has a smallest one.
LEMMA LeastExists ==
    ASSUME NEW S \in SUBSET Nat, S # {}
    PROVE  \E n \in S : \A m \in S : n <= m
  <1> DEFINE R == OpToRel(<, Nat)
  <1>1. IsWellFoundedOn(R, Nat)
    BY NatLessThanWellFounded
  <1>2. \A m, n \in Nat : m < n => <<m, n>> \in R
    BY DEF OpToRel
  <1> HIDE DEF R
  <1>3. PICK n \in S : \A m \in S : <<m, n>> \notin R
    BY <1>1, WFMin
  <1>4. \A m \in S : m \in Nat /\ n \in Nat /\ ~(m < n)
    BY <1>2, <1>3
  <1>5. QED
    BY <1>4

-----------------------------------------------------------------------------
(* VNIs and VLANs.                                                         *)

\* Calls of vniServer and vlanServer.
NumberCalls == [pc : {"idle", "next"}, src : SrcIP \cup {0}, n : Nat, loaded : BOOLEAN]

\* The number that a connection has, or is about to get.
NumberOf(c) ==
    IF numberCall[c].pc = "next" THEN [src |-> numberCall[c].src, n |-> numberCall[c].n] ELSE number[c]

\* The variables of the numbers have their types.
NumberType ==
    /\ element \in {"vni", "vlan"} /\ recovers \in BOOLEAN
    /\ meta \in [Conn -> Nat]
    /\ freeVLANs \in SUBSET Nat
    /\ numberCall \in [Conn -> NumberCalls]
    /\ number \in [Conn -> [src : SrcIP \cup {0}, n : Nat]]

\* Every number in use is accounted for, and what a call is about to return is
\* new exactly if the connection had none.
NumberInv ==
    /\ NumberType
    /\ ~ recovers => \A c \in Conn :
          /\ number[c] # Numbers!NoNumber => number[c].n # 0 /\ NumberOf(c) = number[c]
          /\ numberCall[c].pc = "next" =>
                NumberOf(c).n # 0 /\ (numberCall[c].loaded <=> number[c] # Numbers!NoNumber)
          /\ element = "vni" =>
                /\ meta[c] = NumberOf(c).n
                /\ NumberOf(c).n # 0 => <<NumberOf(c).src, NumberOf(c).n>> \in keys
          /\ element = "vlan" => NumberOf(c).n \notin freeVLANs /\ 0 \notin freeVLANs
          /\ \A d \in Conn : c # d /\ NumberOf(c).n # 0 /\ NumberOf(d).n # 0 =>
                \/ NumberOf(c).n # NumberOf(d).n
                \/ element = "vni" /\ NumberOf(c).src # NumberOf(d).src

\* Numbers that are in use once, or about to be, are in use once.
LEMMA NumberUnshared == NumberInv => Numbers!NoSharedNumber
  <1> SUFFICES ASSUME NumberInv, ~ recovers, NEW c \in Conn, NEW d \in Conn, c # d,
                      number[c] # Numbers!NoNumber, number[d] # Numbers!NoNumber
               PROVE  \/ number[c].n # number[d].n
                      \/ element = "vni" /\ number[c].src # number[d].src
    BY DEF Numbers!NoSharedNumber
  <1>1. NumberOf(c) = number[c] /\ NumberOf(d) = number[d] /\ number[c].n # 0 /\ number[d].n # 0
    BY DEF NumberInv
  <1>2. QED
    BY <1>1 DEF NumberInv

\* vniServer and vlanServer begin with every number free.
LEMMA NumberBegins == Numbers!Init => NumberInv
  <1> SUFFICES ASSUME Numbers!Init
               PROVE  NumberInv
    OBVIOUS
  <1>1. NumberType
    BY AllocatorsAssumption DEF Numbers!Init, Numbers!Idle, Numbers!NoNumber, NumberType, NumberCalls
  <1>2. \A c \in Conn : NumberOf(c) = Numbers!NoNumber /\ NumberOf(c).n = 0
    BY DEF Numbers!Init, Numbers!Idle, Numbers!NoNumber, NumberOf
  <1>3. 0 \notin Number
    BY AllocatorsAssumption
  <1>4. QED
    BY <1>1, <1>2, <1>3 DEF NumberInv, Numbers!Init, Numbers!Idle, Numbers!NoNumber
\* NumberType is inductive, whatever is done to the pools of the host.
LEMMA NumberTypeKept ==
    ASSUME NumberType, Numbers!Next
    PROVE  NumberType'
  <1>1. Number \in SUBSET (Nat \ {0})
    BY AllocatorsAssumption
  <1>2. PICK c \in Conn : \/ \E src \in Numbers!SrcOf(c), n \in Number \cup {0} : Numbers!Request(c, src, n)
                          \/ Numbers!RequestSuccess(c) \/ Numbers!RequestFailure(c) \/ Numbers!Close(c)
    BY DEF Numbers!Next
  <1>3. ASSUME NEW src \in Numbers!SrcOf(c), NEW n \in Number \cup {0}, Numbers!Request(c, src, n)
        PROVE  NumberType'
    <2>1. src \in SrcIP \cup {0} /\ n \in Nat
      BY <1>1 DEF NumberType, Numbers!SrcOf
    <2>2. CASE Numbers!VNIRequest(c, src, n)
      <3>1. meta[c] \in Nat
        BY DEF NumberType
      <3>2. \E v \in Nat, l \in BOOLEAN : Numbers!Calling(c, src, v, l)
        BY <1>1, <2>1, <2>2, <3>1 DEF Numbers!VNIRequest
      <3>3. numberCall' \in [Conn -> NumberCalls]
        BY <2>1, <3>2 DEF Numbers!Calling, NumberType, NumberCalls
      <3>4. meta' \in [Conn -> Nat]
        BY <1>1, <2>1, <2>2, <3>1 DEF Numbers!VNIRequest, Numbers!store, Numbers!loadOrStore, NumberType
      <3>5. QED
        BY <1>3, <2>2, <3>3, <3>4 DEF Numbers!Request, Numbers!VNIRequest, NumberType
    <2>3. CASE Numbers!VLANRequest(c, src, n)
      <3>1. freeVLANs # {} => Numbers!Min(freeVLANs) \in freeVLANs
        BY <1>1, LeastExists DEF Numbers!Min, NumberType
      <3>2. \E v \in Nat, l \in BOOLEAN : Numbers!Calling(c, src, v, l)
        BY <1>1, <2>1, <2>3, <3>1 DEF Numbers!VLANRequest, NumberType
      <3>3. numberCall' \in [Conn -> NumberCalls]
        BY <2>1, <3>2 DEF Numbers!Calling, NumberType, NumberCalls
      <3>4. QED
        BY <1>3, <2>3, <3>3 DEF Numbers!Request, Numbers!VLANRequest, NumberType
    <2>4. QED
      BY <1>3, <2>2, <2>3 DEF Numbers!Request
  <1>4. numberCall[c] \in NumberCalls /\ number[c] \in [src : SrcIP \cup {0}, n : Nat]
    BY DEF NumberType
  <1>5. CASE Numbers!RequestSuccess(c)
    <2>1. number' \in [Conn -> [src : SrcIP \cup {0}, n : Nat]]
      BY <1>4, <1>5 DEF Numbers!RequestSuccess, NumberType, NumberCalls
    <2>2. numberCall' \in [Conn -> NumberCalls]
      BY <1>5 DEF Numbers!RequestSuccess, Numbers!Idle, NumberType, NumberCalls
    <2>3. QED
      BY <1>5, <2>1, <2>2 DEF Numbers!RequestSuccess, NumberType
  <1>6. CASE Numbers!RequestFailure(c)
    <2>1. numberCall' \in [Conn -> NumberCalls]
      BY <1>6 DEF Numbers!RequestFailure, Numbers!Idle, NumberType, NumberCalls
    <2>2. freeVLANs' \in SUBSET Nat
      BY <1>4, <1>6 DEF NumberCalls, Numbers!RequestFailure, Numbers!releaseVLANID, NumberType
    <2>3. meta' \in [Conn -> Nat]
      BY <1>6 DEF Numbers!RequestFailure, Numbers!store, NumberType
    <2>4. QED
      BY <1>6, <2>1, <2>2, <2>3 DEF Numbers!RequestFailure, NumberType
  <1>7. CASE Numbers!Close(c)
    <2>1. number' \in [Conn -> [src : SrcIP \cup {0}, n : Nat]]
      BY <1>7 DEF Numbers!Close, Numbers!NoNumber, NumberType
    <2>2. freeVLANs' \in SUBSET Nat
      BY <1>4, <1>7 DEF Numbers!Close, Numbers!releaseVLANID, NumberType
    <2>3. meta' \in [Conn -> Nat]
      BY <1>7 DEF Numbers!Close, Numbers!store, NumberType
    <2>4. QED
      BY <1>7, <2>1, <2>2, <2>3 DEF Numbers!Close, NumberType
  <1>8. QED
    BY <1>2, <1>3, <1>5, <1>6, <1>7

\* A step of c keeps the invariant if the numbers of the others stay theirs, and the
\* one that c has afterwards is its own or none.
LEMMA NumberStep ==
    ASSUME NumberInv, Numbers!Next
    PROVE  NumberInv'
  <1>1. Number \in SUBSET (Nat \ {0})
    BY AllocatorsAssumption
  <1>2. NumberType /\ NumberType'
    BY NumberTypeKept DEF NumberInv
  <1>3. CASE recovers
    BY <1>2, <1>3 DEF NumberInv, Numbers!Next, Numbers!Request, Numbers!RequestSuccess, Numbers!RequestFailure, Numbers!Close
  <1>4. PICK c \in Conn : \/ \E src \in Numbers!SrcOf(c), n \in Number \cup {0} : Numbers!Request(c, src, n)
                          \/ Numbers!RequestSuccess(c) \/ Numbers!RequestFailure(c) \/ Numbers!Close(c)
    BY DEF Numbers!Next
  <1>5. /\ UNCHANGED <<element, recovers>>
        /\ \A d \in Conn \ {c} : number'[d] = number[d] /\ numberCall'[d] = numberCall[d] /\ meta'[d] = meta[d]
    BY <1>2, <1>4 DEF NumberType, Numbers!Request, Numbers!RequestSuccess, Numbers!RequestFailure, Numbers!Close,
           Numbers!VNIRequest, Numbers!VLANRequest, Numbers!Calling, Numbers!store, Numbers!loadOrStore
  <1> DEFINE Key(x) == <<x.src, x.n>>
             old == NumberOf(c)
             new == NumberOf(c)'
             Kept == new = old /\ keys \subseteq keys' /\ freeVLANs' = freeVLANs /\ meta'[c] = meta[c]
             Given == /\ old.n = 0 /\ new.n # 0
                      /\ element = "vni" => Key(new) \notin keys /\ keys \subseteq keys' /\ Key(new) \in keys' /\ meta'[c] = new.n
                      /\ element = "vlan" => new.n \in freeVLANs /\ freeVLANs' = freeVLANs \ {new.n}
             Freed == /\ old.n # 0 /\ new.n = 0
                      /\ element = "vni" => keys' = keys \ {Key(old)} /\ meta'[c] = 0
                      /\ element = "vlan" => freeVLANs' = freeVLANs \cup {old.n}
             Local == /\ number[c] # Numbers!NoNumber => number[c].n # 0 /\ NumberOf(c) = number[c]
                      /\ numberCall[c].pc = "next" =>
                            NumberOf(c).n # 0 /\ (numberCall[c].loaded <=> number[c] # Numbers!NoNumber)
  <1>6. CASE ~ recovers
    <2>1. Local /\ (element = "vni" => meta[c] = old.n) /\ element \in {"vni", "vlan"}
      BY <1>2, <1>6 DEF NumberInv, NumberType
    <2>2. numberCall[c] \in NumberCalls /\ number[c] \in [src : SrcIP \cup {0}, n : Nat]
      BY <1>2 DEF NumberType
    <2>3. ASSUME NEW src \in Numbers!SrcOf(c), NEW n \in Number \cup {0}, Numbers!Request(c, src, n)
          PROVE  (Kept \/ Given) /\ Local'
      <3>1. old = number[c] /\ n = number[c].n
        BY <1>6, <2>3 DEF NumberOf, Numbers!Request
      <3>2. CASE number[c] # Numbers!NoNumber
        <4>1. n # 0 /\ src = number[c].src
          BY <2>1, <3>1, <3>2 DEF Numbers!SrcOf
        <4>2. Numbers!Calling(c, src, n, TRUE) /\ keys \subseteq keys' /\ freeVLANs' = freeVLANs /\ meta' = meta /\ number' = number
          BY <2>1, <2>3, <3>1, <4>1 DEF Numbers!Request, Numbers!VNIRequest, Numbers!VLANRequest, Numbers!loadOrStore
        <4>3. numberCall'[c] = [pc |-> "next", src |-> src, n |-> n, loaded |-> TRUE]
          BY <1>2, <4>2 DEF Numbers!Calling, NumberType
        <4>4. new = number[c]
          BY <2>2, <3>1, <4>1, <4>3 DEF NumberOf
        <4>5. QED
          BY <3>1, <3>2, <4>1, <4>2, <4>3, <4>4
      <3>3. CASE number[c] = Numbers!NoNumber
        <4>1. n = 0 /\ old.n = 0
          BY <3>1, <3>3 DEF Numbers!NoNumber
        <4>2. ASSUME element = "vni"
              PROVE  \E v \in Number : /\ <<src, v>> \notin keys /\ keys' = keys \cup {<<src, v>>}
                                       /\ meta' = [meta EXCEPT ![c] = v] /\ Numbers!Calling(c, src, v, FALSE)
          BY <2>1, <2>3, <4>1, <4>2 DEF Numbers!Request, Numbers!VNIRequest, Numbers!VLANRequest, Numbers!store
        <4>3. ASSUME element = "vlan"
              PROVE  \E v \in freeVLANs : freeVLANs' = freeVLANs \ {v} /\ Numbers!Calling(c, src, v, FALSE)
          <5>1. freeVLANs # {} => Numbers!Min(freeVLANs) \in freeVLANs
            BY <1>2, LeastExists DEF Numbers!Min, NumberType
          <5>2. QED
            BY <2>3, <4>1, <4>3, <5>1 DEF Numbers!Request, Numbers!VNIRequest, Numbers!VLANRequest
        <4>4. element = "vlan" => 0 \notin freeVLANs
          BY <1>6 DEF NumberInv
        <4>5. PICK v \in Nat \ {0} :
                 /\ Numbers!Calling(c, src, v, FALSE)
                 /\ element = "vni" => <<src, v>> \notin keys /\ keys' = keys \cup {<<src, v>>} /\ meta' = [meta EXCEPT ![c] = v]
                 /\ element = "vlan" => v \in freeVLANs /\ freeVLANs' = freeVLANs \ {v}
          BY <1>1, <1>2, <2>1, <4>2, <4>3, <4>4 DEF NumberType
        <4>6. numberCall'[c] = [pc |-> "next", src |-> src, n |-> v, loaded |-> FALSE]
          BY <1>2, <4>5 DEF Numbers!Calling, NumberType
        <4>7. new = [src |-> src, n |-> v] /\ meta \in [Conn -> Nat] /\ number' = number
          BY <1>2, <2>3, <4>6 DEF NumberOf, NumberType, Numbers!Request
        <4>8. Given
          BY <4>1, <4>5, <4>7
        <4>9. QED
          BY <3>3, <4>6, <4>7, <4>8
      <3>4. QED
        BY <3>2, <3>3
    <2>4. ASSUME Numbers!RequestSuccess(c)
          PROVE  Kept /\ Local'
      <3>1. numberCall'[c].pc = "idle" /\ number'[c] = old /\ old.n # 0
        BY <1>2, <2>1, <2>4 DEF Numbers!RequestSuccess, Numbers!Idle, NumberOf, NumberType
      <3>2. QED
        BY <2>4, <3>1 DEF Numbers!RequestSuccess, NumberOf
    <2>5. ASSUME Numbers!RequestFailure(c)
          PROVE  (Kept \/ Freed) /\ Local'
      <3>1. numberCall'[c].pc = "idle" /\ number' = number /\ new = number[c]
        BY <1>2, <2>5 DEF Numbers!RequestFailure, Numbers!Idle, NumberOf, NumberType
      <3>2. CASE numberCall[c].loaded
        BY <2>1, <2>5, <3>1, <3>2 DEF Numbers!RequestFailure
      <3>3. CASE ~ numberCall[c].loaded
        <4>1. new.n = 0 /\ number[c] = Numbers!NoNumber /\ old.n # 0
          BY <2>1, <2>5, <3>1, <3>3 DEF Numbers!RequestFailure, Numbers!NoNumber
        <4>2. Key(old) = <<numberCall[c].src, numberCall[c].n>> /\ old.n = numberCall[c].n
          BY <2>5 DEF Numbers!RequestFailure, NumberOf
        <4>3. meta \in [Conn -> Nat]
          BY <1>2 DEF NumberType
        <4>4. Freed
          BY <2>5, <3>3, <4>1, <4>2, <4>3 DEF Numbers!RequestFailure, Numbers!store, Numbers!releaseVLANID
        <4>5. QED
          BY <3>1, <4>1, <4>4
      <3>4. QED
        BY <3>2, <3>3
    <2>6. ASSUME Numbers!Close(c)
          PROVE  Freed /\ Local'
      <3>1. old = number[c] /\ old.n # 0 /\ numberCall'[c].pc = "idle"
        BY <2>1, <2>6 DEF Numbers!Close, NumberOf
      <3>2. number'[c] = Numbers!NoNumber /\ new = number'[c] /\ meta \in [Conn -> Nat]
        BY <1>2, <2>6, <3>1 DEF Numbers!Close, NumberOf, NumberType
      <3>3. new.n = 0
        BY <3>2 DEF Numbers!NoNumber
      <3>4. QED
        BY <2>6, <3>1, <3>2, <3>3 DEF Numbers!Close, Numbers!store, Numbers!releaseVLANID
    <2>7. (Kept \/ Given \/ Freed) /\ Local'
      BY <1>4, <2>3, <2>4, <2>5, <2>6
    <2>8. \A d \in Conn \ {c} : NumberOf(d)' = NumberOf(d)
      BY <1>5 DEF NumberOf
    <2>9. ASSUME NEW d \in Conn
          PROVE  /\ number'[d] # Numbers!NoNumber => number'[d].n # 0 /\ NumberOf(d)' = number'[d]
                 /\ numberCall'[d].pc = "next" =>
                        NumberOf(d)'.n # 0 /\ (numberCall'[d].loaded <=> number'[d] # Numbers!NoNumber)
      <3>1. CASE d = c
        BY <2>7, <3>1
      <3>2. CASE d # c
        <4>1. /\ number[d] # Numbers!NoNumber => number[d].n # 0 /\ NumberOf(d) = number[d]
              /\ numberCall[d].pc = "next" =>
                        NumberOf(d).n # 0 /\ (numberCall[d].loaded <=> number[d] # Numbers!NoNumber)
          BY <1>6 DEF NumberInv
        <4>2. NumberOf(d)' = NumberOf(d) /\ number'[d] = number[d] /\ numberCall'[d] = numberCall[d]
          BY <1>5, <2>8, <3>2
        <4>3. QED
          BY <4>1, <4>2
      <3>3. QED
        BY <3>1, <3>2
    <2>10. ASSUME NEW d \in Conn, element = "vni"
           PROVE  meta'[d] = NumberOf(d)'.n /\ (NumberOf(d)'.n # 0 => Key(NumberOf(d)') \in keys')
      <3>1. meta[d] = NumberOf(d).n /\ (NumberOf(d).n # 0 => Key(NumberOf(d)) \in keys)
        BY <1>6, <2>10 DEF NumberInv
      <3>2. CASE d = c
        BY <2>1, <2>7, <2>10, <3>1, <3>2
      <3>3. CASE d # c
        <4>1. meta'[d] = NumberOf(d)'.n /\ NumberOf(d)' = NumberOf(d)
          BY <1>5, <2>8, <3>1, <3>3
        <4>2. NumberOf(d).n # 0 /\ old.n # 0 => Key(NumberOf(d)) # Key(old)
          BY <1>6, <2>10, <3>3 DEF NumberInv
        <4>3. QED
          BY <2>7, <2>10, <3>1, <4>1, <4>2
      <3>4. QED
        BY <3>2, <3>3
    <2>11. ASSUME NEW d \in Conn, element = "vlan"
           PROVE  NumberOf(d)'.n \notin freeVLANs' /\ 0 \notin freeVLANs'
      <3>1. NumberOf(d).n \notin freeVLANs /\ 0 \notin freeVLANs /\ old.n \notin freeVLANs
        BY <1>6, <2>11 DEF NumberInv
      <3>2. CASE d = c
        BY <2>7, <2>11, <3>1, <3>2
      <3>3. CASE d # c
        <4>1. NumberOf(d)' = NumberOf(d) /\ (NumberOf(d).n # 0 /\ old.n # 0 => NumberOf(d).n # old.n)
          BY <1>6, <2>8, <2>11, <3>3 DEF NumberInv
        <4>2. QED
          BY <2>7, <2>11, <3>1, <4>1
      <3>4. QED
        BY <3>2, <3>3
    <2>12. \A d, e \in Conn : d # e /\ NumberOf(d).n # 0 /\ NumberOf(e).n # 0 =>
             \/ NumberOf(d).n # NumberOf(e).n
             \/ element = "vni" /\ NumberOf(d).src # NumberOf(e).src
      BY <1>6 DEF NumberInv
    <2>13. ASSUME NEW d \in Conn \ {c}, new.n # 0, NumberOf(d).n # 0
           PROVE  \/ new.n # NumberOf(d).n
                  \/ element = "vni" /\ new.src # NumberOf(d).src
      <3>1. CASE Kept
        BY <2>12, <2>13, <3>1
      <3>2. CASE Given
        <4>1. element = "vni" => Key(NumberOf(d)) \in keys
          BY <1>6, <2>13 DEF NumberInv
        <4>2. element = "vlan" => NumberOf(d).n \notin freeVLANs
          BY <1>6, <2>13 DEF NumberInv
        <4>3. QED
          BY <2>1, <3>2, <4>1, <4>2
      <3>3. QED
        BY <2>7, <2>13, <3>1, <3>2
    <2>14. ASSUME NEW d \in Conn, NEW e \in Conn, d # e, NumberOf(d)'.n # 0, NumberOf(e)'.n # 0
           PROVE  \/ NumberOf(d)'.n # NumberOf(e)'.n
                  \/ element' = "vni" /\ NumberOf(d)'.src # NumberOf(e)'.src
      <3>1. CASE d # c /\ e # c
        BY <1>5, <2>12, <2>8, <2>14, <3>1
      <3>2. CASE d = c \/ e = c
        BY <1>5, <2>8, <2>13, <2>14, <3>2
      <3>3. QED
        BY <3>1, <3>2
    <2>15. QED
      <3> HIDE DEF Kept, Given, Freed, Local
      <3>1. QED
        BY <1>2, <1>5, <2>9, <2>10, <2>11, <2>14 DEF NumberInv
  <1>7. QED
    BY <1>3, <1>6

-----------------------------------------------------------------------------
(* Prefixes of vl3IPAMServer.                                              *)

\* Quotient and remainder.
LEMMA Division ==
    ASSUME NEW k \in Nat \ {0}, NEW a \in Nat
    PROVE  /\ a % k \in 0 .. k - 1
           /\ \E q \in Nat : a = (k * q) + (a % k)
  <1>1. a = (k * (a \div k)) + (a % k) /\ a \div k \in Nat /\ a % k \in 0 .. k - 1
    OBVIOUS
  <1>2. QED
    BY <1>1

\* A multiple is the number it is divided by times the quotient.
LEMMA Divisible ==
    ASSUME NEW k \in Nat \ {0}, NEW a \in Nat, a % k = 0
    PROVE  \E q \in Nat : a = k * q
  <1>1. PICK q \in Nat : a = (k * q) + (a % k)
    BY Division
  <1>2. a = k * q
    BY <1>1
  <1>3. QED
    BY <1>2

\* Two multiples are the same or at least one length apart.
LEMMA Multiples ==
    ASSUME NEW k \in Nat \ {0}, NEW p \in Nat, NEW q \in Nat, k * p < (k * q) + k, k * q < (k * p) + k
    PROVE  k * p = k * q
  OBVIOUS

\* A prefix of the size that is given out.
Aligned(p) == p \in Nat \X Nat /\ p[2] = InitialSize /\ p[1] % InitialSize = 0

\* Aligned prefixes are the same or have no address in common.
LEMMA AlignedDisjoint ==
    ASSUME NEW p, NEW q, Aligned(p), Aligned(q), NEW x \in Vl3!In(p) \cap Vl3!In(q)
    PROVE  p = q
  <1>1. InitialSize \in Nat \ {0}
    BY AllocatorsAssumption
  <1>2. p[1] \in Nat /\ q[1] \in Nat /\ p = <<p[1], InitialSize>> /\ q = <<q[1], InitialSize>>
    BY DEF Aligned
  <1>3. PICK i \in Nat : p[1] = InitialSize * i
    BY <1>1, <1>2, Divisible DEF Aligned
  <1>4. PICK j \in Nat : q[1] = InitialSize * j
    BY <1>1, <1>2, Divisible DEF Aligned
  <1>5. p[1] < q[1] + InitialSize /\ q[1] < p[1] + InitialSize
    BY <1>1, <1>2 DEF Vl3!In, Aligned
  <1>6. QED
    BY <1>1, <1>2, <1>3, <1>4, <1>5, Multiples

\* Every address is in the aligned prefix around it.
LEMMA AroundAligned ==
    ASSUME NEW a \in Nat
    PROVE  Aligned(Vl3!Around(a)) /\ a \in Vl3!In(Vl3!Around(a))
  <1>1. InitialSize \in Nat \ {0}
    BY AllocatorsAssumption
  <1>2. PICK i \in Nat : a = (InitialSize * i) + (a % InitialSize)
    BY <1>1, Division
  <1>3. a % InitialSize \in 0 .. InitialSize - 1
    BY <1>1, Division
  <1> DEFINE b == a - (a % InitialSize)
  <1>4. b = InitialSize * i /\ b \in Nat /\ b <= a /\ a <= b + InitialSize - 1
    BY <1>1, <1>2, <1>3
  <1>5. b % InitialSize = 0
    <2>1. (InitialSize * i) % InitialSize = 0
      BY <1>1
    <2>2. QED
      BY <1>4, <2>1
  <1>6. Vl3!Around(a) = <<b, InitialSize>>
    BY DEF Vl3!Around
  <1> HIDE DEF b
  <1>7. Aligned(<<b, InitialSize>>)
    BY <1>1, <1>4, <1>5 DEF Aligned
  <1>8. a \in b .. b + InitialSize - 1
    BY <1>1, <1>4
  <1>9. QED
    BY <1>6, <1>7, <1>8 DEF Vl3!In

\* The prefixes of the streams are aligned, none is given to two streams, their
\* addresses are not free, and all others are.
StreamInv ==
    /\ streamPool \in SUBSET Nat
    /\ clientsPrefixes \in [Conn -> SUBSET (Nat \X Nat)]
    /\ sized =>
        /\ \A s \in Conn : \A p \in clientsPrefixes[s] :
              /\ Aligned(p)
              /\ Vl3!In(p) \cap streamPool = {}
              /\ \A t \in Conn \ {s} : p \notin clientsPrefixes[t]
        /\ \A x \in Vl3!In(Whole) :
              x \in streamPool \/ \E s \in Conn : \E p \in clientsPrefixes[s] : x \in Vl3!In(p)

\* vl3IPAMServer begins with its whole prefix in the pool.
LEMMA StreamBegins == Vl3!StreamInit => StreamInv
  <1>1. Whole \in Nat \X Nat
    BY AllocatorsAssumption
  <1>2. Vl3!In(Whole) \in SUBSET Nat
    BY <1>1 DEF Vl3!In
  <1>3. QED
    BY <1>2 DEF Vl3!StreamInit, StreamInv

\* Aligned prefixes that differ share no address, so clients share none.
LEMMA StreamDisjoint == StreamInv => Vl3!PrefixesAreDisjoint
  <1> SUFFICES ASSUME StreamInv, sized
               PROVE  /\ \A s, t \in Conn : \A p \in clientsPrefixes[s], q \in clientsPrefixes[t] :
                            s # t => Vl3!In(p) \cap Vl3!In(q) = {}
                      /\ Vl3!In(Whole) \ UNION {Vl3!In(p) : p \in UNION {clientsPrefixes[s] : s \in Conn}}
                            \subseteq streamPool
    BY DEF Vl3!PrefixesAreDisjoint
  <1>1. ASSUME NEW s \in Conn, NEW t \in Conn, NEW p \in clientsPrefixes[s], NEW q \in clientsPrefixes[t], s # t
        PROVE  Vl3!In(p) \cap Vl3!In(q) = {}
    <2>1. Aligned(p) /\ Aligned(q) /\ p # q
      BY <1>1 DEF StreamInv
    <2>2. QED
      BY <2>1, AlignedDisjoint
  <1>2. ASSUME NEW x \in Vl3!In(Whole), x \notin UNION {Vl3!In(p) : p \in UNION {clientsPrefixes[s] : s \in Conn}}
        PROVE  x \in streamPool
    BY <1>2 DEF StreamInv
  <1>3. QED
    BY <1>1, <1>2

\* StreamInv is inductive: allocation, deletion and the end of a stream keep it.
LEMMA StreamStep ==
    ASSUME StreamInv, Vl3!StreamNext
    PROVE  StreamInv'
  <1>1. PICK s \in Conn : \/ \E p \in Asked, ex \in Avoided : Vl3!Allocate(s, p, ex)
                          \/ \E p \in clientsPrefixes[s] : Vl3!DeletePrefix(s, p)
                          \/ Vl3!Disconnect(s)
    BY DEF Vl3!StreamNext
  <1> DEFINE cp == clientsPrefixes
             Gives(q) == /\ streamPool' = streamPool \ Vl3!In(q)
                         /\ cp' = [cp EXCEPT ![s] = @ \cup {q}]
             Takes(Q) == /\ streamPool' = streamPool \cup UNION {Vl3!In(p) : p \in Q}
                         /\ cp' = [cp EXCEPT ![s] = @ \ Q]
  <1>2. UNCHANGED sized
    BY <1>1 DEF Vl3!Allocate, Vl3!DeletePrefix, Vl3!Disconnect
  <1>3. streamPool \in SUBSET Nat /\ cp \in [Conn -> SUBSET (Nat \X Nat)] /\ Asked \subseteq Nat \X Nat
    BY AllocatorsAssumption DEF StreamInv
  <1>4. \A p \in Nat \X Nat : Vl3!In(p) \in SUBSET Nat
    BY DEF Vl3!In
  <1>5. ASSUME NEW p \in Asked, NEW ex \in Avoided, NEW q \in Vl3!allocate(p, ex),
               Vl3!Allocate(s, p, ex)
        PROVE  /\ q \in Nat \X Nat
               /\ sized => Aligned(q) /\ Vl3!In(q) \cap streamPool # {}
    <2>1. CASE q = p /\ Vl3!In(p) \subseteq streamPool
      <3>1. ASSUME sized
            PROVE  Aligned(p) /\ p[1] \in Vl3!In(p)
        <4>1. p[2] = InitialSize /\ p[1] % InitialSize = 0 /\ p \in Nat \X Nat /\ InitialSize \in Nat \ {0}
          BY <1>5, <3>1, AllocatorsAssumption DEF Vl3!Allocate
        <4>2. QED
          BY <4>1 DEF Aligned, Vl3!In
      <3>2. QED
        BY <1>3, <2>1, <3>1
    <2>2. CASE streamPool \ ex # {} /\ q = Vl3!Around(Vl3!Min(streamPool \ ex))
      <3>1. Vl3!Min(streamPool \ ex) \in streamPool
        BY <1>3, <2>2, LeastExists DEF Vl3!Min
      <3>2. Aligned(q) /\ Vl3!In(q) \cap streamPool # {}
        BY <1>3, <2>2, <3>1, AroundAligned
      <3>3. QED
        BY <3>2 DEF Aligned
    <2>3. QED
      BY <1>5, <2>1, <2>2 DEF Vl3!allocate
  <1>6. \/ \E q \in Nat \X Nat : (sized => Aligned(q) /\ Vl3!In(q) \cap streamPool # {}) /\ Gives(q)
        \/ \E Q \in SUBSET cp[s] : Takes(Q)
    <2>1. ASSUME NEW p \in Asked, NEW ex \in Avoided, Vl3!Allocate(s, p, ex)
          PROVE  \/ \E q \in Nat \X Nat : (sized => Aligned(q) /\ Vl3!In(q) \cap streamPool # {}) /\ Gives(q)
                 \/ Vl3!Disconnect(s)
      BY <1>5, <2>1 DEF Vl3!Allocate
    <2>2. ASSUME NEW p \in cp[s], Vl3!DeletePrefix(s, p)
          PROVE  Takes({p})
      BY <2>2 DEF Vl3!DeletePrefix
    <2>3. ASSUME Vl3!Disconnect(s)
          PROVE  Takes(cp[s])
      BY <1>3, <2>3 DEF Vl3!Disconnect
    <2> HIDE DEF Gives, Takes
    <2>4. QED
      BY <1>1, <2>1, <2>2, <2>3
  <1>7. ASSUME NEW q \in Nat \X Nat, sized => Aligned(q) /\ Vl3!In(q) \cap streamPool # {}, Gives(q)
        PROVE  StreamInv'
    <2>1. streamPool' \in SUBSET Nat /\ cp' \in [Conn -> SUBSET (Nat \X Nat)]
      BY <1>3, <1>7
    <2>2. \A t \in Conn : cp'[t] = IF t = s THEN cp[t] \cup {q} ELSE cp[t]
      BY <1>3, <1>7
    <2>3. ASSUME sized, NEW t \in Conn, NEW p \in cp'[t]
          PROVE  /\ Aligned(p)
                 /\ Vl3!In(p) \cap streamPool' = {}
                 /\ \A u \in Conn \ {t} : p \notin cp'[u]
      <3>1. \A u \in Conn : q \notin cp[u]
        BY <1>7, <2>3 DEF StreamInv
      <3>2. QED
        BY <1>7, <2>2, <2>3, <3>1 DEF StreamInv
    <2>4. ASSUME sized, NEW x \in Vl3!In(Whole)
          PROVE  x \in streamPool' \/ \E t \in Conn : \E p \in cp'[t] : x \in Vl3!In(p)
      BY <1>7, <2>2, <2>4 DEF StreamInv
    <2>5. QED
      BY <1>2, <2>1, <2>3, <2>4 DEF StreamInv
  <1>8. ASSUME NEW Q \in SUBSET cp[s], Takes(Q)
        PROVE  StreamInv'
    <2>1. streamPool' \in SUBSET Nat /\ cp' \in [Conn -> SUBSET (Nat \X Nat)]
      BY <1>3, <1>4, <1>8
    <2>2. \A t \in Conn : cp'[t] = IF t = s THEN cp[t] \ Q ELSE cp[t]
      BY <1>3, <1>8
    <2>3. ASSUME sized, NEW t \in Conn, NEW p \in cp'[t]
          PROVE  /\ Aligned(p)
                 /\ Vl3!In(p) \cap streamPool' = {}
                 /\ \A u \in Conn \ {t} : p \notin cp'[u]
      <3>1. p \in cp[t] /\ Aligned(p) /\ p \notin Q
        BY <2>2, <2>3 DEF StreamInv
      <3>2. \A r \in Q : Aligned(r) /\ Vl3!In(p) \cap Vl3!In(r) = {}
        BY <1>8, <2>3, <3>1, AlignedDisjoint DEF StreamInv
      <3>3. Vl3!In(p) \cap streamPool = {} /\ \A u \in Conn \ {t} : p \notin cp[u]
        BY <2>3, <3>1 DEF StreamInv
      <3>4. QED
        BY <1>8, <2>2, <3>1, <3>2, <3>3
    <2>4. ASSUME sized, NEW x \in Vl3!In(Whole)
          PROVE  x \in streamPool' \/ \E t \in Conn : \E p \in cp'[t] : x \in Vl3!In(p)
      <3>1. x \in streamPool \/ \E t \in Conn : \E p \in cp[t] : x \in Vl3!In(p)
        BY <2>4 DEF StreamInv
      <3>2. QED
        BY <1>8, <2>2, <3>1
    <2>5. QED
      BY <1>2, <2>1, <2>3, <2>4 DEF StreamInv
  <1>9. QED
    <2> HIDE DEF Gives, Takes
    <2>1. QED
      BY <1>6, <1>7, <1>8

-----------------------------------------------------------------------------
(* vl3Server.                                                              *)

\* The first address of a prefix is one of its addresses.
LEMMA Vl3Min ==
    ASSUME NEW S \in SUBSET Nat, S # {}
    PROVE  Vl3!Min(S) \in S
  BY LeastExists DEF Vl3!Min

\* All addresses there are, of the prefixes the IPAM had and of another endpoint.
Known == (UNION used) \cup {Foreign}

\* The addresses that a connection of vl3Server has or is about to get.
AddressesOf(c) == srcs[c] \cup vl3Call[c].srcs

\* The variables of vl3Server have their types.
ServerType ==
    /\ self \in used /\ used \in SUBSET Subnets
    /\ ipPool \in SUBSET self /\ excluded \in SUBSET self
    /\ ipPool \cap excluded = {}
    /\ srcs \in [Conn -> SUBSET Known]
    /\ vl3Call \in [Conn -> [pc : {"idle", "store", "next"}, srcs : SUBSET Known]]
    /\ \A c \in Conn : vl3Call[c].pc = "idle" => vl3Call[c].srcs = {}

\* The addresses of the current prefix that connections have are excluded, as the
\* one of the endpoint is, and each has one owner.
ServerInv ==
    /\ ServerType
    /\ ~ renewed =>
        /\ Vl3!selfAddress \in excluded
        /\ \A c \in Conn :
              /\ AddressesOf(c) \cap self \subseteq excluded \ {Vl3!selfAddress}
              /\ \A d \in Conn \ {c} : AddressesOf(c) \cap AddressesOf(d) \cap self = {}

\* vl3Server begins with its own address excluded and no other given out.
LEMMA ServerBegins == Vl3!Init => ServerInv
  <1> SUFFICES ASSUME Vl3!Init
               PROVE  ServerInv
    OBVIOUS
  <1>1. Vl3!selfAddress \in self
    BY AllocatorsAssumption, Vl3Min DEF Vl3!Init, Vl3!selfAddress
  <1>2. ServerType
    BY <1>1 DEF Vl3!Init, Vl3!IdleCall, ServerType
  <1>3. \A c \in Conn : AddressesOf(c) = {}
    BY DEF Vl3!Init, Vl3!IdleCall, AddressesOf
  <1>4. QED
    BY <1>2, <1>3 DEF Vl3!Init, ServerInv

\* Addresses of the current prefix have one owner, so connections share none of them.
LEMMA ServerUnshared == ServerInv => Vl3!NoSharedVL3Address
  <1> SUFFICES ASSUME ServerInv, ~ renewed, NEW c \in Conn
               PROVE  /\ \A d \in Conn \ {c} : srcs[c] \cap srcs[d] \cap self = {}
                      /\ srcs[c] \cap (ipPool \cup {Vl3!selfAddress}) = {}
    BY DEF Vl3!NoSharedVL3Address
  <1>1. \A d \in Conn : srcs[d] \subseteq AddressesOf(d)
    BY DEF AddressesOf
  <1>2. Vl3!selfAddress \in self
    BY DEF ServerInv, ServerType
  <1>3. QED
    BY <1>1, <1>2 DEF ServerInv, ServerType

\* ServerInv is inductive: Reset, Request, its end and Close keep it.
LEMMA ServerStep ==
    ASSUME ServerInv, Vl3!ServerNext
    PROVE  ServerInv'
  <1> DEFINE Calls(K) == [pc : {"idle", "store", "next"}, srcs : SUBSET K]
  <1>1. ServerType /\ \A net \in Subnets : net \in SUBSET Nat /\ net # {} /\ Foreign \notin net
    BY AllocatorsAssumption DEF ServerInv
  <1>2. ASSUME NEW net \in Subnets, Vl3!Reset(net)
        PROVE  ServerInv'
    <2>1. Vl3!Min(net) \in net
      BY <1>1, Vl3Min
    <2>2. Vl3!selfAddress' = Vl3!Min(net) /\ self' = net /\ UNCHANGED <<renewed, srcs, vl3Call>> /\ Known \subseteq Known'
      BY <1>2 DEF Vl3!Reset, Vl3!selfAddress, Known
    <2>3. ServerType'
      BY <1>1, <1>2, <2>1, <2>2 DEF Vl3!Reset, ServerType
    <2>4. ~ renewed => \A c \in Conn : AddressesOf(c)' \cap net = {}
      <3>1. ASSUME ~ renewed
            PROVE  Known \cap net = {}
        <4>1. net \notin used /\ used \in SUBSET Subnets
          BY <1>1, <1>2, <3>1 DEF Vl3!Reset, ServerType
        <4>2. \A other \in used : other \cap net = {}
          BY <4>1, AllocatorsAssumption
        <4>3. QED
          BY <1>1, <4>2 DEF Known
      <3>2. \A c \in Conn : AddressesOf(c)' \subseteq Known
        BY <1>1, <2>2 DEF AddressesOf, ServerType
      <3>3. QED
        BY <3>1, <3>2
    <2>5. Vl3!selfAddress' \in excluded'
      BY <1>2, <2>2 DEF Vl3!Reset
    <2>6. QED
      BY <2>2, <2>3, <2>4, <2>5 DEF ServerInv
  <1>3. ASSUME NEW c \in Conn, NEW as \in SUBSET Known, NEW e \in BOOLEAN, Vl3!ServerRequest(c, as, e),
               as \cap self \subseteq srcs[c]
        PROVE  ServerInv'
    <2>1. UNCHANGED <<renewed, used, self, srcs, Known, Vl3!selfAddress>>
      BY <1>3 DEF Vl3!ServerRequest, Known, Vl3!selfAddress
    <2>2. CASE UNCHANGED <<ipPool, excluded>> /\ vl3Call' = [vl3Call EXCEPT ![c] = [pc |-> "next", srcs |-> as]]
      <3>1. ServerType'
        BY <1>1, <2>1, <2>2 DEF ServerType
      <3>2. \A d \in Conn : AddressesOf(d)' \cap self \subseteq AddressesOf(d) \cap self
        BY <1>1, <1>3, <2>1, <2>2 DEF ServerType, AddressesOf
      <3>3. QED
        BY <2>1, <2>2, <3>1, <3>2 DEF ServerInv
    <2>3. ASSUME NEW rest \in SUBSET as, ipPool # {}, ipPool' = ipPool \ {Vl3!allocated}, excluded' = excluded \cup {Vl3!allocated},
                 vl3Call' = [vl3Call EXCEPT ![c] = [pc |-> "store", srcs |-> rest \cup {Vl3!allocated}]]
          PROVE  ServerInv'
      <3> DEFINE a == Vl3!allocated
      <3>1. a \in ipPool /\ a \in self /\ a \in Known /\ a \notin excluded
        BY <1>1, <2>3, Vl3Min DEF ServerType, Vl3!allocated, Known
      <3> HIDE DEF a
      <3>2. ServerType'
        BY <1>1, <2>1, <2>3, <3>1 DEF ServerType, a
      <3>3. \A d \in Conn : AddressesOf(d)' \cap self \subseteq (AddressesOf(d) \cap self) \cup (IF d = c THEN {a} ELSE {})
        BY <1>1, <1>3, <2>1, <2>3 DEF ServerType, AddressesOf, a
      <3>4. QED
        BY <2>1, <2>3, <3>1, <3>2, <3>3 DEF ServerInv, a
    <2>4. QED
      BY <1>3, <2>2, <2>3 DEF Vl3!ServerRequest, Vl3!removePrevious
  <1>4. ASSUME NEW c \in Conn, Vl3!ServerStore(c)
        PROVE  ServerInv'
    <2>1. UNCHANGED <<renewed, used, self, srcs, Known, Vl3!selfAddress, ipPool, excluded>>
      BY <1>4 DEF Vl3!ServerStore, Known, Vl3!selfAddress
    <2>2. \A d \in Conn : vl3Call'[d].srcs = vl3Call[d].srcs /\ vl3Call'[d] \in Calls(Known)
      BY <1>1, <1>4 DEF Vl3!ServerStore, ServerType
    <2>3. ServerType'
      BY <1>1, <1>4, <2>1, <2>2 DEF Vl3!ServerStore, ServerType
    <2>4. \A d \in Conn : AddressesOf(d)' = AddressesOf(d)
      BY <2>1, <2>2 DEF AddressesOf
    <2>5. QED
      BY <2>1, <2>3, <2>4 DEF ServerInv
  <1>5. ASSUME NEW c \in Conn, Vl3!ServerSuccess(c) \/ Vl3!ServerFailure(c)
        PROVE  ServerInv'
    <2>1. UNCHANGED <<renewed, used, self, Known, Vl3!selfAddress, ipPool, excluded>>
      BY <1>5 DEF Vl3!ServerSuccess, Vl3!ServerFailure, Known, Vl3!selfAddress
    <2>2. /\ vl3Call' = [vl3Call EXCEPT ![c] = Vl3!IdleCall]
          /\ srcs' = srcs \/ srcs' = [srcs EXCEPT ![c] = vl3Call[c].srcs]
      BY <1>5 DEF Vl3!ServerSuccess, Vl3!ServerFailure
    <2>3. ServerType'
      BY <1>1, <2>1, <2>2 DEF ServerType, Vl3!IdleCall
    <2>4. \A d \in Conn : AddressesOf(d)' \subseteq AddressesOf(d)
      BY <1>1, <2>2 DEF AddressesOf, ServerType, Vl3!IdleCall
    <2>5. QED
      BY <2>1, <2>3, <2>4 DEF ServerInv
  <1>6. ASSUME NEW c \in Conn, Vl3!ServerClose(c)
        PROVE  ServerInv'
    <2>1. UNCHANGED <<renewed, used, self, Known, Vl3!selfAddress, vl3Call>>
      BY <1>6 DEF Vl3!ServerClose, Known, Vl3!selfAddress
    <2>2. /\ excluded' = excluded \ srcs[c] /\ ipPool' = ipPool \cup (srcs[c] \cap excluded)
          /\ srcs' = [srcs EXCEPT ![c] = {}] /\ vl3Call[c].srcs = {}
      BY <1>1, <1>6 DEF Vl3!ServerClose, Vl3!freeIfAllocated, ServerType
    <2>3. ServerType'
      BY <1>1, <2>1, <2>2 DEF ServerType
    <2>4. \A d \in Conn : AddressesOf(d)' = IF d = c THEN {} ELSE AddressesOf(d)
      BY <1>1, <2>1, <2>2 DEF AddressesOf, ServerType
    <2>5. srcs[c] = AddressesOf(c) /\ excluded \subseteq self
      BY <1>1, <2>2 DEF AddressesOf, ServerType
    <2>6. QED
      BY <2>1, <2>2, <2>3, <2>4, <2>5 DEF ServerInv
  <1>7. QED
    <2>1. \A c \in Conn : srcs[c] \in SUBSET Known /\ {Foreign} \in SUBSET Known /\ Foreign \notin self
      BY <1>1 DEF ServerType, Known
    <2>2. QED
      BY <1>2, <1>3, <1>4, <1>5, <1>6, <2>1 DEF Vl3!ServerNext

-----------------------------------------------------------------------------
(* vl3Client.                                                              *)

\* The variables of vl3Client have their types.
PeerType ==
    /\ round \in [Peer -> Nat] /\ cancel \in [Peer -> Nat]
    /\ peer \in [Peer -> [pc : {"idle", "failed", "subscribed", "next"}, self : Subnets \cup {NoNet}]]
    /\ told \in [Peer -> Subnets \cup {NoNet}]
    /\ self \in Subnets
    /\ subs \in SUBSET (Peer \X Nat) /\ done \in SUBSET (Peer \X Nat) /\ queued \in SUBSET (Peer \X Nat)

\* The subscription of the Request that is current stands as long as the connection
\* does, and its event is queued if the prefix has changed since it was read.
PeerInv ==
    /\ PeerType
    /\ \A e \in done : e[2] <= round[e[1]]
    /\ \A p \in Peer :
        /\ cancel[p] <= round[p]
        /\ cancel[p] # 0 => <<p, cancel[p]>> \in subs /\ <<p, cancel[p]>> \notin done
        /\ told[p] # NoNet \/ peer[p].pc \in {"subscribed", "next"} => cancel[p] # 0
        /\ peer[p].pc = "next" /\ peer[p].self # self => <<p, cancel[p]>> \in queued
        /\ peer[p].pc = "idle" /\ told[p] \notin {self, NoNet} => <<p, cancel[p]>> \in queued

\* No peer has been told of a prefix yet.
LEMMA PeerBegins == Vl3!Init => PeerInv
  <1> SUFFICES ASSUME Vl3!Init
               PROVE  PeerInv
    OBVIOUS
  <1>1. PeerType
    BY DEF Vl3!Init, Vl3!IdlePeer, PeerType
  <1>2. \A p \in Peer : cancel[p] = 0 /\ round[p] = 0 /\ told[p] = NoNet /\ peer[p].pc = "idle"
    BY DEF Vl3!Init, Vl3!IdlePeer
  <1>3. done = {}
    BY DEF Vl3!Init
  <1>4. QED
    BY <1>1, <1>2, <1>3 DEF PeerInv

\* Subscribe, whether a call or an event asks for it.
LEMMA PeerSubscribes ==
    ASSUME PeerInv, NEW p \in Peer, Vl3!Subscribe(p), queued' \in SUBSET queued,
           \A q \in Peer \ {p}, n \in Nat : <<q, n>> \in queued => <<q, n>> \in queued'
    PROVE  PeerInv'
  <1> DEFINE n == round[p] + 1
  <1>1. PeerType
    BY DEF PeerInv
  <1>2. n \in Nat /\ n # 0 /\ n > round[p] /\ round[p] \in Nat
    BY <1>1 DEF PeerType
  <1> HIDE DEF n
  <1>3. /\ round' = [round EXCEPT ![p] = n] /\ cancel' = [cancel EXCEPT ![p] = n]
        /\ subs' = subs \cup {<<p, n>>}
        /\ peer' = [peer EXCEPT ![p] = [pc |-> "subscribed", self |-> NoNet]]
        /\ UNCHANGED <<self, told>>
    BY <1>1 DEF Vl3!Subscribe, n, PeerType
  <1>4. done' = done \/ done' = done \cup {<<p, cancel[p]>>}
    BY DEF Vl3!Subscribe, Vl3!CancelOld
  <1>5. PeerType'
    BY <1>1, <1>2, <1>3, <1>4 DEF PeerType
  <1>6. \A e \in done' : e \in Peer \X Nat /\ e[2] <= round'[e[1]]
    <2> SUFFICES ASSUME NEW e \in done'
                 PROVE  e[2] <= round'[e[1]]
      BY <1>5 DEF PeerType
    <2>1. e \in Peer \X Nat
      BY <1>5 DEF PeerType
    <2>2. e[2] <= round[e[1]]
      BY <1>4 DEF PeerInv
    <2>3. e[1] \in Peer /\ e[2] \in Nat /\ round[e[1]] \in Nat
      BY <1>1, <2>1 DEF PeerType
    <2>4. round'[e[1]] = IF e[1] = p THEN n ELSE round[e[1]]
      BY <1>1, <1>3, <2>3 DEF PeerType
    <2>5. QED
      BY <1>2, <2>2, <2>3, <2>4
  <1>7. <<p, n>> \notin done'
    <2>1. <<p, n>> \notin done
      BY <1>2 DEF PeerInv
    <2>2. cancel[p] \in Nat /\ cancel[p] <= round[p]
      BY <1>1 DEF PeerInv, PeerType
    <2>3. cancel[p] # n
      BY <1>2, <2>2
    <2>4. QED
      BY <1>4, <2>1, <2>3
  <1>8. ASSUME NEW q \in Peer
        PROVE  /\ cancel'[q] <= round'[q]
               /\ cancel'[q] # 0 => <<q, cancel'[q]>> \in subs' /\ <<q, cancel'[q]>> \notin done'
               /\ told'[q] # NoNet \/ peer'[q].pc \in {"subscribed", "next"} => cancel'[q] # 0
               /\ peer'[q].pc = "next" /\ peer'[q].self # self' => <<q, cancel'[q]>> \in queued'
               /\ peer'[q].pc = "idle" /\ told'[q] \notin {self', NoNet} => <<q, cancel'[q]>> \in queued'
    <2>1. CASE q = p
      <3>1. cancel'[q] = n /\ round'[q] = n /\ peer'[q].pc = "subscribed"
        BY <1>1, <1>3, <2>1 DEF PeerType
      <3>2. QED
        BY <1>2, <1>3, <1>7, <2>1, <3>1
    <2>2. CASE q # p
      <3>1. cancel'[q] = cancel[q] /\ round'[q] = round[q] /\ peer'[q] = peer[q] /\ cancel[q] \in Nat
        BY <1>1, <1>3, <2>2 DEF PeerType
      <3>2. <<q, cancel[q]>> \in queued => <<q, cancel[q]>> \in queued'
        BY <2>2, <3>1
      <3>3. QED
        BY <1>3, <1>4, <2>2, <3>1, <3>2 DEF PeerInv
    <2>3. QED
      BY <2>1, <2>2
  <1>9. QED
    BY <1>5, <1>6, <1>8 DEF PeerInv

\* PeerInv is inductive: Reset, calls, cancellation and events of vl3Client keep it.
LEMMA PeerStep ==
    ASSUME PeerInv, Vl3!ClientNext
    PROVE  PeerInv'
  <1>1. PeerType
    BY DEF PeerInv
  <1>2. ASSUME NEW net \in Subnets, Vl3!Reset(net)
        PROVE  PeerInv'
    <2>1. UNCHANGED <<subs, round, cancel, done, peer, told>> /\ queued' = queued \cup subs /\ self' = net
      BY <1>2 DEF Vl3!Reset
    <2>2. PeerType'
      BY <1>1, <2>1 DEF PeerType
    <2>3. QED
      BY <2>1, <2>2 DEF PeerInv
  <1>3. ASSUME NEW p \in Peer, Vl3!ClientRequest(p)
        PROVE  PeerInv'
    BY <1>1, <1>3, PeerSubscribes DEF Vl3!ClientRequest, PeerType
  <1>4. ASSUME NEW p \in Peer, Vl3!ReadSelf(p)
        PROVE  PeerInv'
    <2>1. UNCHANGED <<subs, round, cancel, done, told, queued, self>> /\ peer[p].pc = "subscribed"
      BY <1>4 DEF Vl3!ReadSelf
    <2>2. PICK f : f = [peer EXCEPT ![p].pc = "next"] /\ peer' = [f EXCEPT ![p].self = self]
      BY <1>4 DEF Vl3!ReadSelf
    <2>3. peer' = [f EXCEPT ![p].self = self] /\ self \in Subnets
      BY <1>1, <2>2 DEF PeerType
    <2>4. f \in [Peer -> [pc : {"idle", "failed", "subscribed", "next"}, self : Subnets \cup {NoNet}]]
          /\ f[p].pc = "next" /\ \A q \in Peer \ {p} : f[q] = peer[q]
      BY <1>1, <2>2 DEF PeerType
    <2>5. peer' \in [Peer -> [pc : {"idle", "failed", "subscribed", "next"}, self : Subnets \cup {NoNet}]]
          /\ peer'[p].pc = "next" /\ peer'[p].self = self /\ \A q \in Peer \ {p} : peer'[q] = peer[q]
      BY <2>3, <2>4
    <2>6. PeerType'
      BY <1>1, <2>1, <2>5 DEF PeerType
    <2>7. QED
      BY <2>1, <2>5, <2>6 DEF PeerInv
  <1>5. ASSUME NEW p \in Peer, Vl3!ClientSuccess(p)
        PROVE  PeerInv'
    <2>1. UNCHANGED <<subs, round, cancel, done, queued, self>> /\ peer[p].pc = "next" /\ peer[p].self \in Subnets \cup {NoNet}
      BY <1>1, <1>5 DEF Vl3!ClientSuccess, PeerType
    <2>2. /\ told' = [told EXCEPT ![p] = peer[p].self]
          /\ peer' = [peer EXCEPT ![p] = Vl3!IdlePeer]
      BY <1>5 DEF Vl3!ClientSuccess
    <2>3. PeerType'
      BY <1>1, <2>1, <2>2 DEF PeerType, Vl3!IdlePeer
    <2>4. \A q \in Peer : /\ told'[q] = IF q = p THEN peer[p].self ELSE told[q]
                          /\ peer'[q] = IF q = p THEN Vl3!IdlePeer ELSE peer[q]
      BY <1>1, <2>2 DEF PeerType
    <2>5. Vl3!IdlePeer.pc = "idle"
      BY DEF Vl3!IdlePeer
    <2>6. QED
      BY <2>1, <2>3, <2>4, <2>5 DEF PeerInv
  <1>6. ASSUME NEW p \in Peer, Vl3!ClientFailure(p)
        PROVE  PeerInv'
    <2>1. UNCHANGED <<subs, round, done, queued, told, self>>
      BY <1>6 DEF Vl3!ClientFailure
    <2>2. /\ cancel' = IF told[p] = NoNet THEN [cancel EXCEPT ![p] = 0] ELSE cancel
          /\ peer' = [peer EXCEPT ![p] = [pc |-> "failed", self |-> NoNet]]
      BY <1>6 DEF Vl3!ClientFailure
    <2>3. PeerType'
      BY <1>1, <2>1, <2>2 DEF PeerType
    <2>4. \A q \in Peer : /\ cancel'[q] = IF q = p /\ told[p] = NoNet THEN 0 ELSE cancel[q]
                          /\ peer'[q] = IF q = p THEN [pc |-> "failed", self |-> NoNet] ELSE peer[q]
                          /\ round[q] \in Nat
      BY <1>1, <2>2 DEF PeerType
    <2>5. QED
      BY <2>1, <2>3, <2>4 DEF PeerInv
  <1>7. ASSUME NEW p \in Peer, Vl3!ClientClose(p)
        PROVE  PeerInv'
    <2>1. UNCHANGED <<subs, round, peer, queued, self>> /\ peer[p].pc \notin {"subscribed", "next"}
      BY <1>7 DEF Vl3!ClientClose, Vl3!AtRest
    <2>2. /\ cancel' = [cancel EXCEPT ![p] = 0] /\ told' = [told EXCEPT ![p] = NoNet]
          /\ done' = done \/ done' = done \cup {<<p, cancel[p]>>}
      BY <1>7 DEF Vl3!ClientClose, Vl3!CancelOld
    <2>3. PeerType'
      BY <1>1, <2>1, <2>2 DEF PeerType
    <2>4. \A q \in Peer : /\ cancel'[q] = IF q = p THEN 0 ELSE cancel[q]
                          /\ told'[q] = IF q = p THEN NoNet ELSE told[q]
                          /\ round[q] \in Nat
      BY <1>1, <2>2 DEF PeerType
    <2>5. \A e \in done' : e[2] <= round'[e[1]]
      BY <2>1, <2>2 DEF PeerInv
    <2>6. QED
      BY <2>1, <2>2, <2>3, <2>4, <2>5 DEF PeerInv
  <1>8. ASSUME NEW e \in subs, Vl3!Unsubscribe(e)
        PROVE  PeerInv'
    <2>1. UNCHANGED <<round, cancel, done, peer, told, queued, self>> /\ subs' = subs \ {e} /\ e \in done
      BY <1>8 DEF Vl3!Unsubscribe, Vl3!clientVars
    <2>2. PeerType'
      BY <1>1, <2>1 DEF PeerType
    <2>3. QED
      BY <2>1, <2>2 DEF PeerInv
  <1>9. ASSUME NEW e \in queued, Vl3!ClientEvent(e)
        PROVE  PeerInv'
    <2>1. PICK p \in Peer, n \in Nat : e = <<p, n>>
      BY <1>1 DEF PeerType
    <2>2. queued' = queued \ {<<p, n>>}
      BY <1>9, <2>1 DEF Vl3!ClientEvent
    <2>3. CASE Vl3!Subscribe(p)
      BY <2>2, <2>3, PeerSubscribes
    <2>4. CASE ~(n = cancel[p] /\ told[p] # NoNet) /\ UNCHANGED <<self, subs, Vl3!clientVars>>
      <3>1. UNCHANGED <<self, subs, round, cancel, done, peer, told>> /\ peer[p].pc # "next"
        BY <1>9, <2>1, <2>4 DEF Vl3!clientVars, Vl3!ClientEvent, Vl3!AtRest
      <3>2. PeerType'
        BY <1>1, <2>2, <3>1 DEF PeerType
      <3>3. QED
        BY <2>2, <2>4, <3>1, <3>2 DEF PeerInv
    <2>5. QED
      BY <1>9, <2>1, <2>3, <2>4 DEF Vl3!ClientEvent
  <1>10. QED
    BY <1>2, <1>3, <1>4, <1>5, <1>6, <1>7, <1>8, <1>9 DEF Vl3!ClientNext

-----------------------------------------------------------------------------
(* Descriptors.                                                            *)

\* Maps of recvfd: the descriptor of each file, and the file of each name.
Maps == [files : [File -> 0 .. MaxFd], names : [1 .. MaxFd -> File \cup {None}]]

\* Calls that carry files.
TransferCalls ==
    [op : {"none", "Request", "Close"}, at : {"none", "next", "recv", "swap"}, todo : Seq(File),
     prefs : SUBSET File, file : File \cup {None}, done : BOOLEAN]

\* Descriptors and maps have their types.
FileType ==
    /\ fds \in [Files!Fd -> [conn : Conn, file : File] \cup {None}]
    /\ fileMaps \in [Conn -> Maps \cup {None}]
    /\ orphans \in SUBSET Files!Fd /\ strays \in SUBSET Files!Fd

\* What a map holds is open, and is what the map says; what a goroutine of Close will
\* close is open and in no map.
MapsAreSound ==
    /\ \A c \in Conn, f \in File : fileMaps[c] # None /\ fileMaps[c].files[f] # 0 =>
          fds[fileMaps[c].files[f]] = [conn |-> c, file |-> f]
    /\ \A n \in orphans : fds[n] # None /\ \A c \in Conn : n \notin Files!FilesOf(c)

\* Descriptors and maps, between calls and in the middle of them.
FilesInv == FileType /\ MapsAreSound /\ Files!OpenFilesAreOwned

\* The descriptors that a map of recvfd holds.
LEMMA FilesOfMap ==
    ASSUME NEW c \in Conn, FileType
    PROVE  /\ Files!FilesOf(c) \in SUBSET Files!Fd
           /\ \A n : n \in Files!FilesOf(c) <=>
                 fileMaps[c] # None /\ n # 0 /\ \E f \in File : fileMaps[c].files[f] = n
  <1>1. CASE fileMaps[c] = None
    BY <1>1 DEF Files!FilesOf
  <1>2. CASE fileMaps[c] # None
    <2>1. fileMaps[c].files \in [File -> 0 .. MaxFd]
      BY <1>2 DEF FileType, Maps
    <2>2. Files!Range(fileMaps[c].files) = {fileMaps[c].files[f] : f \in File}
      BY <2>1 DEF Files!Range
    <2>3. \A f \in File : fileMaps[c].files[f] # 0 => fileMaps[c].files[f] \in Files!Fd
      BY <2>1, AllocatorsAssumption DEF Files!Fd
    <2>4. QED
      BY <1>2, <2>2, <2>3 DEF Files!FilesOf
  <1>3. QED
    BY <1>1, <1>2

\* What a map holds is of its connection, so no other has it.
LEMMA FilesHaveConn ==
    ASSUME FileType, MapsAreSound, NEW c \in Conn, NEW n \in Files!FilesOf(c)
    PROVE  /\ n \in Files!Fd /\ fds[n] # None /\ fds[n].conn = c
           /\ \A d \in Conn \ {c} : n \notin Files!FilesOf(d)
           /\ n \notin orphans
  <1>1. \A d \in Conn : n \in Files!FilesOf(d) => n \in Files!Fd /\ \E f \in File : fds[n] = [conn |-> d, file |-> f]
    BY FilesOfMap DEF MapsAreSound
  <1>2. PICK f \in File : fds[n] = [conn |-> c, file |-> f]
    BY <1>1
  <1>3. fds[n] # None /\ fds[n].conn = c
    BY <1>2, AllocatorsAssumption
  <1>4. ASSUME NEW d \in Conn, n \in Files!FilesOf(d)
        PROVE  d = c
    <2>1. PICK g \in File : fds[n] = [conn |-> d, file |-> g]
      BY <1>1, <1>4
    <2>2. fds[n].conn = d
      BY <2>1
    <2>3. QED
      BY <1>3, <2>2
  <1>5. n \notin orphans
    BY DEF MapsAreSound
  <1>6. QED
    BY <1>1, <1>3, <1>4, <1>5

\* A map is made, or nothing happens.
LEMMA MapIsMade ==
    ASSUME FilesInv, NEW c \in Conn, UNCHANGED <<fds, orphans, strays>>,
           \/ fileMaps' = fileMaps
           \/ fileMaps[c] = None /\ fileMaps' = [fileMaps EXCEPT ![c] = Files!NewMap]
    PROVE  FilesInv' /\ \A d \in Conn : fileMaps[d] # None => fileMaps'[d] = fileMaps[d]
  <1>1. FileType /\ MapsAreSound
    BY DEF FilesInv
  <1>2. Files!NewMap \in Maps /\ Files!NewMap # None /\ \A f \in File : Files!NewMap.files[f] = 0
    BY AllocatorsAssumption DEF Files!NewMap, Maps, Files!Fd
  <1>3. \A d \in Conn : fileMaps'[d] = fileMaps[d] \/ (fileMaps[d] = None /\ fileMaps'[d] = Files!NewMap)
    BY <1>1 DEF FileType
  <1>4. FileType'
    BY <1>1, <1>2 DEF FileType
  <1>5. \A d \in Conn : Files!FilesOf(d)' = Files!FilesOf(d)
    <2> SUFFICES ASSUME NEW d \in Conn
                 PROVE  Files!FilesOf(d)' = Files!FilesOf(d)
      OBVIOUS
    <2>1. CASE fileMaps'[d] = fileMaps[d]
      BY <2>1 DEF Files!FilesOf
    <2>2. CASE fileMaps[d] = None /\ fileMaps'[d] = Files!NewMap
      <3>1. Files!FilesOf(d) = {}
        BY <2>2 DEF Files!FilesOf
      <3>2. \A x \in Files!Range(Files!NewMap.files) : x = 0
        BY DEF Files!Range, Files!NewMap
      <3>3. QED
        BY <1>2, <2>2, <3>1, <3>2 DEF Files!FilesOf
    <2>3. QED
      BY <1>3, <2>1, <2>2
  <1>6. MapsAreSound'
    BY <1>1, <1>2, <1>3, <1>5 DEF MapsAreSound
  <1>7. Files!OpenFilesAreOwned'
    BY <1>1, <1>5 DEF FilesInv, Files!OpenFilesAreOwned, FileType
  <1>8. QED
    BY <1>3, <1>4, <1>6, <1>7 DEF FilesInv

\* What storing a descriptor does to a map.
Stored(m, c, f, n) == [m EXCEPT ![c].files[f] = n, ![c].names[n] = f]

\* A map that a descriptor is stored in holds it, and what it held for other files.
LEMMA MapStores ==
    ASSUME NEW m \in [Conn -> Maps \cup {None}], NEW c \in Conn, NEW f \in File, NEW n \in Files!Fd, m[c] \in Maps,
           NEW new, new = Stored(m, c, f, n)
    PROVE  /\ new \in [Conn -> Maps \cup {None}] /\ new[c] \in Maps
           /\ \A g \in File : new[c].files[g] = IF g = f THEN n ELSE m[c].files[g]
           /\ \A d \in Conn \ {c} : new[d] = m[d]
  <1>1. n \in 0 .. MaxFd /\ n \in 1 .. MaxFd
    BY AllocatorsAssumption DEF Files!Fd
  <1>2. PICK r : r = [m[c] EXCEPT !.files = [m[c].files EXCEPT ![f] = n]]
    OBVIOUS
  <1>3. r \in Maps /\ \A g \in File : r.files[g] = IF g = f THEN n ELSE m[c].files[g]
    BY <1>1, <1>2 DEF Maps
  <1>4. PICK one : one = [m EXCEPT ![c] = r]
    OBVIOUS
  <1>5. one \in [Conn -> Maps \cup {None}] /\ one[c] = r /\ \A d \in Conn \ {c} : one[d] = m[d]
    BY <1>3, <1>4
  <1>6. PICK s : s = [one[c] EXCEPT !.names = [one[c].names EXCEPT ![n] = f]]
    OBVIOUS
  <1>7. s \in Maps /\ s.files = r.files
    BY <1>1, <1>3, <1>5, <1>6 DEF Maps
  <1>8. new = [one EXCEPT ![c] = s]
    BY <1>2, <1>4, <1>6 DEF Stored
  <1>9. new \in [Conn -> Maps \cup {None}] /\ new[c] = s /\ \A d \in Conn \ {c} : new[d] = one[d]
    BY <1>5, <1>7, <1>8
  <1>10. /\ new[c] \in Maps
         /\ \A g \in File : new[c].files[g] = IF g = f THEN n ELSE m[c].files[g]
         /\ \A d \in Conn \ {c} : new[d] = m[d]
    BY <1>3, <1>5, <1>7, <1>9
  <1>11. QED
    BY <1>9, <1>10

\* A file arrives: the first descriptor that is free.
LEMMA FileArrives ==
    ASSUME FilesInv, NEW c \in Conn, NEW f \in File, NEW n \in Files!Fd,
           fileMaps[c] # None, fileMaps[c].files[f] = 0, fds[n] = None,
           fds' = [fds EXCEPT ![n] = [conn |-> c, file |-> f]],
           fileMaps' \in [Conn -> Maps \cup {None}], fileMaps'[c] \in Maps,
           \A g \in File : fileMaps'[c].files[g] = IF g = f THEN n ELSE fileMaps[c].files[g],
           \A d \in Conn \ {c} : fileMaps'[d] = fileMaps[d],
           UNCHANGED orphans, strays \in SUBSET strays', strays' \in SUBSET Files!Fd
    PROVE  FilesInv' /\ Files!FilesOf(c)' = Files!FilesOf(c) \cup {n}
  <1>1. FileType /\ MapsAreSound /\ n # 0
    BY AllocatorsAssumption DEF FilesInv, Files!Fd
  <1>5. /\ \A g \in File : fileMaps'[c].files[g] = IF g = f THEN n ELSE fileMaps[c].files[g]
        /\ \A d \in Conn \ {c} : fileMaps'[d] = fileMaps[d]
    OBVIOUS
  <1>6. fileMaps'[c] # None
    BY <1>5, AllocatorsAssumption DEF Maps
  <1>7. FileType'
    BY <1>1, <1>5 DEF FileType
  <1>8. \A m \in Files!Fd : fds'[m] = IF m = n THEN [conn |-> c, file |-> f] ELSE fds[m]
    BY <1>1 DEF FileType
  <1>9. \A d \in Conn : n \notin Files!FilesOf(d)
    BY <1>1, FilesHaveConn
  <1>10. Files!FilesOf(c)' = Files!FilesOf(c) \cup {n} /\ \A d \in Conn \ {c} : Files!FilesOf(d)' = Files!FilesOf(d)
    <2>1. \A d \in Conn \ {c} : Files!FilesOf(d)' = Files!FilesOf(d)
      BY <1>5 DEF Files!FilesOf
    <2>2. \A m : m \in Files!FilesOf(c)' <=> m # 0 /\ \E g \in File : fileMaps'[c].files[g] = m
      <3>1. fileMaps'[c].files \in [File -> 0 .. MaxFd]
        BY <1>5 DEF Maps
      <3>2. QED
        BY <1>6, <3>1 DEF Files!FilesOf, Files!Range
    <2>3. \A m : m \in Files!FilesOf(c) <=> m # 0 /\ \E g \in File : fileMaps[c].files[g] = m
      BY <1>1, FilesOfMap
    <2>4. \A m : m \in Files!FilesOf(c)' <=> m \in Files!FilesOf(c) \cup {n}
      BY <1>1, <1>5, <2>2, <2>3
    <2>5. QED
      BY <2>1, <2>4
  <1>11. MapsAreSound'
    <2>1. ASSUME NEW d \in Conn, NEW g \in File, fileMaps'[d] # None, fileMaps'[d].files[g] # 0
          PROVE  fds'[fileMaps'[d].files[g]] = [conn |-> d, file |-> g]
      <3>1. CASE d = c /\ g = f
        BY <1>5, <1>8, <3>1
      <3>2. CASE ~(d = c /\ g = f)
        <4>1. fileMaps[d] # None /\ fileMaps'[d].files[g] = fileMaps[d].files[g]
          BY <1>5, <2>1, <3>2
        <4>2. fileMaps[d].files[g] \in Files!FilesOf(d)
          BY <1>1, <2>1, <4>1, FilesOfMap
        <4>3. fileMaps[d].files[g] # n /\ fileMaps[d].files[g] \in Files!Fd
          BY <1>1, <1>9, <4>2, FilesHaveConn
        <4>4. fds[fileMaps[d].files[g]] = [conn |-> d, file |-> g]
          BY <1>1, <2>1, <4>1 DEF MapsAreSound
        <4>5. QED
          BY <1>8, <4>1, <4>3, <4>4
      <3>3. QED
        BY <3>1, <3>2
    <2>2. ASSUME NEW m \in orphans
          PROVE  fds'[m] # None /\ \A d \in Conn : m \notin Files!FilesOf(d)'
      <3>1. m # n /\ m \in Files!Fd /\ fds[m] # None /\ \A d \in Conn : m \notin Files!FilesOf(d)
        BY <1>1 DEF MapsAreSound, FileType
      <3>2. QED
        BY <1>8, <1>10, <3>1
    <2>3. QED
      BY <2>1, <2>2 DEF MapsAreSound
  <1>12. ASSUME NEW m \in Files!Fd, fds'[m] # None
         PROVE  m \in Files!FilesOf(fds[m].conn)' \/ m \in orphans' \/ m \in strays'
    <2>1. CASE m = n
      BY <1>8, <1>10, <2>1
    <2>2. CASE m # n
      <3>1. fds'[m] = fds[m] /\ fds[m].conn \in Conn
        BY <1>1, <1>8, <1>12, <2>2 DEF FileType
      <3>2. m \in Files!FilesOf(fds[m].conn) \/ m \in orphans \/ m \in strays
        BY <1>12, <3>1 DEF FilesInv, Files!OpenFilesAreOwned
      <3>3. QED
        BY <1>10, <3>1, <3>2
    <2>3. QED
      BY <2>1, <2>2
  <1>13. \A d, e \in Conn : d # e => Files!FilesOf(d)' \cap Files!FilesOf(e)' = {}
    BY <1>9, <1>10 DEF FilesInv, Files!OpenFilesAreOwned
  <1>14. QED
    BY <1>7, <1>10, <1>11, <1>12, <1>13 DEF FilesInv, Files!OpenFilesAreOwned

\* The map of a connection loses files: they are closed, or left to a goroutine, or strays.
LEMMA FilesShrink ==
    ASSUME FilesInv, FileType', NEW c \in Conn, NEW closed \in SUBSET Files!FilesOf(c),
           \A n \in Files!Fd : fds'[n] = IF n \in closed THEN None ELSE fds[n],
           \A d \in Conn \ {c} : fileMaps'[d] = fileMaps[d],
           \A g \in File : fileMaps'[c] # None /\ fileMaps'[c].files[g] # 0 =>
               fileMaps[c] # None /\ fileMaps'[c].files[g] = fileMaps[c].files[g] /\ fileMaps[c].files[g] \notin closed,
           orphans \in SUBSET orphans', orphans' \ orphans \in SUBSET (Files!FilesOf(c) \ (closed \cup Files!FilesOf(c)')),
           strays \in SUBSET strays',
           Files!FilesOf(c) \in SUBSET (closed \cup Files!FilesOf(c)' \cup orphans' \cup strays')
    PROVE  FilesInv'
  <1>1. FileType /\ MapsAreSound
    BY DEF FilesInv
  <1>2. \A d \in Conn \ {c} : Files!FilesOf(d)' = Files!FilesOf(d)
    BY DEF Files!FilesOf
  <1>3. \A d \in Conn : \A n \in Files!FilesOf(d)' :
            n \in Files!Fd /\ fileMaps'[d] # None /\ n # 0 /\ \E f \in File : fileMaps'[d].files[f] = n
    <2>1. ASSUME NEW d \in Conn, fileMaps'[d] # None
          PROVE  /\ \A n \in Files!FilesOf(d)' : n # 0 /\ \E f \in File : fileMaps'[d].files[f] = n
                 /\ Files!FilesOf(d)' \subseteq Files!Fd
      <3>1. fileMaps'[d].files \in [File -> 0 .. MaxFd]
        BY <2>1 DEF FileType, Maps
      <3>2. \A n : n \in Files!FilesOf(d)' <=> n # 0 /\ \E f \in File : fileMaps'[d].files[f] = n
        BY <2>1, <3>1 DEF Files!FilesOf, Files!Range
      <3>3. \A f \in File : fileMaps'[d].files[f] # 0 => fileMaps'[d].files[f] \in Files!Fd
        BY <3>1, AllocatorsAssumption DEF Files!Fd
      <3>4. QED
        BY <3>2, <3>3
    <2>2. ASSUME NEW d \in Conn, fileMaps'[d] = None
          PROVE  Files!FilesOf(d)' = {}
      BY <2>2 DEF Files!FilesOf
    <2>3. QED
      BY <2>1, <2>2
  <1>4. Files!FilesOf(c)' \subseteq Files!FilesOf(c) \ closed
    <2> SUFFICES ASSUME NEW n \in Files!FilesOf(c)'
                 PROVE  n \in Files!FilesOf(c) \ closed
      OBVIOUS
    <2>1. PICK f \in File : fileMaps'[c] # None /\ n # 0 /\ fileMaps'[c].files[f] = n
      BY <1>3
    <2>2. fileMaps[c] # None /\ fileMaps[c].files[f] = n /\ n \notin closed
      BY <2>1
    <2>3. QED
      BY <1>1, <2>1, <2>2, FilesOfMap
  <1>5. \A n \in Files!Fd : n \notin Files!FilesOf(c) => fds'[n] = fds[n]
    OBVIOUS
  <1>6. MapsAreSound'
    <2>1. ASSUME NEW d \in Conn, NEW f \in File, fileMaps'[d] # None, fileMaps'[d].files[f] # 0
          PROVE  fds'[fileMaps'[d].files[f]] = [conn |-> d, file |-> f]
      <3> DEFINE n == fileMaps[d].files[f]
      <3>1. fileMaps[d] # None /\ fileMaps'[d].files[f] = n /\ n # 0 /\ n \notin closed
        <4>1. CASE d = c
          BY <2>1, <4>1
        <4>2. CASE d # c
          <5>1. fileMaps'[d] = fileMaps[d] /\ n \in Files!FilesOf(d)
            BY <1>1, <2>1, <4>2, FilesOfMap
          <5>2. n \notin Files!FilesOf(c)
            BY <1>1, <4>2, <5>1, FilesHaveConn
          <5>3. QED
            BY <2>1, <5>1, <5>2
        <4>3. QED
          BY <4>1, <4>2
      <3>2. n \in Files!Fd /\ fds[n] = [conn |-> d, file |-> f]
        BY <1>1, <3>1, FilesOfMap DEF MapsAreSound
      <3>3. QED
        BY <3>1, <3>2
    <2>2. ASSUME NEW n \in orphans'
          PROVE  fds'[n] # None /\ \A d \in Conn : n \notin Files!FilesOf(d)'
      <3>1. n \in Files!Fd
        BY DEF FileType
      <3>2. CASE n \in orphans
        <4>1. fds[n] # None /\ \A d \in Conn : n \notin Files!FilesOf(d)
          BY <1>1, <3>2 DEF MapsAreSound
        <4>2. QED
          BY <1>2, <1>4, <1>5, <3>1, <4>1
      <3>3. CASE n \notin orphans
        <4>1. n \in Files!FilesOf(c) /\ n \notin closed /\ n \notin Files!FilesOf(c)'
          BY <3>3
        <4>2. fds[n] # None /\ \A d \in Conn \ {c} : n \notin Files!FilesOf(d)
          BY <1>1, <4>1, FilesHaveConn
        <4>3. QED
          BY <1>2, <3>1, <4>1, <4>2
      <3>4. QED
        BY <3>2, <3>3
    <2>3. QED
      BY <2>1, <2>2 DEF MapsAreSound
  <1>7. ASSUME NEW n \in Files!Fd, fds'[n] # None
        PROVE  n \in Files!FilesOf(fds[n].conn)' \/ n \in orphans' \/ n \in strays'
    <2>1. fds'[n] = fds[n] /\ n \notin closed /\ fds[n] # None
      BY <1>7
    <2>2. n \in Files!FilesOf(fds[n].conn) \/ n \in orphans \/ n \in strays
      BY <2>1 DEF FilesInv, Files!OpenFilesAreOwned
    <2>3. PICK d \in Conn : d = fds[n].conn /\ d = fds'[n].conn
      BY <1>1, <2>1 DEF FileType
    <2>4. n \in Files!FilesOf(d) \/ n \in orphans \/ n \in strays
      BY <2>2, <2>3
    <2>5. n \in Files!FilesOf(d)' \/ n \in orphans' \/ n \in strays'
      <3>1. CASE d = c
        BY <2>1, <2>4, <3>1
      <3>2. CASE d # c
        BY <1>2, <2>4, <3>2
      <3>3. QED
        BY <3>1, <3>2
    <2>6. QED
      BY <2>3, <2>5 DEF Files!FilesOf
  <1>8. \A d, e \in Conn : d # e => Files!FilesOf(d)' \cap Files!FilesOf(e)' = {}
    BY <1>2, <1>4 DEF FilesInv, Files!OpenFilesAreOwned
  <1>9. QED
    BY <1>6, <1>7, <1>8 DEF FilesInv, Files!OpenFilesAreOwned

\* The descriptors that goroutines of Close have are closed.
LEMMA OrphansAreClosed ==
    ASSUME FilesInv, Files!CtxDoneLater
    PROVE  FilesInv'
  <1>1. FileType /\ MapsAreSound
    BY DEF FilesInv
  <1>2. UNCHANGED <<fileMaps, strays>> /\ orphans' = {} /\ fds' = [n \in Files!Fd |-> IF n \in orphans THEN None ELSE fds[n]]
    BY DEF Files!CtxDoneLater
  <1>3. FileType'
    BY <1>1, <1>2 DEF FileType
  <1>4. \A d \in Conn : Files!FilesOf(d)' = Files!FilesOf(d)
    BY <1>2 DEF Files!FilesOf
  <1>5. ASSUME NEW d \in Conn, NEW f \in File, fileMaps[d] # None, fileMaps[d].files[f] # 0
        PROVE  fds'[fileMaps[d].files[f]] = [conn |-> d, file |-> f]
    <2>1. fileMaps[d].files[f] \in Files!FilesOf(d) /\ fileMaps[d].files[f] \in Files!Fd
      BY <1>1, <1>5, FilesOfMap
    <2>2. fileMaps[d].files[f] \notin orphans
      BY <1>1, <2>1, FilesHaveConn
    <2>3. QED
      BY <1>1, <1>2, <1>5, <2>1, <2>2 DEF MapsAreSound
  <1>6. MapsAreSound'
    BY <1>2, <1>5 DEF MapsAreSound
  <1>7. ASSUME NEW n \in Files!Fd, fds'[n] # None
        PROVE  n \in Files!FilesOf(fds[n].conn)' \/ n \in orphans' \/ n \in strays'
    <2>1. fds'[n] = fds[n] /\ n \notin orphans /\ fds[n] # None
      BY <1>2, <1>7
    <2>2. PICK d \in Conn : d = fds[n].conn /\ d = fds'[n].conn
      BY <1>1, <2>1 DEF FileType
    <2>3. n \in Files!FilesOf(d) \/ n \in strays
      BY <2>1, <2>2 DEF FilesInv, Files!OpenFilesAreOwned
    <2>4. n \in Files!FilesOf(d)' \/ n \in strays'
      BY <1>2, <1>4, <2>3
    <2>5. QED
      BY <2>2, <2>4 DEF Files!FilesOf
  <1>8. \A d, e \in Conn : d # e => Files!FilesOf(d)' \cap Files!FilesOf(e)' = {}
    BY <1>4 DEF FilesInv, Files!OpenFilesAreOwned
  <1>9. QED
    BY <1>3, <1>6, <1>7, <1>8 DEF FilesInv, Files!OpenFilesAreOwned

-----------------------------------------------------------------------------
(* The calls that carry descriptors.                                       *)

\* The URLs of a call, one after the other, are files.
LEMMA SetToSeqType ==
    ASSUME NEW S \in SUBSET File
    PROVE  Files!SetToSeq(S) \in Seq(File)
  <1>1. IsFiniteSet(S)
    BY AllocatorsAssumption, FS_Subset
  <1>2. Cardinality(S) \in Nat /\ ExistsBijection(1 .. Cardinality(S), S)
    BY <1>1, FS_CardinalityType
  <1>3. \E f \in [1 .. Cardinality(S) -> S] : Files!IsInjective(f)
    BY <1>2 DEF ExistsBijection, Bijection, Injection, IsInjective, Files!IsInjective
  <1>4. Files!SetToSeq(S) \in [1 .. Cardinality(S) -> S]
    <2>1. Files!Cardinality(S) = Cardinality(S)
      BY DEF Files!Cardinality, Cardinality
    <2>2. QED
      BY <1>3, <2>1, Zenon DEF Files!SetToSeq
  <1>5. QED
    BY <1>2, <1>4

\* A call with other files to receive is a call that differs in nothing else.
LEMMA TodoUpdate ==
    ASSUME NEW m \in [Conn -> TransferCalls], NEW c \in Conn, NEW x \in Seq(File),
           NEW new, new = [m EXCEPT ![c].todo = x]
    PROVE  /\ new \in [Conn -> TransferCalls] /\ \A d \in Conn \ {c} : new[d] = m[d]
           /\ new[c].todo = x
           /\ new[c].op = m[c].op /\ new[c].at = m[c].at /\ new[c].prefs = m[c].prefs /\ new[c].file = m[c].file /\ new[c].done = m[c].done
  <1>1. PICK r : r = [m[c] EXCEPT !.todo = x]
    OBVIOUS
  <1>2. r \in TransferCalls /\ r.todo = x
        /\ r.op = m[c].op /\ r.at = m[c].at /\ r.prefs = m[c].prefs /\ r.file = m[c].file /\ r.done = m[c].done
    BY <1>1 DEF TransferCalls
  <1>3. new = [m EXCEPT ![c] = r]
    BY <1>1
  <1>4. new \in [Conn -> TransferCalls] /\ new[c] = r /\ \A d \in Conn \ {c} : new[d] = m[d]
    BY <1>2, <1>3
  <1>5. QED
    BY <1>2, <1>4

\* The same for the place where the call is.
LEMMA AtUpdate ==
    ASSUME NEW m \in [Conn -> TransferCalls], NEW c \in Conn, NEW x \in {"next", "recv", "swap"},
           NEW new, new = [m EXCEPT ![c].at = x]
    PROVE  /\ new \in [Conn -> TransferCalls] /\ \A d \in Conn \ {c} : new[d] = m[d]
           /\ new[c].at = x
           /\ new[c].op = m[c].op /\ new[c].todo = m[c].todo /\ new[c].prefs = m[c].prefs /\ new[c].file = m[c].file /\ new[c].done = m[c].done
  <1>1. PICK r : r = [m[c] EXCEPT !.at = x]
    OBVIOUS
  <1>2. r \in TransferCalls /\ r.at = x
        /\ r.op = m[c].op /\ r.todo = m[c].todo /\ r.prefs = m[c].prefs /\ r.file = m[c].file /\ r.done = m[c].done
    BY <1>1 DEF TransferCalls
  <1>3. new = [m EXCEPT ![c] = r]
    BY <1>1
  <1>4. new \in [Conn -> TransferCalls] /\ new[c] = r /\ \A d \in Conn \ {c} : new[d] = m[d]
    BY <1>2, <1>3
  <1>5. QED
    BY <1>2, <1>4

\* The same for the file of the mechanism.
LEMMA FileUpdate ==
    ASSUME NEW m \in [Conn -> TransferCalls], NEW c \in Conn, NEW x \in File \cup {None},
           NEW new, new = [m EXCEPT ![c].file = x]
    PROVE  /\ new \in [Conn -> TransferCalls] /\ \A d \in Conn \ {c} : new[d] = m[d]
           /\ new[c].file = x
           /\ new[c].op = m[c].op /\ new[c].at = m[c].at /\ new[c].todo = m[c].todo /\ new[c].prefs = m[c].prefs /\ new[c].done = m[c].done
  <1>1. PICK r : r = [m[c] EXCEPT !.file = x]
    OBVIOUS
  <1>2. r \in TransferCalls /\ r.file = x
        /\ r.op = m[c].op /\ r.at = m[c].at /\ r.todo = m[c].todo /\ r.prefs = m[c].prefs /\ r.done = m[c].done
    BY <1>1 DEF TransferCalls
  <1>3. new = [m EXCEPT ![c] = r]
    BY <1>1
  <1>4. new \in [Conn -> TransferCalls] /\ new[c] = r /\ \A d \in Conn \ {c} : new[d] = m[d]
    BY <1>2, <1>3
  <1>5. QED
    BY <1>2, <1>4

\* Calls, files of connections and names of maps have their types.
TransferType ==
    /\ transfer \in [Conn -> TransferCalls]
    /\ heldFile \in [Conn -> File \cup {None}]

\* Only a Close of the client has a context that is done while files may still
\* arrive; a call that receives or closes has a map; and the file that an established
\* connection has is in its map, unless a later Request has failed.
TransferIsSound(c) ==
    /\ transfer[c].done => kind = "client" /\ transfer[c].op = "Close" /\ Files!FilesOf(c) \subseteq strays
    /\ transfer[c].at \in {"recv", "swap"} \/ transfer[c].op = "Close" => fileMaps[c] # None
    /\ transfer[c].op = "Request" /\ (transfer[c].at = "swap" \/ (transfer[c].at = "recv" /\ kind = "client")) =>
          transfer[c].file \in File
    /\ heldFile[c] # None /\ c \notin broken =>
          fileMaps[c] # None /\ (transfer[c].done \/ fileMaps[c].files[heldFile[c]] # 0)

\* The inductive invariant of sendfd and recvfd.
TransferInv == FilesInv /\ TransferType /\ \A c \in Conn : TransferIsSound(c)

\* The map of an established connection has its file, and what a map has is open.
LEMMA HeldIsOpen == TransferInv => Files!HeldFileIsOpen
  <1> SUFFICES ASSUME TransferInv, NEW c \in Conn, heldFile[c] # None, transfer[c] = Files!NoCall, c \notin broken
               PROVE  /\ fileMaps[c].files[heldFile[c]] # 0
                      /\ fds[fileMaps[c].files[heldFile[c]]] = [conn |-> c, file |-> heldFile[c]]
    BY DEF Files!HeldFileIsOpen
  <1>1. ~ transfer[c].done
    BY DEF Files!NoCall
  <1>2. fileMaps[c] # None /\ fileMaps[c].files[heldFile[c]] # 0
    BY <1>1 DEF TransferInv, TransferIsSound
  <1>3. heldFile[c] \in File
    BY DEF TransferInv, TransferType
  <1>4. QED
    BY <1>2, <1>3 DEF TransferInv, FilesInv, MapsAreSound

\* Nothing is open, received or sent yet.
LEMMA FilesBegin == Files!FDsInit => TransferInv
  <1> SUFFICES ASSUME Files!FDsInit
               PROVE  TransferInv
    OBVIOUS
  <1>1. FileType
    BY DEF Files!FDsInit, FileType
  <1>2. \A c \in Conn : fileMaps[c] = None /\ heldFile[c] = None /\ transfer[c] = Files!NoCall /\ Files!FilesOf(c) = {}
    BY DEF Files!FDsInit, Files!FilesOf
  <1>3. MapsAreSound
    BY <1>2 DEF MapsAreSound, Files!FDsInit
  <1>4. FilesInv
    BY <1>1, <1>2, <1>3 DEF FilesInv, Files!OpenFilesAreOwned, Files!FDsInit
  <1>5. Files!NoCall \in TransferCalls /\ Files!NoCall.op = "none" /\ Files!NoCall.at = "none" /\ ~ Files!NoCall.done
    BY DEF Files!NoCall, TransferCalls
  <1>6. TransferType
    BY <1>5 DEF Files!FDsInit, TransferType
  <1>7. QED
    BY <1>2, <1>4, <1>5, <1>6 DEF TransferInv, TransferIsSound

\* A step of one connection leaves the calls of the others alone.
LEMMA OthersAreSound ==
    ASSUME TransferInv, FilesInv', TransferType', NEW c \in Conn, TransferIsSound(c)', UNCHANGED kind,
           \A d \in Conn \ {c} : /\ fileMaps'[d] = fileMaps[d] /\ transfer'[d] = transfer[d] /\ heldFile'[d] = heldFile[d]
                                 /\ d \in broken' <=> d \in broken,
           strays \in SUBSET strays'
    PROVE  TransferInv'
  <1>1. ASSUME NEW d \in Conn \ {c}
        PROVE  TransferIsSound(d)'
    <2>1. TransferIsSound(d)
      BY DEF TransferInv
    <2>2. Files!FilesOf(d)' = Files!FilesOf(d)
      BY DEF Files!FilesOf
    <2>3. QED
      BY <2>1, <2>2 DEF TransferIsSound
  <1>2. QED
    BY <1>1 DEF TransferInv

\* The end of a call, whatever it has done.
LEMMA CallEnds ==
    ASSUME TransferType, NEW c \in Conn, Files!Ends(c)
    PROVE  /\ transfer' \in [Conn -> TransferCalls] /\ \A d \in Conn \ {c} : transfer'[d] = transfer[d]
           /\ transfer'[c].op = "none" /\ transfer'[c].at = "none" /\ ~ transfer'[c].done
  <1>1. Files!NoCall \in TransferCalls /\ Files!NoCall.op = "none" /\ Files!NoCall.at = "none" /\ ~ Files!NoCall.done
    BY DEF Files!NoCall, TransferCalls
  <1>2. QED
    BY <1>1 DEF Files!Ends, TransferType

\* What happens to a map whose files are replaced.
WithFiles(m, c, F) == [m EXCEPT ![c].files = F]

\* Such a map is a map, and those of others stay.
LEMMA MapFiles ==
    ASSUME NEW m \in [Conn -> Maps \cup {None}], NEW c \in Conn, NEW F \in [File -> 0 .. MaxFd], m[c] \in Maps,
           NEW new, new = WithFiles(m, c, F)
    PROVE  /\ new \in [Conn -> Maps \cup {None}] /\ new[c] \in Maps /\ new[c].files = F
           /\ \A d \in Conn \ {c} : new[d] = m[d]
  <1>1. PICK r : r = [m[c] EXCEPT !.files = F]
    OBVIOUS
  <1>2. r \in Maps /\ r.files = F
    BY <1>1 DEF Maps
  <1>3. new = [m EXCEPT ![c] = r]
    BY <1>1 DEF WithFiles
  <1>4. new \in [Conn -> Maps \cup {None}] /\ new[c] = r /\ \A d \in Conn \ {c} : new[d] = m[d]
    BY <1>2, <1>3
  <1>5. QED
    BY <1>2, <1>4

\* sendfd sends a call: recvfd finds or makes the map of the connection.
LEMMA CallSent ==
    ASSUME TransferInv, NEW c \in Conn, NEW x \in TransferCalls,
           transfer[c] = Files!NoCall, x.op \in {"Request", "Close"}, ~ x.done,
           x.at = IF kind = "client" THEN "next" ELSE "recv",
           \/ UNCHANGED <<transfer, fileMaps>>
           \/ /\ transfer' = [transfer EXCEPT ![c] = x]
              /\ fileMaps' = IF fileMaps[c] = None /\ ~(kind = "client" /\ x.op = "Request")
                             THEN [fileMaps EXCEPT ![c] = Files!NewMap] ELSE fileMaps,
           UNCHANGED <<kind, fds, heldFile, broken, orphans, strays>>
    PROVE  TransferInv'
  <1>1. TransferType /\ FilesInv /\ FileType /\ TransferIsSound(c)
    BY DEF TransferInv, FilesInv
  <1>2. FilesInv' /\ \A d \in Conn : fileMaps[d] # None => fileMaps'[d] = fileMaps[d]
    BY <1>1, MapIsMade
  <1>3. TransferType' /\ \A d \in Conn \ {c} : transfer'[d] = transfer[d]
    BY <1>1 DEF TransferType
  <1>4. transfer'[c] = transfer[c] \/ transfer'[c] = x
    BY <1>1 DEF TransferType
  <1>5. Files!NewMap # None
    <2>1. Files!NewMap \in Maps
      BY AllocatorsAssumption DEF Files!NewMap, Maps, Files!Fd
    <2>2. QED
      BY <2>1, AllocatorsAssumption DEF Maps
  <1>6. TransferIsSound(c)'
    <2>1. CASE UNCHANGED <<transfer, fileMaps>>
      <3>1. Files!FilesOf(c)' = Files!FilesOf(c)
        BY <2>1 DEF Files!FilesOf
      <3>2. QED
        BY <1>1, <2>1, <3>1 DEF TransferIsSound
    <2>2. CASE transfer' = [transfer EXCEPT ![c] = x] /\ fileMaps' = IF fileMaps[c] = None /\ ~(kind = "client" /\ x.op = "Request")
                             THEN [fileMaps EXCEPT ![c] = Files!NewMap] ELSE fileMaps
      <3>1. transfer'[c] = x
        BY <1>1, <2>2 DEF TransferType
      <3>2. ~(kind = "client" /\ x.op = "Request") => fileMaps'[c] # None
        BY <1>1, <1>5, <2>2 DEF FileType
      <3>3. ~ transfer[c].done
        BY DEF Files!NoCall
      <3>4. QED
        BY <1>1, <1>2, <3>1, <3>2, <3>3 DEF TransferIsSound
    <2>3. QED
      BY <2>1, <2>2
  <1>7. \A d \in Conn \ {c} : fileMaps'[d] = fileMaps[d]
    BY <1>1 DEF FileType
  <1>8. QED
    BY <1>2, <1>3, <1>6, <1>7, OthersAreSound

\* A Request of sendfd, which carries the files of the mechanism preferences.
LEMMA RequestSent ==
    ASSUME TransferInv, NEW c \in Conn, NEW urls \in SUBSET File, Files!SendRequest(c, urls)
    PROVE  TransferInv'
  <1> DEFINE at == IF kind = "client" THEN "next" ELSE "recv"
             x == [Files!NoCall EXCEPT !.op = "Request", !.at = at, !.todo = Files!SetToSeq(urls), !.prefs = urls]
  <1> HIDE DEF at
  <1>1. x = [op |-> "Request", at |-> at, todo |-> Files!SetToSeq(urls), prefs |-> urls, file |-> None, done |-> FALSE]
    <2>1. PICK y : y = [Files!NoCall EXCEPT !.op = "Request", !.at = at, !.todo = Files!SetToSeq(urls)]
      OBVIOUS
    <2>2. y = [op |-> "Request", at |-> at, todo |-> Files!SetToSeq(urls), prefs |-> {}, file |-> None, done |-> FALSE]
      BY <2>1 DEF Files!NoCall
    <2>3. x = [y EXCEPT !.prefs = urls]
      BY <2>1
    <2> HIDE DEF x
    <2>4. QED
      BY <2>2, <2>3
  <1>2. Files!SetToSeq(urls) \in Seq(File)
    BY SetToSeqType
  <1>3. x \in TransferCalls /\ x.op = "Request" /\ ~ x.done /\ x.at = at /\ x # Files!NoCall
    BY <1>1, <1>2 DEF TransferCalls, Files!NoCall, at
  <1>4. transfer[c] = Files!NoCall /\ transfer \in [Conn -> TransferCalls] /\ UNCHANGED <<kind, fds, heldFile, broken, orphans, strays>>
    BY DEF Files!SendRequest, TransferInv, TransferType
  <1>5. transfer' = [transfer EXCEPT ![c] = x] \/ UNCHANGED transfer
    BY DEF Files!SendRequest, Files!sendFDAndSwapFileToInode, at
  <1>6. fileMaps' = IF fileMaps[c] = None /\ kind # "client" /\ transfer'[c] # Files!NoCall
                    THEN [fileMaps EXCEPT ![c] = Files!NewMap] ELSE fileMaps
    BY DEF Files!SendRequest
  <1> HIDE DEF x
  <1>7. \/ UNCHANGED <<transfer, fileMaps>>
        \/ /\ transfer' = [transfer EXCEPT ![c] = x]
           /\ fileMaps' = IF fileMaps[c] = None /\ ~(kind = "client" /\ x.op = "Request")
                          THEN [fileMaps EXCEPT ![c] = Files!NewMap] ELSE fileMaps
    <2>1. CASE UNCHANGED transfer
      BY <1>4, <1>6, <2>1
    <2>2. CASE transfer' = [transfer EXCEPT ![c] = x]
      <3>1. transfer'[c] = x
        BY <1>4, <2>2
      <3>2. QED
        BY <1>3, <1>6, <2>2, <3>1
    <2>3. QED
      BY <1>5, <2>1, <2>2
  <1>8. QED
    BY <1>3, <1>4, <1>7, CallSent DEF at

\* A Close of sendfd, which carries the file of the connection.
LEMMA CloseSent ==
    ASSUME TransferInv, NEW c \in Conn, Files!SendClose(c)
    PROVE  TransferInv'
  <1> DEFINE at == IF kind = "client" THEN "next" ELSE "recv"
             todo == IF heldFile[c] = None THEN <<>> ELSE <<heldFile[c]>>
             x == [Files!NoCall EXCEPT !.op = "Close", !.at = at, !.todo = todo, !.file = heldFile[c]]
  <1> HIDE DEF at, todo
  <1>1. x = [op |-> "Close", at |-> at, todo |-> todo, prefs |-> {}, file |-> heldFile[c], done |-> FALSE]
    <2>1. PICK y : y = [Files!NoCall EXCEPT !.op = "Close", !.at = at, !.todo = todo]
      OBVIOUS
    <2>2. y = [op |-> "Close", at |-> at, todo |-> todo, prefs |-> {}, file |-> None, done |-> FALSE]
      BY <2>1 DEF Files!NoCall
    <2>3. x = [y EXCEPT !.file = heldFile[c]]
      BY <2>1
    <2> HIDE DEF x
    <2>4. QED
      BY <2>2, <2>3
  <1>2. todo \in Seq(File) /\ heldFile[c] \in File \cup {None}
    BY DEF TransferInv, TransferType, todo
  <1>3. x \in TransferCalls /\ x.op = "Close" /\ ~ x.done /\ x.at = at /\ x # Files!NoCall
    BY <1>1, <1>2 DEF TransferCalls, Files!NoCall, at
  <1>4. transfer[c] = Files!NoCall /\ transfer \in [Conn -> TransferCalls] /\ UNCHANGED <<kind, fds, heldFile, broken, orphans, strays>>
    BY DEF Files!SendClose, TransferInv, TransferType
  <1>5. transfer' = [transfer EXCEPT ![c] = x] \/ UNCHANGED transfer
    BY DEF Files!SendClose, Files!sendFDAndSwapFileToInode, at, todo
  <1>6. fileMaps' = IF fileMaps[c] = None /\ transfer'[c] # Files!NoCall
                    THEN [fileMaps EXCEPT ![c] = Files!NewMap] ELSE fileMaps
    BY DEF Files!SendClose
  <1> HIDE DEF x
  <1>7. \/ UNCHANGED <<transfer, fileMaps>>
        \/ /\ transfer' = [transfer EXCEPT ![c] = x]
           /\ fileMaps' = IF fileMaps[c] = None /\ ~(kind = "client" /\ x.op = "Request")
                          THEN [fileMaps EXCEPT ![c] = Files!NewMap] ELSE fileMaps
    <2>1. CASE UNCHANGED transfer
      BY <1>4, <1>6, <2>1
    <2>2. CASE transfer' = [transfer EXCEPT ![c] = x]
      <3>1. transfer'[c] = x
        BY <1>4, <2>2
      <3>2. QED
        BY <1>3, <1>6, <2>2, <3>1
    <2>3. QED
      BY <1>5, <2>1, <2>2
  <1>8. QED
    BY <1>3, <1>4, <1>7, CallSent DEF at

\* A call ends and the connection with it: its map is gone.
LEMMA MapIsDropped ==
    ASSUME TransferInv, NEW c \in Conn, NEW closed \in SUBSET Files!FilesOf(c),
           \A n \in Files!Fd : fds'[n] = IF n \in closed THEN None ELSE fds[n],
           fds' \in [Files!Fd -> [conn : Conn, file : File] \cup {None}],
           fileMaps' = [fileMaps EXCEPT ![c] = None], Files!Ends(c), UNCHANGED kind,
           \/ heldFile' = [heldFile EXCEPT ![c] = None] /\ broken' = broken \ {c}
           \/ UNCHANGED heldFile /\ broken' = broken \cup {c},
           orphans \in SUBSET orphans', orphans' \in SUBSET (orphans \cup (Files!FilesOf(c) \ closed)),
           strays \in SUBSET strays', strays' \in SUBSET Files!Fd,
           Files!FilesOf(c) \in SUBSET (closed \cup orphans' \cup strays')
    PROVE  TransferInv'
  <1>1. TransferType /\ FilesInv /\ FileType /\ Files!FilesOf(c) \in SUBSET Files!Fd
    BY FilesOfMap DEF TransferInv, FilesInv
  <1>2. fileMaps'[c] = None /\ (\A d \in Conn \ {c} : fileMaps'[d] = fileMaps[d]) /\ fileMaps' \in [Conn -> Maps \cup {None}]
    BY <1>1 DEF FileType
  <1>3. Files!FilesOf(c)' = {}
    BY <1>2 DEF Files!FilesOf
  <1>4. FileType'
    BY <1>1, <1>2 DEF FileType
  <1>5. FilesInv'
    BY <1>1, <1>2, <1>3, <1>4, FilesShrink
  <1>6. /\ transfer' \in [Conn -> TransferCalls] /\ \A d \in Conn \ {c} : transfer'[d] = transfer[d]
        /\ transfer'[c].op = "none" /\ transfer'[c].at = "none" /\ ~ transfer'[c].done
    BY <1>1, CallEnds
  <1>7. /\ heldFile' \in [Conn -> File \cup {None}] /\ (heldFile'[c] = None \/ c \in broken')
        /\ \A d \in Conn \ {c} : heldFile'[d] = heldFile[d] /\ (d \in broken' <=> d \in broken)
    BY <1>1 DEF TransferType
  <1>8. TransferType'
    BY <1>1, <1>6, <1>7 DEF TransferType
  <1>9. TransferIsSound(c)'
    BY <1>6, <1>7 DEF TransferIsSound
  <1>10. QED
    BY <1>2, <1>5, <1>6, <1>7, <1>8, <1>9, OthersAreSound

\* A call of recvfd that fails, or a Close: closeFiles closes what its map holds.
LEMMA Forgotten ==
    ASSUME TransferInv, NEW c \in Conn, Files!Forget(c), UNCHANGED <<kind, orphans, strays>>
    PROVE  TransferInv'
  <1>1. FileType /\ Files!FilesOf(c) \in SUBSET Files!Fd
    BY FilesOfMap DEF TransferInv, FilesInv
  <1>2. fds' = [n \in Files!Fd |-> IF n \in Files!FilesOf(c) THEN None ELSE fds[n]]
    BY DEF Files!Forget, Files!closeFiles
  <1>3. fds' \in [Files!Fd -> [conn : Conn, file : File] \cup {None}] /\ strays \in SUBSET Files!Fd
    BY <1>1, <1>2 DEF FileType
  <1>4. \/ heldFile' = [heldFile EXCEPT ![c] = None] /\ broken' = broken \ {c}
        \/ UNCHANGED heldFile /\ broken' = broken \cup {c}
    BY DEF Files!Forget, Files!Unheld
  <1>5. /\ \A n \in Files!Fd : fds'[n] = IF n \in Files!FilesOf(c) THEN None ELSE fds[n]
        /\ fileMaps' = [fileMaps EXCEPT ![c] = None] /\ Files!Ends(c)
    BY <1>2 DEF Files!Forget
  <1>6. /\ Files!FilesOf(c) \in SUBSET Files!FilesOf(c)
        /\ orphans \in SUBSET orphans' /\ orphans' \in SUBSET (orphans \cup (Files!FilesOf(c) \ Files!FilesOf(c)))
        /\ strays \in SUBSET strays' /\ strays' \in SUBSET Files!Fd
        /\ Files!FilesOf(c) \in SUBSET (Files!FilesOf(c) \cup orphans' \cup strays')
    BY <1>3
  <1>7. QED
    BY <1>3, <1>4, <1>5, <1>6, MapIsDropped

\* The end of a Close of the client of recvfd: its goroutine gets what the map holds.
LEMMA Closed ==
    ASSUME TransferInv, NEW c \in Conn, Files!ClientClosed(c), UNCHANGED <<kind, fds, strays>>
    PROVE  TransferInv'
  <1>1. FileType /\ Files!FilesOf(c) \in SUBSET Files!Fd
    BY FilesOfMap DEF TransferInv, FilesInv
  <1>2. transfer[c].done => Files!FilesOf(c) \subseteq strays
    BY DEF TransferInv, TransferIsSound
  <1>3. orphans' = orphans \cup (IF transfer[c].done THEN {} ELSE Files!FilesOf(c))
    BY DEF Files!ClientClosed
  <1>4. fds' \in [Files!Fd -> [conn : Conn, file : File] \cup {None}] /\ strays' \in SUBSET Files!Fd
    BY <1>1 DEF FileType
  <1>5. \A n \in Files!Fd : fds'[n] = IF n \in {} THEN None ELSE fds[n]
    OBVIOUS
  <1>6. /\ {} \in SUBSET Files!FilesOf(c) /\ Files!FilesOf(c) \in SUBSET ({} \cup orphans' \cup strays')
        /\ orphans \in SUBSET orphans' /\ orphans' \in SUBSET (orphans \cup (Files!FilesOf(c) \ {}))
    BY <1>2, <1>3
  <1>7. QED
    BY <1>4, <1>5, <1>6, MapIsDropped DEF Files!ClientClosed, Files!Unheld

\* A call moves on, and the maps stay as they are or one is made.
LEMMA CallMoves ==
    ASSUME TransferInv, NEW c \in Conn,
           transfer' \in [Conn -> TransferCalls], \A d \in Conn \ {c} : transfer'[d] = transfer[d],
           \/ UNCHANGED fileMaps
           \/ fileMaps[c] = None /\ fileMaps' = [fileMaps EXCEPT ![c] = Files!NewMap],
           UNCHANGED <<kind, fds, heldFile, broken, orphans, strays>>,
           transfer'[c].done => transfer[c].done /\ transfer'[c].op = transfer[c].op,
           transfer[c].done => transfer'[c].done,
           transfer'[c].at \in {"recv", "swap"} \/ transfer'[c].op = "Close" =>
               fileMaps' # fileMaps \/ fileMaps[c] # None,
           transfer'[c].op = "Request" /\ (transfer'[c].at = "swap" \/ (transfer'[c].at = "recv" /\ kind = "client")) =>
               transfer'[c].file \in File
    PROVE  TransferInv'
  <1>1. TransferType /\ FilesInv /\ FileType /\ TransferIsSound(c)
    BY DEF TransferInv, FilesInv
  <1>2. FilesInv' /\ \A d \in Conn : fileMaps[d] # None => fileMaps'[d] = fileMaps[d]
    BY <1>1, MapIsMade
  <1>3. TransferType'
    BY <1>1 DEF TransferType
  <1>4. \A d \in Conn \ {c} : fileMaps'[d] = fileMaps[d]
    BY <1>1 DEF FileType
  <1>5. fileMaps' # fileMaps => fileMaps'[c] # None
    <2>1. Files!NewMap \in Maps
      BY AllocatorsAssumption DEF Files!NewMap, Maps, Files!Fd
    <2>2. QED
      BY <1>1, <2>1, AllocatorsAssumption DEF Maps, FileType
  <1>6. transfer[c].done => Files!FilesOf(c)' = Files!FilesOf(c)
    <2>1. transfer[c].done => fileMaps[c] # None
      BY <1>1 DEF TransferIsSound
    <2>2. QED
      BY <1>2, <2>1 DEF Files!FilesOf
  <1>7. TransferIsSound(c)'
    BY <1>1, <1>2, <1>5, <1>6 DEF TransferIsSound
  <1>8. QED
    BY <1>2, <1>3, <1>4, <1>7, OthersAreSound

\* A file that is known from an earlier call is not received again.
LEMMA KnownReceived ==
    ASSUME TransferInv, NEW c \in Conn, Files!RecvKnown(c)
    PROVE  TransferInv'
  <1>1. transfer \in [Conn -> TransferCalls] /\ transfer[c] \in TransferCalls /\ transfer[c].todo \in Seq(File)
    BY DEF TransferInv, TransferType, TransferCalls
  <1>2. Tail(transfer[c].todo) \in Seq(File)
    BY <1>1 DEF Files!RecvKnown, Files!Receiving
  <1>3. PICK t \in Seq(File) : transfer' = [transfer EXCEPT ![c].todo = t]
    BY <1>2 DEF Files!RecvKnown
  <1>4. /\ transfer' \in [Conn -> TransferCalls] /\ \A d \in Conn \ {c} : transfer'[d] = transfer[d]
        /\ transfer'[c].op = transfer[c].op /\ transfer'[c].at = transfer[c].at
        /\ transfer'[c].file = transfer[c].file /\ transfer'[c].done = transfer[c].done
    BY <1>1, <1>3, TodoUpdate
  <1>5. UNCHANGED <<kind, fds, fileMaps, heldFile, broken, orphans, strays>>
    BY DEF Files!RecvKnown
  <1>6. TransferIsSound(c)
    BY DEF TransferInv
  <1>7. QED
    BY <1>4, <1>5, <1>6, CallMoves DEF TransferIsSound

\* A file arrives, or nil does.
LEMMA FileReceived ==
    ASSUME TransferInv, NEW c \in Conn, Files!RecvFile(c)
    PROVE  TransferInv'
  <1> DEFINE f == Head(transfer[c].todo)
  <1>1. /\ transfer \in [Conn -> TransferCalls] /\ transfer[c] \in TransferCalls /\ transfer[c].todo \in Seq(File)
        /\ transfer[c].todo # <<>> /\ transfer[c].at = "recv"
    BY DEF TransferInv, TransferType, TransferCalls, Files!RecvFile, Files!Receiving
  <1>2. Tail(transfer[c].todo) \in Seq(File) /\ f \in File
    BY <1>1
  <1>3. PICK t \in Seq(File) : transfer' = [transfer EXCEPT ![c].todo = t]
    BY <1>2 DEF Files!RecvFile
  <1>4. /\ transfer' \in [Conn -> TransferCalls] /\ \A d \in Conn \ {c} : transfer'[d] = transfer[d]
        /\ transfer'[c].op = transfer[c].op /\ transfer'[c].at = transfer[c].at
        /\ transfer'[c].file = transfer[c].file /\ transfer'[c].done = transfer[c].done
    BY <1>1, <1>3, TodoUpdate
  <1>5. UNCHANGED <<kind, heldFile, broken, orphans>> /\ fileMaps[c].files[f] = 0
    BY DEF Files!RecvFile
  <1>6. TransferIsSound(c) /\ FilesInv /\ FileType /\ TransferType
    BY DEF TransferInv, FilesInv
  <1>7. fileMaps[c] # None /\ fileMaps[c] \in Maps
    BY <1>1, <1>6 DEF TransferIsSound, FileType
  <1>8. CASE UNCHANGED <<fds, fileMaps, strays>>
    BY <1>4, <1>5, <1>6, <1>8, CallMoves DEF TransferIsSound
  <1>9. ASSUME NEW n \in Files!Fd, fds[n] = None, fds' = [fds EXCEPT ![n] = [conn |-> c, file |-> f]],
               fileMaps' = [fileMaps EXCEPT ![c].files[f] = n, ![c].names[n] = f],
               strays' = IF transfer[c].done THEN strays \cup {n} ELSE strays
        PROVE  TransferInv'
    <2> HIDE DEF f
    <2>1. /\ fileMaps' \in [Conn -> Maps \cup {None}] /\ fileMaps'[c] \in Maps
          /\ \A g \in File : fileMaps'[c].files[g] = IF g = f THEN n ELSE fileMaps[c].files[g]
          /\ \A d \in Conn \ {c} : fileMaps'[d] = fileMaps[d]
      <3>1. fileMaps \in [Conn -> Maps \cup {None}] /\ fileMaps[c] \in Maps /\ f \in File
        BY <1>2, <1>6, <1>7 DEF FileType
      <3>2. fileMaps' = Stored(fileMaps, c, f, n)
        BY <1>9 DEF Stored
      <3>3. QED
        BY <3>1, <3>2, MapStores
    <2>2. strays \in SUBSET strays' /\ strays' \in SUBSET Files!Fd /\ n # 0
      BY <1>6, <1>9, AllocatorsAssumption DEF FileType, Files!Fd
    <2>3. FilesInv' /\ Files!FilesOf(c)' = Files!FilesOf(c) \cup {n}
      BY <1>2, <1>5, <1>6, <1>7, <1>9, <2>1, <2>2, FileArrives
    <2>4. TransferType'
      BY <1>4, <1>5, <1>6 DEF TransferType
    <2>5. fileMaps'[c] # None
      BY <2>1, AllocatorsAssumption DEF Maps
    <2>6. heldFile[c] # None => heldFile[c] \in File
      BY <1>6 DEF TransferType
    <2>7. transfer[c].done => Files!FilesOf(c)' \subseteq strays'
      BY <1>6, <1>9, <2>3 DEF TransferIsSound
    <2>8. heldFile[c] # None /\ c \notin broken => transfer[c].done \/ fileMaps'[c].files[heldFile[c]] # 0
      BY <1>6, <2>1, <2>2, <2>6 DEF TransferIsSound
    <2>9. TransferIsSound(c)'
      BY <1>4, <1>5, <1>6, <2>5, <2>7, <2>8 DEF TransferIsSound
    <2>10. QED
      BY <1>4, <1>5, <2>1, <2>2, <2>3, <2>4, <2>9, OthersAreSound
  <1>10. QED
    BY <1>8, <1>9 DEF Files!RecvFile

\* A file does not arrive.
LEMMA ReceiveFails ==
    ASSUME TransferInv, NEW c \in Conn, Files!RecvFails(c)
    PROVE  TransferInv'
  BY Forgotten, Closed DEF Files!RecvFails

\* The next element of the server chooses a mechanism, or fails.
LEMMA NextServer ==
    ASSUME TransferInv, NEW c \in Conn, Files!ServerNext(c)
    PROVE  TransferInv'
  <1>1. CASE Files!Forget(c)
    BY <1>1, Forgotten DEF Files!ServerNext
  <1>2. ASSUME NEW f \in (IF transfer[c].op = "Request" THEN transfer[c].prefs ELSE {transfer[c].file}),
               transfer' = [transfer EXCEPT ![c].file = f, ![c].at = "swap"],
               UNCHANGED <<fds, fileMaps, heldFile, broken, strays>>
        PROVE  TransferInv'
    <2>1. transfer \in [Conn -> TransferCalls] /\ transfer[c] \in TransferCalls
      BY DEF TransferInv, TransferType
    <2>2. f \in File \cup {None} /\ (transfer[c].op = "Request" => f \in File)
      BY <1>2, <2>1 DEF TransferCalls
    <2>3. PICK one : one = [transfer EXCEPT ![c].file = f]
      OBVIOUS
    <2>4. /\ one \in [Conn -> TransferCalls] /\ \A d \in Conn \ {c} : one[d] = transfer[d]
          /\ one[c].file = f /\ one[c].op = transfer[c].op /\ one[c].done = transfer[c].done
      BY <2>1, <2>2, <2>3, FileUpdate
    <2>5. transfer' = [one EXCEPT ![c].at = "swap"]
      BY <1>2, <2>3
    <2>6. /\ transfer' \in [Conn -> TransferCalls] /\ \A d \in Conn \ {c} : transfer'[d] = one[d]
          /\ transfer'[c].file = one[c].file /\ transfer'[c].op = one[c].op /\ transfer'[c].done = one[c].done
      <3>1. "swap" \in {"next", "recv", "swap"}
        OBVIOUS
      <3>2. QED
        BY <2>4, <2>5, <3>1, AtUpdate
    <2>7. UNCHANGED <<kind, orphans>> /\ transfer[c].at = "recv" /\ TransferIsSound(c)
      BY DEF Files!ServerNext, Files!Received, TransferInv
    <2>8. fileMaps[c] # None
      BY <2>7 DEF TransferIsSound
    <2>9. QED
      BY <1>2, <2>2, <2>4, <2>6, <2>7, <2>8, CallMoves
  <1>3. QED
    BY <1>1, <1>2 DEF Files!ServerNext

\* Files of a map are closed and leave it.
LEMMA FilesAreClosed ==
    ASSUME FilesInv, NEW c \in Conn, NEW closed \in SUBSET Files!FilesOf(c), fileMaps[c] # None,
           fds' = [n \in Files!Fd |-> IF n \in closed THEN None ELSE fds[n]],
           fileMaps' \in [Conn -> Maps \cup {None}], fileMaps'[c] \in Maps,
           \A g \in File : fileMaps'[c].files[g] = IF fileMaps[c].files[g] \in closed THEN 0 ELSE fileMaps[c].files[g],
           \A d \in Conn \ {c} : fileMaps'[d] = fileMaps[d],
           UNCHANGED <<orphans, strays>>
    PROVE  FilesInv' /\ fileMaps'[c] # None /\ Files!FilesOf(c)' = Files!FilesOf(c) \ closed
  <1>1. FileType
    BY DEF FilesInv
  <1>2. fileMaps'[c] # None /\ fileMaps'[c].files \in [File -> 0 .. MaxFd]
    BY AllocatorsAssumption DEF Maps
  <1>3. FileType'
    BY <1>1 DEF FileType
  <1>4. Files!FilesOf(c)' = Files!FilesOf(c) \ closed
    <2>1. \A n : n \in Files!FilesOf(c)' <=> n # 0 /\ \E g \in File : fileMaps'[c].files[g] = n
      BY <1>2 DEF Files!FilesOf, Files!Range
    <2>2. \A n : n \in Files!FilesOf(c) <=> n # 0 /\ \E g \in File : fileMaps[c].files[g] = n
      BY <1>1, FilesOfMap
    <2>3. \A n : n \in Files!FilesOf(c)' <=> n \in Files!FilesOf(c) \ closed
      BY <2>1, <2>2
    <2>4. QED
      BY <2>3
  <1>5. FilesInv'
    <2>1. \A n \in Files!Fd : fds'[n] = IF n \in closed THEN None ELSE fds[n]
      OBVIOUS
    <2>2. \A g \in File : fileMaps'[c] # None /\ fileMaps'[c].files[g] # 0 =>
               fileMaps[c] # None /\ fileMaps'[c].files[g] = fileMaps[c].files[g] /\ fileMaps[c].files[g] \notin closed
      OBVIOUS
    <2>3. Files!FilesOf(c) \in SUBSET (closed \cup Files!FilesOf(c)' \cup orphans' \cup strays')
      BY <1>4
    <2>4. orphans \in SUBSET orphans' /\ strays \in SUBSET strays'
          /\ orphans' \ orphans \in SUBSET (Files!FilesOf(c) \ (closed \cup Files!FilesOf(c)'))
      OBVIOUS
    <2>5. QED
      BY <1>3, <2>1, <2>2, <2>3, <2>4, FilesShrink
  <1>6. QED
    BY <1>2, <1>4, <1>5

\* A Request returns through the server of recvfd, which closes the files that were not selected.
LEMMA RequestReturns ==
    ASSUME TransferInv, NEW c \in Conn, Files!ServerReturns(c), kind \in {"server", "nseServer"}
    PROVE  TransferInv'
  <1> DEFINE f == transfer[c].file
             closed == Files!unselected(c, f)
  <1>1. TransferType /\ FilesInv /\ FileType /\ TransferIsSound(c)
    BY DEF TransferInv, FilesInv
  <1>2. transfer[c].at = "swap" /\ transfer[c].op = "Request" /\ Files!Ends(c) /\ UNCHANGED <<kind, orphans>>
    BY DEF Files!ServerReturns
  <1>3. f \in File /\ fileMaps[c] # None /\ ~ transfer[c].done
    BY <1>1, <1>2 DEF TransferIsSound
  <1>4. /\ transfer' \in [Conn -> TransferCalls] /\ \A d \in Conn \ {c} : transfer'[d] = transfer[d]
        /\ transfer'[c].op = "none" /\ transfer'[c].at = "none" /\ ~ transfer'[c].done
    BY <1>1, <1>2, CallEnds
  <1>5. closed \in SUBSET Files!FilesOf(c) /\ fileMaps[c].files[f] \notin closed
    BY <1>1, <1>3, FilesOfMap DEF Files!unselected
  <1>6. fds' = [n \in Files!Fd |-> IF n \in closed THEN None ELSE fds[n]]
    BY DEF Files!ServerReturns
  <1>7. ASSUME broken' = broken \ {c}, UNCHANGED strays,
               fileMaps' = [fileMaps EXCEPT ![c].files =
                               [g \in File |-> IF fileMaps[c].files[g] \in closed THEN 0 ELSE fileMaps[c].files[g]]],
               heldFile' = [heldFile EXCEPT ![c] = IF fileMaps[c].files[f] = 0 THEN None ELSE f]
        PROVE  TransferInv'
    <2> HIDE DEF closed
    <2>1. /\ FilesInv' /\ fileMaps'[c] # None
          /\ \A g \in File : fileMaps'[c].files[g] =
                IF fileMaps[c].files[g] \in closed THEN 0 ELSE fileMaps[c].files[g]
          /\ \A d \in Conn \ {c} : fileMaps'[d] = fileMaps[d]
      <3>1. fileMaps \in [Conn -> Maps \cup {None}] /\ fileMaps[c] \in Maps /\ fileMaps[c].files \in [File -> 0 .. MaxFd]
        BY <1>1, <1>3 DEF FileType, Maps
      <3>2. PICK F : F = [g \in File |-> IF fileMaps[c].files[g] \in closed THEN 0 ELSE fileMaps[c].files[g]]
        OBVIOUS
      <3>3. F \in [File -> 0 .. MaxFd]
        BY <3>1, <3>2, AllocatorsAssumption
      <3>4. fileMaps' = WithFiles(fileMaps, c, F)
        BY <1>7, <3>2 DEF WithFiles
      <3>5. /\ fileMaps' \in [Conn -> Maps \cup {None}] /\ fileMaps'[c] \in Maps /\ fileMaps'[c].files = F
            /\ \A d \in Conn \ {c} : fileMaps'[d] = fileMaps[d]
        BY <3>1, <3>3, <3>4, MapFiles
      <3>6. \A g \in File : fileMaps'[c].files[g] = IF fileMaps[c].files[g] \in closed THEN 0 ELSE fileMaps[c].files[g]
        BY <3>2, <3>5
      <3>7. UNCHANGED <<orphans, strays>>
        BY <1>2, <1>7
      <3>8. FilesInv' /\ fileMaps'[c] # None
        BY <1>1, <1>3, <1>5, <1>6, <3>5, <3>6, <3>7, FilesAreClosed
      <3>9. QED
        BY <3>5, <3>6, <3>8
    <2>2. /\ heldFile' \in [Conn -> File \cup {None}] /\ \A d \in Conn \ {c} : heldFile'[d] = heldFile[d]
          /\ heldFile'[c] = IF fileMaps[c].files[f] = 0 THEN None ELSE f
      BY <1>1, <1>3, <1>7 DEF TransferType
    <2>3. TransferType'
      BY <1>1, <1>4, <1>7, <2>2 DEF TransferType
    <2>4. TransferIsSound(c)'
      BY <1>3, <1>4, <1>5, <1>7, <2>1, <2>2 DEF TransferIsSound
    <2>5. QED
      BY <1>2, <1>4, <1>7, <2>1, <2>2, <2>3, <2>4, OthersAreSound
  <1>8. QED
    BY <1>7 DEF Files!ServerReturns

\* The next server answers a Request, or fails.
LEMMA NextAnswers ==
    ASSUME TransferInv, NEW c \in Conn, Files!sendFDServer_Request(c)
    PROVE  TransferInv'
  <1>1. TransferType /\ FilesInv /\ FileType /\ TransferIsSound(c) /\ transfer[c] \in TransferCalls
    BY DEF TransferInv, FilesInv, TransferType
  <1>2. kind = "client" /\ transfer[c].op = "Request" /\ UNCHANGED <<kind, fds, heldFile, broken, orphans, strays>>
    BY DEF Files!sendFDServer_Request, Files!AtNext
  <1>3. ~ transfer[c].done
    BY <1>1, <1>2 DEF TransferIsSound
  <1>4. ASSUME NEW f \in transfer[c].prefs, transfer' = [transfer EXCEPT ![c].file = f, ![c].at = "recv", ![c].todo = <<f>>],
               fileMaps' = IF fileMaps[c] = None THEN [fileMaps EXCEPT ![c] = Files!NewMap] ELSE fileMaps
        PROVE  TransferInv'
    <2>1. f \in File /\ f \in File \cup {None} /\ <<f>> \in Seq(File) /\ transfer \in [Conn -> TransferCalls]
          /\ "recv" \in {"next", "recv", "swap"}
      BY <1>1 DEF TransferCalls, TransferType
    <2>2. PICK one : one = [transfer EXCEPT ![c].file = f]
      OBVIOUS
    <2>3. /\ one \in [Conn -> TransferCalls] /\ \A d \in Conn \ {c} : one[d] = transfer[d]
          /\ one[c].file = f /\ one[c].op = transfer[c].op /\ one[c].done = transfer[c].done
      BY <2>1, <2>2, FileUpdate
    <2>4. PICK two : two = [one EXCEPT ![c].at = "recv"]
      OBVIOUS
    <2>5. /\ two \in [Conn -> TransferCalls] /\ \A d \in Conn \ {c} : two[d] = one[d]
          /\ two[c].file = one[c].file /\ two[c].op = one[c].op /\ two[c].done = one[c].done
      BY <2>1, <2>3, <2>4, AtUpdate
    <2>6. transfer' = [two EXCEPT ![c].todo = <<f>>]
      BY <1>4, <2>2, <2>4
    <2>7. /\ transfer' \in [Conn -> TransferCalls] /\ \A d \in Conn \ {c} : transfer'[d] = two[d]
          /\ transfer'[c].file = two[c].file /\ transfer'[c].op = two[c].op /\ transfer'[c].done = two[c].done
      <3>1. PICK t \in Seq(File) : transfer' = [two EXCEPT ![c].todo = t]
        BY <2>1, <2>6
      <3>2. QED
        BY <2>5, <3>1, TodoUpdate
    <2>8. \/ UNCHANGED fileMaps /\ fileMaps[c] # None
          \/ fileMaps[c] = None /\ fileMaps' = [fileMaps EXCEPT ![c] = Files!NewMap] /\ fileMaps' # fileMaps
      <3>1. Files!NewMap # None
        <4>1. Files!NewMap \in Maps
          BY AllocatorsAssumption DEF Files!NewMap, Maps, Files!Fd
        <4>2. QED
          BY <4>1, AllocatorsAssumption DEF Maps
      <3>2. QED
        BY <1>1, <1>4, <3>1 DEF FileType
    <2>9. /\ transfer'[c].file = f /\ transfer'[c].op = "Request" /\ ~ transfer'[c].done
          /\ \A d \in Conn \ {c} : transfer'[d] = transfer[d]
      BY <1>2, <1>3, <2>3, <2>5, <2>7
    <2>10. QED
      BY <1>2, <1>3, <2>1, <2>7, <2>8, <2>9, CallMoves
  <1>5. CASE Files!Ends(c) /\ UNCHANGED fileMaps
    <2>1. /\ transfer' \in [Conn -> TransferCalls] /\ \A d \in Conn \ {c} : transfer'[d] = transfer[d]
          /\ transfer'[c].op = "none" /\ transfer'[c].at = "none" /\ ~ transfer'[c].done
      BY <1>1, <1>5, CallEnds
    <2>2. QED
      BY <1>2, <1>3, <1>5, <2>1, CallMoves
  <1>6. QED
    BY <1>4, <1>5 DEF Files!sendFDServer_Request

\* The next server answers a Close, or fails.
LEMMA NextCloses ==
    ASSUME TransferInv, NEW c \in Conn, Files!sendFDServer_Close(c)
    PROVE  TransferInv'
  <1>1. CASE Files!ClientClosed(c)
    BY <1>1, Closed DEF Files!sendFDServer_Close
  <1>2. CASE transfer' = [transfer EXCEPT ![c].at = "recv"] /\ UNCHANGED <<fileMaps, heldFile, broken, orphans>>
    <2>1. transfer \in [Conn -> TransferCalls] /\ TransferIsSound(c) /\ "recv" \in {"next", "recv", "swap"}
      BY DEF TransferInv, TransferType
    <2>2. /\ transfer' \in [Conn -> TransferCalls] /\ \A d \in Conn \ {c} : transfer'[d] = transfer[d]
          /\ transfer'[c].op = transfer[c].op /\ transfer'[c].file = transfer[c].file /\ transfer'[c].done = transfer[c].done
      <3>1. PICK x \in {"next", "recv", "swap"} : transfer' = [transfer EXCEPT ![c].at = x]
        BY <1>2
      <3>2. QED
        BY <2>1, <3>1, AtUpdate
    <2>3. transfer[c].op = "Close" /\ UNCHANGED <<kind, fds, strays>>
      BY DEF Files!sendFDServer_Close, Files!AtNext
    <2>4. fileMaps[c] # None
      BY <2>1, <2>3 DEF TransferIsSound
    <2>5. QED
      BY <1>2, <2>2, <2>3, <2>4, CallMoves
  <1>3. QED
    BY <1>1, <1>2 DEF Files!sendFDServer_Close

\* A Request returns through the client of recvfd.
LEMMA ClientReturns ==
    ASSUME TransferInv, NEW c \in Conn, Files!recvFDClient_Request(c)
    PROVE  TransferInv'
  <1> DEFINE f == transfer[c].file
  <1>1. TransferType /\ FilesInv /\ TransferIsSound(c)
    BY DEF TransferInv
  <1>2. /\ kind = "client" /\ transfer[c].op = "Request" /\ transfer[c].at = "recv" /\ Files!Ends(c)
        /\ heldFile' = [heldFile EXCEPT ![c] = IF fileMaps[c].files[f] # 0 THEN f ELSE None]
        /\ broken' = broken \ {c} /\ UNCHANGED <<kind, fds, fileMaps, orphans, strays>>
    BY DEF Files!recvFDClient_Request, Files!Received
  <1>3. f \in File /\ fileMaps[c] # None /\ ~ transfer[c].done
    BY <1>1, <1>2 DEF TransferIsSound
  <1>4. /\ transfer' \in [Conn -> TransferCalls] /\ \A d \in Conn \ {c} : transfer'[d] = transfer[d]
        /\ transfer'[c].op = "none" /\ transfer'[c].at = "none" /\ ~ transfer'[c].done
    BY <1>1, <1>2, CallEnds
  <1>5. /\ heldFile' \in [Conn -> File \cup {None}] /\ \A d \in Conn \ {c} : heldFile'[d] = heldFile[d]
        /\ heldFile'[c] = IF fileMaps[c].files[f] # 0 THEN f ELSE None
    BY <1>1, <1>2, <1>3 DEF TransferType
  <1>6. TransferType'
    BY <1>1, <1>2, <1>4, <1>5 DEF TransferType
  <1>7. FilesInv'
    BY <1>1, <1>2, MapIsMade
  <1>8. TransferIsSound(c)'
    BY <1>2, <1>3, <1>4, <1>5 DEF TransferIsSound
  <1>9. QED
    BY <1>2, <1>4, <1>5, <1>6, <1>7, <1>8, OthersAreSound

\* An answer of Find has been received.
LEMMA FindReturns ==
    ASSUME TransferInv, NEW c \in Conn, Files!recvfdNSEFindClient_Recv(c)
    PROVE  TransferInv'
  <1>1. TransferType /\ TransferIsSound(c)
    BY DEF TransferInv
  <1>2. kind = "findClient" /\ Files!Ends(c) /\ UNCHANGED <<kind, fds, fileMaps, heldFile, broken, orphans, strays>>
    BY DEF Files!recvfdNSEFindClient_Recv
  <1>3. ~ transfer[c].done
    BY <1>1, <1>2 DEF TransferIsSound
  <1>4. /\ transfer' \in [Conn -> TransferCalls] /\ \A d \in Conn \ {c} : transfer'[d] = transfer[d]
        /\ transfer'[c].op = "none" /\ transfer'[c].at = "none" /\ ~ transfer'[c].done
    BY <1>1, <1>2, CallEnds
  <1>5. QED
    BY <1>2, <1>3, <1>4, CallMoves

\* The context of a Close is done: the map loses all of its files.
LEMMA ContextDone ==
    ASSUME TransferInv, NEW c \in Conn, Files!CtxDone(c)
    PROVE  TransferInv'
  <1>1. TransferType /\ FilesInv /\ FileType /\ TransferIsSound(c)
    BY DEF TransferInv, FilesInv
  <1>2. /\ kind = "client" /\ transfer[c].op = "Close" /\ UNCHANGED <<kind, heldFile, broken, orphans, strays>>
        /\ transfer' = [transfer EXCEPT ![c].done = TRUE]
    BY DEF Files!CtxDone
  <1>3. fileMaps[c] # None
    BY <1>1, <1>2 DEF TransferIsSound
  <1>4. /\ transfer' \in [Conn -> TransferCalls] /\ \A d \in Conn \ {c} : transfer'[d] = transfer[d]
        /\ transfer'[c].done /\ transfer'[c].op = "Close"
    <2>1. transfer \in [Conn -> TransferCalls] /\ transfer[c] \in TransferCalls
      BY <1>1 DEF TransferType
    <2>2. PICK r : r = [transfer[c] EXCEPT !.done = TRUE]
      OBVIOUS
    <2>3. r \in TransferCalls /\ r.done /\ r.op = transfer[c].op
      BY <2>1, <2>2 DEF TransferCalls
    <2>4. transfer' = [transfer EXCEPT ![c] = r]
      BY <1>2, <2>2
    <2>5. QED
      BY <1>2, <2>1, <2>3, <2>4
  <1>5. fileMaps \in [Conn -> Maps \cup {None}] /\ fileMaps[c] \in Maps /\ fileMaps[c].files \in [File -> 0 .. MaxFd]
    BY <1>1, <1>3 DEF FileType, Maps
  <1>6. PICK F : F = [g \in File |-> 0]
    OBVIOUS
  <1>7. F \in [File -> 0 .. MaxFd]
    BY <1>6, AllocatorsAssumption
  <1>8. fileMaps' = WithFiles(fileMaps, c, F)
    BY <1>6 DEF Files!CtxDone, WithFiles
  <1>9. /\ fileMaps' \in [Conn -> Maps \cup {None}] /\ fileMaps'[c] \in Maps /\ fileMaps'[c].files = F
        /\ \A d \in Conn \ {c} : fileMaps'[d] = fileMaps[d]
    BY <1>5, <1>7, <1>8, MapFiles
  <1>10. \A g \in File : fileMaps'[c].files[g] = IF fileMaps[c].files[g] \in Files!FilesOf(c) THEN 0 ELSE fileMaps[c].files[g]
    BY <1>1, <1>3, <1>6, <1>9, FilesOfMap
  <1>11. fds' = [n \in Files!Fd |-> IF n \in Files!FilesOf(c) THEN None ELSE fds[n]]
    BY DEF Files!CtxDone
  <1>12. FilesInv' /\ fileMaps'[c] # None /\ Files!FilesOf(c)' = Files!FilesOf(c) \ Files!FilesOf(c)
    BY <1>1, <1>2, <1>3, <1>9, <1>10, <1>11, FilesAreClosed
  <1>13. TransferType'
    BY <1>1, <1>2, <1>4 DEF TransferType
  <1>14. TransferIsSound(c)'
    BY <1>1, <1>2, <1>4, <1>12 DEF TransferIsSound
  <1>15. QED
    BY <1>2, <1>4, <1>9, <1>12, <1>13, <1>14, OthersAreSound

\* TransferInv is inductive.
LEMMA FilesStep ==
    ASSUME TransferInv, Files!FDsNext
    PROVE  TransferInv'
  <1>1. CASE Files!CtxDoneLater
    <2>1. FilesInv'
      BY <1>1, OrphansAreClosed DEF TransferInv
    <2>2. UNCHANGED <<kind, fileMaps, transfer, heldFile, broken, strays>>
      BY <1>1 DEF Files!CtxDoneLater
    <2>3. \A c \in Conn : Files!FilesOf(c)' = Files!FilesOf(c)
      BY <2>2 DEF Files!FilesOf
    <2>4. \A c \in Conn : TransferIsSound(c)'
      BY <2>2, <2>3 DEF TransferInv, TransferIsSound
    <2>5. QED
      BY <2>1, <2>2, <2>4 DEF TransferInv, TransferType
  <1>2. ASSUME NEW c \in Conn, NEW prefs \in SUBSET File, Files!sendFDClient_Request(c, prefs)
        PROVE  TransferInv'
    <2>1. (prefs \cup (IF heldFile[c] = None THEN {} ELSE {heldFile[c]})) \in SUBSET File
      BY DEF TransferInv, TransferType
    <2>2. QED
      BY <1>2, <2>1, RequestSent DEF Files!sendFDClient_Request
  <1>3. ASSUME NEW c \in Conn, NEW url \in File, Files!sendFDNSEClient_Register(c, url) \/ Files!sendfdNSEFindServer_Send(c, url)
        PROVE  TransferInv'
    BY <1>3, RequestSent DEF Files!sendFDNSEClient_Register, Files!sendfdNSEFindServer_Send
  <1>4. ASSUME NEW c \in Conn, Files!sendFDClient_Close(c) \/ Files!sendFDNSEClient_Unregister(c)
        PROVE  TransferInv'
    BY <1>4, CloseSent DEF Files!sendFDClient_Close, Files!sendFDNSEClient_Unregister
  <1>5. ASSUME NEW c \in Conn, Files!recvFDAndSwapInodeToFile(c) \/ Files!recvFDAndSwapInodeToUnix(c)
        PROVE  TransferInv'
    BY <1>5, KnownReceived, FileReceived, ReceiveFails DEF Files!recvFDAndSwapInodeToFile, Files!recvFDAndSwapInodeToUnix
  <1>6. ASSUME NEW c \in Conn, Files!recvFDServer_Request(c) \/ Files!recvfdNseServer_Register(c)
        PROVE  TransferInv'
    BY <1>6, NextServer, RequestReturns DEF Files!recvFDServer_Request, Files!recvfdNseServer_Register
  <1>7. ASSUME NEW c \in Conn, Files!recvFDServer_Close(c) \/ Files!recvfdNseServer_Unregister(c)
        PROVE  TransferInv'
    BY <1>7, NextServer, Forgotten DEF Files!recvFDServer_Close, Files!recvfdNseServer_Unregister, Files!ServerCloses
  <1>8. ASSUME NEW c \in Conn, Files!recvFDClient_Close(c)
        PROVE  TransferInv'
    BY <1>8, Closed DEF Files!recvFDClient_Close
  <1>9. QED
    BY <1>1, <1>2, <1>3, <1>4, <1>5, <1>6, <1>7, <1>8, NextAnswers, NextCloses, ClientReturns, FindReturns, ContextDone
    DEF Files!FDsNext

-----------------------------------------------------------------------------
(* Addresses of an ipam.                                                   *)

\* A set of addresses has a first one, which Min is.
LEMMA IpamMin ==
    ASSUME NEW S \in SUBSET Nat, S # {}
    PROVE  Ipam!Min(S) \in S /\ \A n \in S : Ipam!Min(S) <= n
  BY LeastExists DEF Ipam!Min

\* What pulling addresses out of the pools ps may return.
Takes(ps, x) ==
    /\ DOMAIN x.pools = DOMAIN ps
    /\ \A i \in DOMAIN ps : x.pools[i] \subseteq ps[i]
    /\ x.info # Ipam!NoInfo =>
          /\ x.info.pool \in DOMAIN ps /\ Ipam!OwnOf(x.info) \subseteq ps[x.info.pool]
          /\ Ipam!OwnOf(x.info) \cap x.pools[x.info.pool] = {}

\* Free addresses are in the networks of their pools.
PoolsFit(ps) ==
    DOMAIN ps = DOMAIN Networks /\ \A i \in DOMAIN Networks : ps[i] \subseteq Networks[i]

\* Pools hold addresses, which are positive, as their positions are.
LEMMA FitNumbers ==
    ASSUME NEW ps, PoolsFit(ps)
    PROVE  /\ DOMAIN ps \in SUBSET Nat /\ 0 \notin DOMAIN ps
           /\ \A i \in DOMAIN ps : ps[i] \in SUBSET Nat /\ 0 \notin ps[i]
  <1>1. Networks \in Seq(SUBSET (Nat \ {0}))
    BY AllocatorsAssumption
  <1>2. DOMAIN Networks \in SUBSET Nat /\ 0 \notin DOMAIN Networks /\ \A i \in DOMAIN Networks : Networks[i] \in SUBSET (Nat \ {0})
    BY <1>1
  <1>3. QED
    BY <1>2 DEF PoolsFit

\* The first of some addresses that a pool has.
LEMMA FirstInPool ==
    ASSUME NEW list \in Seq(Nat), NEW pool
    PROVE  Ipam!FirstIn(list, pool) = 0 \/ Ipam!FirstIn(list, pool) \in pool
  <1> DEFINE ok == {k \in DOMAIN list : list[k] \in pool}
  <1>1. ok \in SUBSET Nat
    OBVIOUS
  <1>2. ok # {} => Ipam!Min(ok) \in ok
    BY <1>1, IpamMin
  <1>3. QED
    BY <1>2 DEF Ipam!FirstIn

\* deleteAddr leaves a sequence of addresses.
LEMMA AddrDeleted ==
    ASSUME NEW list \in Seq(Nat), NEW addr
    PROVE  Ipam!deleteAddr(list, addr) \in Seq(Nat)
  <1> DEFINE equal == {k \in DOMAIN list : list[k] = addr}
  <1>1. equal \in SUBSET Nat
    OBVIOUS
  <1>2. equal # {} => Ipam!Min(equal) \in DOMAIN list
    BY <1>1, IpamMin
  <1>3. ASSUME NEW k \in DOMAIN list
        PROVE  Ipam!RemoveAt(list, k) \in Seq(Nat)
    <2>1. k \in 1 .. Len(list)
      OBVIOUS
    <2>2. SubSeq(list, 1, k - 1) \in Seq(Nat) /\ SubSeq(list, k + 1, Len(list)) \in Seq(Nat)
      BY <2>1
    <2>3. QED
      BY <2>2 DEF Ipam!RemoveAt
  <1>4. QED
    BY <1>2, <1>3 DEF Ipam!deleteAddr

\* recoverAddrs takes the addresses it returns out of their pool and puts none back.
LEMMA Recovers ==
    ASSUME NEW ps, PoolsFit(ps), NEW ss \in Seq(Nat), NEW ds \in Seq(Nat), NEW ex, server = "p2p"
    PROVE  Takes(ps, Ipam!recoverAddrs(ps, ss, ds, ex))
  <1> DEFINE src(i) == Ipam!FirstIn(ss, ps[i] \ ex)
             dst(i) == Ipam!FirstIn(ds, ps[i] \ (ex \cup {src(i)}))
             pairs == {i \in DOMAIN ps : src(i) # 0 /\ dst(i) # 0}
             tried == {i \in DOMAIN ps : \A j \in pairs : i <= j}
             left == [i \in DOMAIN ps |-> IF i \in tried THEN ps[i] \ {src(i), dst(i)} ELSE ps[i]]
             found == IF pairs = {} THEN Ipam!NoInfo
                      ELSE [pool |-> Ipam!Min(pairs), src |-> src(Ipam!Min(pairs)), dst |-> dst(Ipam!Min(pairs))]
             x == Ipam!recoverAddrs(ps, ss, ds, ex)
  <1>1. x = IF ss = <<>> \/ ds = <<>> THEN [pools |-> ps, info |-> Ipam!NoInfo]
            ELSE [pools |-> left, info |-> found]
    BY DEF Ipam!recoverAddrs
  <1>2. \A i \in pairs : src(i) \in ps[i] /\ dst(i) \in ps[i]
    BY FirstInPool
  <1>3. pairs # {} => Ipam!Min(pairs) \in pairs /\ Ipam!Min(pairs) \in tried
    <2>1. pairs \in SUBSET Nat
      BY FitNumbers
    <2>2. QED
      BY <2>1, IpamMin
  <1>4. pairs \in SUBSET DOMAIN ps
    OBVIOUS
  <1> HIDE DEF x, src, dst, pairs, tried
  <1>5. SUFFICES Takes(ps, x)
    BY DEF x
  <1>6. CASE ss = <<>> \/ ds = <<>>
    BY <1>1, <1>6 DEF Takes
  <1>7. CASE ~(ss = <<>> \/ ds = <<>>)
    <2>1. x.pools = left /\ x.info = found
      BY <1>1, <1>7
    <2>2. DOMAIN x.pools = DOMAIN ps /\ \A i \in DOMAIN ps : x.pools[i] \subseteq ps[i]
      BY <2>1
    <2>3. ASSUME x.info # Ipam!NoInfo
          PROVE  /\ x.info.pool \in DOMAIN ps /\ Ipam!OwnOf(x.info) \subseteq ps[x.info.pool]
                 /\ Ipam!OwnOf(x.info) \cap x.pools[x.info.pool] = {}
      <3>1. PICK i \in pairs : i = Ipam!Min(pairs) /\ i \in tried /\ i \in DOMAIN ps
        BY <1>3, <1>4, <2>1, <2>3
      <3>2. x.info = [pool |-> i, src |-> src(i), dst |-> dst(i)]
        BY <2>1, <2>3, <3>1
      <3>3. Ipam!OwnOf(x.info) = {src(i), dst(i)} /\ x.info.pool = i
        BY <2>3, <3>2 DEF Ipam!OwnOf
      <3>4. x.pools[i] = ps[i] \ {src(i), dst(i)}
        BY <2>1, <3>1
      <3>5. QED
        BY <1>2, <3>1, <3>3, <3>4
    <2>4. QED
      BY <2>2, <2>3 DEF Takes
  <1>8. QED
    BY <1>6, <1>7

\* getP2PAddrs takes two addresses of one pool out of it.
LEMMA GetsPair ==
    ASSUME NEW ps, PoolsFit(ps), NEW ex, server = "p2p"
    PROVE  Takes(ps, Ipam!getP2PAddrs(ps, ex))
  <1> DEFINE ok == {i \in DOMAIN ps : Ipam!Cardinality(ps[i] \ ex) >= 2}
             i == Ipam!Min(ok)
             d == Ipam!Min(ps[i] \ ex)
             s == Ipam!Min(ps[i] \ (ex \cup {d}))
             x == Ipam!getP2PAddrs(ps, ex)
  <1>1. x = IF ok = {} THEN [pools |-> ps, info |-> Ipam!NoInfo]
            ELSE [pools |-> [ps EXCEPT ![i] = @ \ {s, d}], info |-> [pool |-> i, src |-> s, dst |-> d]]
    BY DEF Ipam!getP2PAddrs
  <1>2. CASE ok = {}
    BY <1>1, <1>2 DEF Takes
  <1>3. CASE ok # {}
    <2>1. ok \in SUBSET Nat
      BY FitNumbers
    <2>2. i \in ok
      BY <1>3, <2>1, IpamMin
    <2>3. i \in DOMAIN ps /\ Cardinality(ps[i] \ ex) >= 2
      <3>1. Ipam!Cardinality(ps[i] \ ex) = Cardinality(ps[i] \ ex)
        BY DEF Ipam!Cardinality, Cardinality
      <3>2. QED
        BY <2>2, <3>1
    <2> HIDE DEF i
    <2>4. ps[i] \in SUBSET Nat
      BY <2>3, FitNumbers
    <2>5. d \in ps[i] \ ex
      <3>1. ps[i] \ ex # {}
        <4>1. Cardinality({}) = 0
          BY FS_EmptySet
        <4>2. QED
          BY <2>3, <4>1
      <3>2. (ps[i] \ ex) \in SUBSET Nat
        BY <2>4
      <3>3. QED
        BY <3>1, <3>2, IpamMin
    <2> HIDE DEF d
    <2>6. s \in ps[i]
      <3>1. ps[i] \ (ex \cup {d}) # {}
        <4>1. SUFFICES ASSUME ps[i] \ (ex \cup {d}) = {}
                       PROVE  FALSE
          OBVIOUS
        <4>2. ps[i] \ ex = {d}
          BY <2>5, <4>1
        <4>3. Cardinality({d}) = 1
          BY FS_Singleton
        <4>4. QED
          BY <2>3, <4>2, <4>3
      <3>2. (ps[i] \ (ex \cup {d})) \in SUBSET Nat
        BY <2>4
      <3>3. QED
        BY <3>1, <3>2, IpamMin
    <2> HIDE DEF s, x
    <2>7. x.pools = [ps EXCEPT ![i] = @ \ {s, d}] /\ x.info = [pool |-> i, src |-> s, dst |-> d]
      BY <1>1, <1>3
    <2>8. /\ DOMAIN x.pools = DOMAIN ps /\ (\A k \in DOMAIN ps : x.pools[k] \subseteq ps[k])
          /\ x.pools[i] = ps[i] \ {s, d}
      BY <2>3, <2>7
    <2>9. Ipam!OwnOf(x.info) \in SUBSET {s, d} /\ x.info.pool = i
      BY <2>7 DEF Ipam!OwnOf
    <2>10. Takes(ps, x)
      BY <2>3, <2>5, <2>6, <2>8, <2>9 DEF Takes
    <2>11. QED
      BY <2>10 DEF x
  <1>4. QED
    BY <1>2, <1>3

\* What Pull leaves behind.
LEMMA PullsPast ==
    ASSUME NEW pool \in SUBSET Nat, NEW ex
    PROVE  /\ Ipam!PullPast(pool, ex) \subseteq pool
           /\ pool \ ex # {} => Ipam!Min(pool \ ex) \in pool /\ Ipam!Min(pool \ ex) \notin Ipam!PullPast(pool, ex)
  <1>1. (pool \ ex) \in SUBSET Nat
    OBVIOUS
  <1>2. ASSUME pool \ ex # {}
        PROVE  Ipam!Min(pool \ ex) \in pool /\ Ipam!Min(pool \ ex) \notin Ipam!PullPast(pool, ex)
    <2>1. PICK n \in pool : n = Ipam!Min(pool \ ex) /\ n \in Nat
      BY <1>1, <1>2, IpamMin
    <2>2. QED
      BY <2>1 DEF Ipam!PullPast
  <1>3. QED
    BY <1>2 DEF Ipam!PullPast

\* getAddrs takes the address it returns out of its pool, whatever it skips.
LEMMA GetsAddress ==
    ASSUME NEW ps, PoolsFit(ps), NEW mine, NEW ex, server = "single"
    PROVE  Takes(ps, Ipam!getAddrs(ps, mine, ex))
  <1> DEFINE unset(i) == i > Len(mine)
             pull(i) == unset(i) \/ mine[i] \in ex
             mineSet(i) == ~ pull(i) \/ ps[i] \ ex # {}
             my(i) == IF ~ pull(i) \/ ps[i] = {} THEN mine[i]
                      ELSE IF mineSet(i) THEN Ipam!Min(ps[i] \ ex) ELSE Ipam!Max(ps[i])
             left(i) == IF pull(i) THEN Ipam!PullPast(ps[i], ex) ELSE ps[i]
             found == {i \in DOMAIN ps : mineSet(i) /\ left(i) \ ex # {}}
             tried == {i \in DOMAIN ps : ~(unset(i) /\ ps[i] = {}) /\ \A j \in found : i <= j}
             x == Ipam!getAddrs(ps, mine, ex)
  <1>1. /\ x.pools = [i \in DOMAIN ps |-> IF i \notin tried THEN ps[i]
                                         ELSE IF mineSet(i) THEN Ipam!PullPast(left(i), ex) ELSE {}]
        /\ x.info = IF found = {} THEN Ipam!NoInfo
                    ELSE [pool |-> Ipam!Min(found), src |-> Ipam!Min(left(Ipam!Min(found)) \ ex), dst |-> my(Ipam!Min(found))]
    BY DEF Ipam!getAddrs
  <1>2. \A i \in DOMAIN ps : left(i) \in SUBSET Nat /\ left(i) \subseteq ps[i]
    BY FitNumbers, PullsPast
  <1>3. \A i \in DOMAIN ps : Ipam!PullPast(left(i), ex) \subseteq left(i)
    BY <1>2, PullsPast
  <1>4. found # {} => /\ Ipam!Min(found) \in found /\ Ipam!Min(found) \in tried
                      /\ Ipam!Min(found) \in DOMAIN ps /\ mineSet(Ipam!Min(found)) /\ left(Ipam!Min(found)) \ ex # {}
    <2>1. found \in SUBSET Nat
      BY FitNumbers
    <2>2. ASSUME found # {}
          PROVE  Ipam!Min(found) \in found /\ \A j \in found : Ipam!Min(found) <= j
      BY <2>1, <2>2, IpamMin
    <2>3. \A i \in found : ps[i] # {}
      BY <1>2
    <2>4. QED
      BY <2>2, <2>3
  <1> HIDE DEF x, unset, my, left, found, tried, mineSet
  <1>5. SUFFICES Takes(ps, x)
    BY DEF x
  <1>6. DOMAIN x.pools = DOMAIN ps /\ \A i \in DOMAIN ps : x.pools[i] \subseteq ps[i]
    BY <1>1, <1>2, <1>3
  <1>7. ASSUME x.info # Ipam!NoInfo
        PROVE  /\ x.info.pool \in DOMAIN ps /\ Ipam!OwnOf(x.info) \subseteq ps[x.info.pool]
               /\ Ipam!OwnOf(x.info) \cap x.pools[x.info.pool] = {}
    <2>1. PICK i \in DOMAIN ps : i = Ipam!Min(found) /\ i \in tried /\ mineSet(i) /\ left(i) \ ex # {}
      BY <1>1, <1>4, <1>7
    <2>2. x.info = [pool |-> i, src |-> Ipam!Min(left(i) \ ex), dst |-> my(i)]
      BY <1>1, <1>7, <2>1
    <2>3. Ipam!OwnOf(x.info) = {Ipam!Min(left(i) \ ex)} /\ x.info.pool = i
      BY <1>7, <2>2 DEF Ipam!OwnOf
    <2>4. x.pools[i] = Ipam!PullPast(left(i), ex)
      BY <1>1, <2>1
    <2>5. Ipam!Min(left(i) \ ex) \in left(i) /\ Ipam!Min(left(i) \ ex) \notin Ipam!PullPast(left(i), ex)
      BY <1>2, <2>1, PullsPast
    <2>6. QED
      BY <1>2, <2>1, <2>3, <2>4, <2>5
  <1>8. QED
    BY <1>6, <1>7 DEF Takes

\* Entries and calls: the addresses of an entry are in the network of its pool; those of
\* an entry that has not outlived them are free in no pool and in no other such entry,
\* but for those that one which had outlived them freed again; and a client at rest has
\* what such an entry says.
EntriesAreRight ==
    /\ PoolsFit(pools)
    /\ \A c \in stale : info[c] # Ipam!NoInfo /\ (ipamCall[c].pc = "next" => ipamCall[c].loaded)
    /\ \A c \in Conn :
          /\ info[c] # Ipam!NoInfo =>
                info[c].pool \in DOMAIN Networks /\ Ipam!OwnOf(info[c]) \subseteq Networks[info[c].pool]
          /\ ipamCall[c].pc = "next" => info[c] # Ipam!NoInfo
          /\ server = "p2p" => held[c] = <<>> \/ (held[c][1] \in Nat /\ held[c][2] \in Nat)
    /\ \A c \in Conn \ stale :
          /\ \A i \in DOMAIN Networks : Ipam!OwnOf(info[c]) \cap pools[i] \subseteq twice
          /\ \A d \in Conn \ stale : c # d => Ipam!OwnOf(info[c]) \cap Ipam!OwnOf(info[d]) \subseteq twice
          /\ ipamCall[c].pc = "idle" \/ ipamCall[c].loaded =>
                held[c] = <<>> \/ (info[c] # Ipam!NoInfo /\ held[c] = <<info[c].src, info[c].dst>>)

\* The variables of the ipam have their types, as far as a step needs them.
IpamType ==
    /\ server \in {"p2p", "single"}
    /\ stale \in SUBSET Conn
    /\ DOMAIN info = Conn /\ DOMAIN ipamCall = Conn /\ DOMAIN held = Conn
    /\ \A c \in Conn : ipamCall[c].pc \in {"idle", "next"}

\* The inductive invariant of the ipam.
IpamInv == IpamType /\ EntriesAreRight

\* Clients at rest have what the entries say, and those are apart and not free.
LEMMA IpamUnshared == IpamInv => Ipam!NoSharedAddress
  <1> SUFFICES ASSUME IpamInv
               PROVE  Ipam!NoSharedAddress
    OBVIOUS
  <1>1. EntriesAreRight /\ DOMAIN pools = DOMAIN Networks
    BY DEF IpamInv, EntriesAreRight, PoolsFit
  <1>2. ASSUME NEW c \in Ipam!Settled
        PROVE  c \in Conn \ stale /\ Ipam!Own(c) \subseteq Ipam!OwnOf(info[c])
    <2>1. c \in Conn \ stale /\ ipamCall[c].pc = "idle"
      BY <1>2 DEF Ipam!Settled
    <2>2. held[c] = <<>> \/ (info[c] # Ipam!NoInfo /\ held[c] = <<info[c].src, info[c].dst>>)
      BY <1>1, <2>1 DEF EntriesAreRight
    <2>3. QED
      BY <2>1, <2>2 DEF Ipam!Own, Ipam!OwnOf
  <1>3. ASSUME NEW c \in Ipam!Settled
        PROVE  /\ \A d \in Ipam!Settled \ {c} : Ipam!Own(c) \cap Ipam!Own(d) \subseteq twice
               /\ \A i \in DOMAIN pools : Ipam!Own(c) \cap pools[i] \subseteq twice
    <2>1. \A d \in Ipam!Settled \ {c} : Ipam!OwnOf(info[c]) \cap Ipam!OwnOf(info[d]) \subseteq twice
      BY <1>1, <1>2, <1>3 DEF EntriesAreRight
    <2>2. \A i \in DOMAIN pools : Ipam!OwnOf(info[c]) \cap pools[i] \subseteq twice
      BY <1>1, <1>2, <1>3 DEF EntriesAreRight
    <2>3. QED
      BY <1>2, <1>3, <2>1, <2>2
  <1>4. QED
    BY <1>3 DEF Ipam!NoSharedAddress

\* No connection has an address yet.
LEMMA IpamBegins == Ipam!Init => IpamInv
  <1> SUFFICES ASSUME Ipam!Init
               PROVE  IpamInv
    OBVIOUS
  <1>1. PoolsFit(pools)
    BY DEF Ipam!Init, PoolsFit
  <1>2. \A c \in Conn : info[c] = Ipam!NoInfo /\ Ipam!OwnOf(info[c]) = {} /\ ipamCall[c].pc = "idle" /\ held[c] = <<>>
    BY DEF Ipam!Init, Ipam!Idle, Ipam!OwnOf
  <1>3. EntriesAreRight
    BY <1>1, <1>2 DEF EntriesAreRight, Ipam!Init
  <1>4. IpamType
    BY <1>2 DEF IpamType, Ipam!Init
  <1>5. QED
    BY <1>3, <1>4 DEF IpamInv

\* The addresses that have been freed twice, when the entry of c frees its own.
FreedTwice(c) == IF c \in stale THEN twice \cup Ipam!OwnOf(info[c]) ELSE twice

\* Addresses that return to their pool.
LEMMA Frees ==
    ASSUME EntriesAreRight, NEW c \in Conn, info[c] # Ipam!NoInfo, NEW ps, ps = Ipam!free(pools, info[c])
    PROVE  /\ PoolsFit(ps)
           /\ \A d \in Conn \ stale, i \in DOMAIN Networks :
                 d # c => Ipam!OwnOf(info[d]) \cap ps[i] \subseteq FreedTwice(c)
  <1>1. /\ PoolsFit(pools) /\ info[c].pool \in DOMAIN Networks /\ Ipam!OwnOf(info[c]) \subseteq Networks[info[c].pool]
        /\ \A d \in Conn \ stale, i \in DOMAIN Networks : Ipam!OwnOf(info[d]) \cap pools[i] \subseteq twice
        /\ \A d \in Conn \ stale : d # c /\ c \notin stale => Ipam!OwnOf(info[d]) \cap Ipam!OwnOf(info[c]) \subseteq twice
    BY DEF EntriesAreRight
  <1>2. ps = [pools EXCEPT ![info[c].pool] = @ \cup Ipam!OwnOf(info[c])]
    BY DEF Ipam!free
  <1>3. /\ DOMAIN ps = DOMAIN Networks
        /\ \A i \in DOMAIN Networks : ps[i] = IF i = info[c].pool THEN pools[i] \cup Ipam!OwnOf(info[c]) ELSE pools[i]
    BY <1>1, <1>2 DEF PoolsFit
  <1>4. PoolsFit(ps)
    BY <1>1, <1>3 DEF PoolsFit
  <1>5. \A d \in Conn \ stale, i \in DOMAIN Networks :
           d # c => Ipam!OwnOf(info[d]) \cap ps[i] \subseteq FreedTwice(c)
    BY <1>1, <1>3 DEF FreedTwice
  <1>6. QED
    BY <1>4, <1>5

\* What the entries and pools of a connection are, when it has taken addresses of the
\* pools ps or has found none.
LEMMA Taken ==
    ASSUME IpamType, EntriesAreRight, NEW c \in Conn, ipamCall[c].pc = "idle", UNCHANGED <<server, held>>,
           NEW ps, PoolsFit(ps), twice \subseteq twice',
           \A d \in Conn \ stale, i \in DOMAIN Networks : d # c => Ipam!OwnOf(info[d]) \cap ps[i] \subseteq twice',
           NEW x, Takes(ps, x), pools' = x.pools,
           \/ /\ x.info # Ipam!NoInfo /\ info' = [info EXCEPT ![c] = x.info]
              /\ ipamCall' = [ipamCall EXCEPT ![c] = [pc |-> "next", loaded |-> FALSE]]
              /\ stale' = stale \ {c}
           \/ info[c] # Ipam!NoInfo /\ stale' = stale \cup {c} /\ UNCHANGED <<info, ipamCall>>
           \/ info[c] = Ipam!NoInfo /\ UNCHANGED <<info, ipamCall, stale>>
    PROVE  IpamType' /\ EntriesAreRight'
  <1>1. IpamType'
    BY DEF IpamType
  <1>2. PoolsFit(pools')
    BY DEF PoolsFit, Takes
  <1>3. \A i \in DOMAIN Networks : pools'[i] \subseteq ps[i]
    BY DEF PoolsFit, Takes
  <1>4. \A d \in Conn \ {c} : d \in stale' <=> d \in stale
    OBVIOUS
  <1>5. \A d \in Conn \ {c} : info'[d] = info[d] /\ ipamCall'[d] = ipamCall[d] /\ Ipam!OwnOf(info[d])' = Ipam!OwnOf(info[d])
    BY DEF IpamType, Ipam!OwnOf
  <1>6. ASSUME NEW d \in Conn \ stale', d # c, NEW i \in DOMAIN Networks
        PROVE  Ipam!OwnOf(info[d])' \cap pools'[i] \subseteq twice' /\ Ipam!OwnOf(info[d])' \cap ps[i] \subseteq twice'
    BY <1>3, <1>4, <1>5, <1>6
  <1>7. /\ info'[c] # Ipam!NoInfo =>
               info'[c].pool \in DOMAIN Networks /\ Ipam!OwnOf(info[c])' \subseteq Networks[info'[c].pool]
        /\ ipamCall'[c].pc = "next" => info'[c] # Ipam!NoInfo
        /\ c \in stale' => info'[c] # Ipam!NoInfo /\ ipamCall'[c].pc = "idle"
        /\ c \notin stale' =>
               /\ info'[c] # Ipam!NoInfo => Ipam!OwnOf(info[c])' \subseteq ps[info'[c].pool]
               /\ \A i \in DOMAIN Networks : Ipam!OwnOf(info[c])' \cap pools'[i] = {}
               /\ ipamCall'[c].pc = "idle" \/ ipamCall'[c].loaded =>
                     held[c] = <<>> \/ (info'[c] # Ipam!NoInfo /\ held[c] = <<info'[c].src, info'[c].dst>>)
    <2>1. CASE info[c] = Ipam!NoInfo /\ UNCHANGED <<info, ipamCall, stale>>
      <3>1. Ipam!OwnOf(info[c])' = {} /\ c \notin stale
        BY <2>1 DEF Ipam!OwnOf, EntriesAreRight
      <3>2. QED
        BY <2>1, <3>1 DEF EntriesAreRight
    <2>2. CASE /\ x.info # Ipam!NoInfo /\ info' = [info EXCEPT ![c] = x.info]
               /\ ipamCall' = [ipamCall EXCEPT ![c] = [pc |-> "next", loaded |-> FALSE]]
               /\ stale' = stale \ {c}
      <3>1. info'[c] = x.info /\ ipamCall'[c] = [pc |-> "next", loaded |-> FALSE]
        BY <2>2 DEF IpamType
      <3>2. Ipam!OwnOf(info[c])' = Ipam!OwnOf(x.info)
        BY <3>1 DEF Ipam!OwnOf
      <3>3. /\ x.info.pool \in DOMAIN Networks /\ Ipam!OwnOf(x.info) \subseteq ps[x.info.pool]
            /\ Ipam!OwnOf(x.info) \cap pools'[x.info.pool] = {}
        BY <2>2 DEF Takes, PoolsFit
      <3>4. Ipam!OwnOf(x.info) \subseteq Networks[x.info.pool]
        BY <3>3 DEF PoolsFit
      <3>5. \A i \in DOMAIN Networks : i # x.info.pool => Ipam!OwnOf(x.info) \cap pools'[i] = {}
        BY <1>2, <3>3, <3>4, AllocatorsAssumption DEF PoolsFit
      <3>6. QED
        BY <2>2, <3>1, <3>2, <3>3, <3>4, <3>5
    <2>3. CASE info[c] # Ipam!NoInfo /\ stale' = stale \cup {c} /\ UNCHANGED <<info, ipamCall>>
      <3>1. Ipam!OwnOf(info[c])' = Ipam!OwnOf(info[c])
        BY <2>3 DEF Ipam!OwnOf
      <3>2. QED
        BY <2>3, <3>1 DEF EntriesAreRight
    <2>4. QED
      BY <2>1, <2>2, <2>3
  <1>8. ASSUME NEW d \in Conn \ stale', NEW e \in Conn \ stale', d # e
        PROVE  Ipam!OwnOf(info[d])' \cap Ipam!OwnOf(info[e])' \subseteq twice'
    <2>1. CASE d # c /\ e # c
      BY <1>4, <1>5, <1>8, <2>1 DEF EntriesAreRight
    <2>2. CASE d = c \/ e = c
      <3>1. PICK o \in Conn \ stale' : o # c /\ ((d = c /\ e = o) \/ (e = c /\ d = o)) /\ c \notin stale'
        BY <1>8, <2>2
      <3>2. CASE info'[c] = Ipam!NoInfo
        BY <3>1, <3>2 DEF Ipam!OwnOf
      <3>3. CASE info'[c] # Ipam!NoInfo
        BY <1>6, <1>7, <3>1, <3>3
      <3>4. QED
        BY <3>2, <3>3
    <2>3. QED
      BY <2>1, <2>2
  <1>9. \A d \in stale' : info'[d] # Ipam!NoInfo /\ (ipamCall'[d].pc = "next" => ipamCall'[d].loaded)
    <2>1. ASSUME NEW d \in stale', d # c
          PROVE  info'[d] # Ipam!NoInfo /\ (ipamCall'[d].pc = "next" => ipamCall'[d].loaded)
      <3>1. d \in Conn
        BY <1>1, <2>1 DEF IpamType
      <3>2. QED
        BY <1>4, <1>5, <2>1, <3>1 DEF EntriesAreRight
    <2>2. QED
      BY <1>7, <2>1
  <1>10. ASSUME NEW d \in Conn, d # c
         PROVE  /\ info'[d] # Ipam!NoInfo =>
                      info'[d].pool \in DOMAIN Networks /\ Ipam!OwnOf(info[d])' \subseteq Networks[info'[d].pool]
                /\ ipamCall'[d].pc = "next" => info'[d] # Ipam!NoInfo
                /\ d \notin stale' => (ipamCall'[d].pc = "idle" \/ ipamCall'[d].loaded =>
                      held[d] = <<>> \/ (info'[d] # Ipam!NoInfo /\ held[d] = <<info'[d].src, info'[d].dst>>))
    BY <1>4, <1>5, <1>10 DEF EntriesAreRight
  <1>11. \A d \in Conn : server' = "p2p" => held'[d] = <<>> \/ (held'[d][1] \in Nat /\ held'[d][2] \in Nat)
    BY DEF EntriesAreRight
  <1>12. EntriesAreRight'
    <2>1. ASSUME NEW d \in Conn
          PROVE  /\ info'[d] # Ipam!NoInfo =>
                       info'[d].pool \in DOMAIN Networks /\ Ipam!OwnOf(info[d])' \subseteq Networks[info'[d].pool]
                 /\ ipamCall'[d].pc = "next" => info'[d] # Ipam!NoInfo
      BY <1>7, <1>10, <2>1
    <2>2. ASSUME NEW d \in Conn \ stale'
          PROVE  /\ \A i \in DOMAIN Networks : Ipam!OwnOf(info[d])' \cap pools'[i] \subseteq twice'
                 /\ ipamCall'[d].pc = "idle" \/ ipamCall'[d].loaded =>
                       held'[d] = <<>> \/ (info'[d] # Ipam!NoInfo /\ held'[d] = <<info'[d].src, info'[d].dst>>)
      BY <1>6, <1>7, <1>10, <2>2
    <2>3. QED
      BY <1>2, <1>8, <1>9, <1>11, <2>1, <2>2 DEF EntriesAreRight
  <1>13. QED
    BY <1>1, <1>12

\* A step that changes nothing but the call of a connection and what its client has.
LEMMA EntriesAreKept ==
    ASSUME IpamType, EntriesAreRight, NEW c \in Conn, UNCHANGED <<server, pools, info, stale, twice>>,
           DOMAIN ipamCall' = Conn, \A d \in Conn \ {c} : ipamCall'[d] = ipamCall[d],
           DOMAIN held' = Conn, \A d \in Conn \ {c} : held'[d] = held[d],
           ipamCall'[c].pc \in {"idle", "next"},
           ipamCall'[c].pc = "next" => info[c] # Ipam!NoInfo /\ (c \in stale => ipamCall'[c].loaded),
           server = "p2p" => held'[c] = <<>> \/ (held'[c][1] \in Nat /\ held'[c][2] \in Nat),
           c \notin stale => (ipamCall'[c].pc = "idle" \/ ipamCall'[c].loaded =>
               held'[c] = <<>> \/ (info[c] # Ipam!NoInfo /\ held'[c] = <<info[c].src, info[c].dst>>))
    PROVE  IpamType' /\ EntriesAreRight'
  <1>1. IpamType'
    BY DEF IpamType
  <1>2. PoolsFit(pools') /\ \A d \in Conn : Ipam!OwnOf(info[d])' = Ipam!OwnOf(info[d])
    BY DEF EntriesAreRight, Ipam!OwnOf
  <1>3. \A d \in stale' : d \in Conn /\ info'[d] # Ipam!NoInfo /\ (ipamCall'[d].pc = "next" => ipamCall'[d].loaded)
    BY DEF EntriesAreRight, IpamType
  <1>4. /\ \A d \in Conn :
              info'[d] # Ipam!NoInfo =>
                 info'[d].pool \in DOMAIN Networks /\ Ipam!OwnOf(info[d])' \subseteq Networks[info'[d].pool]
        /\ \A d \in Conn \ stale' :
              /\ \A i \in DOMAIN Networks : Ipam!OwnOf(info[d])' \cap pools'[i] \subseteq twice'
              /\ \A e \in Conn \ stale' : d # e => Ipam!OwnOf(info[d])' \cap Ipam!OwnOf(info[e])' \subseteq twice'
    BY <1>2 DEF EntriesAreRight
  <1>5. ASSUME NEW d \in Conn
        PROVE  /\ ipamCall'[d].pc = "next" => info'[d] # Ipam!NoInfo
               /\ server' = "p2p" => held'[d] = <<>> \/ (held'[d][1] \in Nat /\ held'[d][2] \in Nat)
               /\ d \notin stale' => (ipamCall'[d].pc = "idle" \/ ipamCall'[d].loaded =>
                     held'[d] = <<>> \/ (info'[d] # Ipam!NoInfo /\ held'[d] = <<info'[d].src, info'[d].dst>>))
    <2>1. CASE d = c
      BY <2>1
    <2>2. CASE d # c
      BY <1>5, <2>2 DEF EntriesAreRight
    <2>3. QED
      BY <2>1, <2>2
  <1>6. EntriesAreRight'
    BY <1>2, <1>3, <1>4, <1>5 DEF EntriesAreRight
  <1>7. QED
    BY <1>1, <1>6

\* The connection of a Request that finds an entry it can keep goes on with it.
LEMMA Loads ==
    ASSUME IpamType, EntriesAreRight, NEW c \in Conn, ipamCall[c].pc = "idle", info[c] # Ipam!NoInfo,
           ipamCall' = [ipamCall EXCEPT ![c] = [pc |-> "next", loaded |-> TRUE]],
           UNCHANGED <<server, pools, info, stale, twice, held>>
    PROVE  IpamType' /\ EntriesAreRight'
  <1>1. /\ ipamCall'[c].pc = "next" /\ ipamCall'[c].loaded /\ \A d \in Conn \ {c} : ipamCall'[d] = ipamCall[d]
        /\ DOMAIN ipamCall' = Conn /\ DOMAIN held' = Conn
    BY DEF IpamType
  <1>2. /\ c \notin stale => held[c] = <<>> \/ (info[c] # Ipam!NoInfo /\ held[c] = <<info[c].src, info[c].dst>>)
        /\ server = "p2p" => held[c] = <<>> \/ (held[c][1] \in Nat /\ held[c][2] \in Nat)
    BY DEF EntriesAreRight
  <1>3. QED
    BY <1>1, <1>2, EntriesAreKept

\* A Request that ipamServer of point2pointipam passes on or fails.
LEMMA PairRequested ==
    ASSUME IpamType, EntriesAreRight, NEW c \in Conn, ipamCall[c].pc = "idle", UNCHANGED server,
           NEW ss \in Seq(Nat), NEW ds \in Seq(Nat), NEW ex, Ipam!P2PRequest(c, ss, ds, ex)
    PROVE  IpamType' /\ EntriesAreRight'
  <1> DEFINE old == info[c]
             update == old # Ipam!NoInfo /\ Ipam!shouldUpdate(old, ex)
             loaded == old # Ipam!NoInfo /\ ~ update
             ps == IF update THEN Ipam!free(pools, old) ELSE pools
             rec == Ipam!recoverAddrs(ps, IF update THEN Ipam!deleteAddr(ss, old.src) ELSE ss,
                                          IF update THEN Ipam!deleteAddr(ds, old.dst) ELSE ds, ex)
             x == IF rec.info # Ipam!NoInfo THEN rec ELSE Ipam!getP2PAddrs(rec.pools, ex)
  <1>1. /\ server = "p2p" /\ UNCHANGED <<myIPs, held>>
        /\ twice' = IF update /\ c \in stale THEN twice \cup Ipam!OwnOf(old) ELSE twice
        /\ \/ /\ loaded
              /\ ipamCall' = [ipamCall EXCEPT ![c] = [pc |-> "next", loaded |-> TRUE]]
              /\ UNCHANGED <<pools, info, stale>>
           \/ /\ ~ loaded /\ x.info # Ipam!NoInfo
              /\ pools' = x.pools
              /\ info' = [info EXCEPT ![c] = x.info]
              /\ ipamCall' = [ipamCall EXCEPT ![c] = [pc |-> "next", loaded |-> FALSE]]
              /\ stale' = stale \ {c}
           \/ /\ ~ loaded /\ x.info = Ipam!NoInfo
              /\ pools' = x.pools
              /\ stale' = IF update THEN stale \cup {c} ELSE stale
              /\ UNCHANGED <<info, ipamCall>>
    BY DEF Ipam!P2PRequest
  <1>2. /\ PoolsFit(ps) /\ twice \subseteq twice'
        /\ \A d \in Conn \ stale, i \in DOMAIN Networks : d # c => Ipam!OwnOf(info[d]) \cap ps[i] \subseteq twice'
    <2>1. CASE update
      BY <1>1, <2>1, Frees DEF FreedTwice
    <2>2. CASE ~ update
      BY <1>1, <2>2 DEF EntriesAreRight
    <2>3. QED
      BY <2>1, <2>2
  <1>3. Takes(ps, rec)
    BY <1>1, <1>2, AddrDeleted, Recovers
  <1> HIDE DEF ps, rec
  <1>4. Takes(ps, x)
    <2>1. PoolsFit(rec.pools) /\ \A i \in DOMAIN ps : rec.pools[i] \subseteq ps[i]
      BY <1>2, <1>3 DEF Takes, PoolsFit
    <2>2. Takes(rec.pools, Ipam!getP2PAddrs(rec.pools, ex))
      BY <1>1, <2>1, GetsPair
    <2>3. Takes(ps, Ipam!getP2PAddrs(rec.pools, ex))
      BY <1>2, <2>1, <2>2 DEF Takes, PoolsFit
    <2>4. QED
      BY <1>3, <2>3
  <1>5. loaded => ~ update
    OBVIOUS
  <1>6. ~ loaded => (update <=> info[c] # Ipam!NoInfo)
    OBVIOUS
  <1> HIDE DEF x, update
  <1>7. CASE /\ loaded /\ ipamCall' = [ipamCall EXCEPT ![c] = [pc |-> "next", loaded |-> TRUE]]
             /\ UNCHANGED <<pools, info, stale>>
    BY <1>1, <1>5, <1>7, Loads
  <1>8. CASE ~ loaded
    <2>1. UNCHANGED <<server, held>> /\ pools' = x.pools
      BY <1>1, <1>8
    <2>2. \/ /\ x.info # Ipam!NoInfo /\ info' = [info EXCEPT ![c] = x.info]
             /\ ipamCall' = [ipamCall EXCEPT ![c] = [pc |-> "next", loaded |-> FALSE]]
             /\ stale' = stale \ {c}
          \/ info[c] # Ipam!NoInfo /\ stale' = stale \cup {c} /\ UNCHANGED <<info, ipamCall>>
          \/ info[c] = Ipam!NoInfo /\ UNCHANGED <<info, ipamCall, stale>>
      BY <1>1, <1>6, <1>8
    <2>3. QED
      BY <1>2, <1>4, <2>1, <2>2, Taken
  <1>9. QED
    BY <1>1, <1>7, <1>8

\* A Request that singlePIpam passes on or fails.
LEMMA AddressRequested ==
    ASSUME IpamType, EntriesAreRight, NEW c \in Conn, ipamCall[c].pc = "idle", UNCHANGED server,
           NEW ex, Ipam!SingleRequest(c, ex)
    PROVE  IpamType' /\ EntriesAreRight'
  <1> DEFINE old == info[c]
             update == old # Ipam!NoInfo /\ Ipam!shouldUpdate(old, ex)
             loaded == old # Ipam!NoInfo /\ ~ update
             ps == IF update THEN Ipam!free(pools, old) ELSE pools
             x == Ipam!getAddrs(ps, myIPs, ex)
  <1>1. /\ server = "single" /\ UNCHANGED held
        /\ twice' = IF update /\ c \in stale THEN twice \cup Ipam!OwnOf(old) ELSE twice
        /\ \/ /\ loaded
              /\ ipamCall' = [ipamCall EXCEPT ![c] = [pc |-> "next", loaded |-> TRUE]]
              /\ UNCHANGED <<pools, myIPs, info, stale>>
           \/ /\ ~ loaded
              /\ pools' = x.pools
              /\ myIPs' = x.mine
              /\ IF x.info # Ipam!NoInfo
                 THEN /\ info' = [info EXCEPT ![c] = x.info]
                      /\ ipamCall' = [ipamCall EXCEPT ![c] = [pc |-> "next", loaded |-> FALSE]]
                      /\ stale' = stale \ {c}
                 ELSE /\ stale' = IF update THEN stale \cup {c} ELSE stale
                      /\ UNCHANGED <<info, ipamCall>>
    BY DEF Ipam!SingleRequest
  <1>2. /\ PoolsFit(ps) /\ twice \subseteq twice'
        /\ \A d \in Conn \ stale, i \in DOMAIN Networks : d # c => Ipam!OwnOf(info[d]) \cap ps[i] \subseteq twice'
    <2>1. CASE update
      BY <1>1, <2>1, Frees DEF FreedTwice
    <2>2. CASE ~ update
      BY <1>1, <2>2 DEF EntriesAreRight
    <2>3. QED
      BY <2>1, <2>2
  <1> HIDE DEF ps
  <1>3. Takes(ps, x)
    BY <1>1, <1>2, GetsAddress
  <1>4. loaded => ~ update
    OBVIOUS
  <1>5. ~ loaded => (update <=> info[c] # Ipam!NoInfo)
    OBVIOUS
  <1> HIDE DEF x, update
  <1>6. CASE /\ loaded /\ ipamCall' = [ipamCall EXCEPT ![c] = [pc |-> "next", loaded |-> TRUE]]
             /\ UNCHANGED <<pools, info, stale>>
    BY <1>1, <1>4, <1>6, Loads
  <1>7. CASE ~ loaded
    <2>1. UNCHANGED <<server, held>> /\ pools' = x.pools
      BY <1>1, <1>7
    <2>2. \/ /\ x.info # Ipam!NoInfo /\ info' = [info EXCEPT ![c] = x.info]
             /\ ipamCall' = [ipamCall EXCEPT ![c] = [pc |-> "next", loaded |-> FALSE]]
             /\ stale' = stale \ {c}
          \/ info[c] # Ipam!NoInfo /\ stale' = stale \cup {c} /\ UNCHANGED <<info, ipamCall>>
          \/ info[c] = Ipam!NoInfo /\ UNCHANGED <<info, ipamCall, stale>>
      BY <1>1, <1>5, <1>7
    <2>3. QED
      BY <1>2, <1>3, <2>1, <2>2, Taken
  <1>8. QED
    BY <1>1, <1>6, <1>7

\* The addresses of a connection have returned to their pool, and its entry is gone or stale.
LEMMA Freed ==
    ASSUME IpamType, EntriesAreRight, NEW c \in Conn, info[c] # Ipam!NoInfo, UNCHANGED server,
           pools' = Ipam!free(pools, info[c]), twice' = FreedTwice(c),
           DOMAIN info' = Conn, DOMAIN ipamCall' = Conn, DOMAIN held' = Conn,
           \A d \in Conn \ {c} : info'[d] = info[d] /\ ipamCall'[d] = ipamCall[d] /\ held'[d] = held[d],
           ipamCall'[c].pc = "idle", held'[c] \in {held[c], <<>>},
           \/ stale' = stale \cup {c} /\ info'[c] = info[c]
           \/ stale' = stale \ {c} /\ info'[c] = Ipam!NoInfo /\ held'[c] = <<>>
    PROVE  IpamType' /\ EntriesAreRight'
  <1>1. IpamType'
    BY DEF IpamType
  <1>2. /\ PoolsFit(pools') /\ twice \subseteq twice'
        /\ \A d \in Conn \ stale, i \in DOMAIN Networks : d # c => Ipam!OwnOf(info[d]) \cap pools'[i] \subseteq twice'
    BY Frees DEF FreedTwice
  <1>3. \A d \in Conn \ {c} : Ipam!OwnOf(info[d])' = Ipam!OwnOf(info[d])
    BY DEF Ipam!OwnOf
  <1>4. IF c \in stale' THEN Ipam!OwnOf(info[c])' = Ipam!OwnOf(info[c]) ELSE Ipam!OwnOf(info[c])' = {}
    <2>1. CASE stale' = stale \cup {c} /\ info'[c] = info[c]
      BY <2>1 DEF Ipam!OwnOf
    <2>2. CASE stale' = stale \ {c} /\ info'[c] = Ipam!NoInfo
      BY <2>2 DEF Ipam!OwnOf
    <2>3. QED
      BY <2>1, <2>2
  <1>5. ASSUME NEW d \in stale'
        PROVE  info'[d] # Ipam!NoInfo /\ (ipamCall'[d].pc = "next" => ipamCall'[d].loaded)
    <2>1. CASE d = c
      BY <1>5, <2>1
    <2>2. CASE d # c
      <3>1. d \in stale /\ d \in Conn
        BY <1>1, <1>5, <2>2 DEF IpamType
      <3>2. QED
        BY <2>2, <3>1 DEF EntriesAreRight
    <2>3. QED
      BY <2>1, <2>2
  <1>6. ASSUME NEW d \in Conn
        PROVE  /\ info'[d] # Ipam!NoInfo =>
                     info'[d].pool \in DOMAIN Networks /\ Ipam!OwnOf(info[d])' \subseteq Networks[info'[d].pool]
               /\ ipamCall'[d].pc = "next" => info'[d] # Ipam!NoInfo
               /\ server' = "p2p" => held'[d] = <<>> \/ (held'[d][1] \in Nat /\ held'[d][2] \in Nat)
    <2>1. CASE d = c
      BY <1>4, <2>1 DEF EntriesAreRight
    <2>2. CASE d # c
      BY <1>3, <2>2 DEF EntriesAreRight
    <2>3. QED
      BY <2>1, <2>2
  <1>7. ASSUME NEW d \in Conn \ stale'
        PROVE  /\ \A i \in DOMAIN Networks : Ipam!OwnOf(info[d])' \cap pools'[i] \subseteq twice'
               /\ \A e \in Conn \ stale' : d # e => Ipam!OwnOf(info[d])' \cap Ipam!OwnOf(info[e])' \subseteq twice'
               /\ ipamCall'[d].pc = "idle" \/ ipamCall'[d].loaded =>
                     held'[d] = <<>> \/ (info'[d] # Ipam!NoInfo /\ held'[d] = <<info'[d].src, info'[d].dst>>)
    <2>1. CASE d = c
      BY <1>4, <1>7, <2>1
    <2>2. CASE d # c
      <3>1. d \in Conn \ stale /\ \A e \in Conn \ stale' : e # c => e \in Conn \ stale
        BY <1>7, <2>2
      <3>2. \A e \in Conn \ stale' : d # e => Ipam!OwnOf(info[d])' \cap Ipam!OwnOf(info[e])' \subseteq twice'
        BY <1>2, <1>3, <1>4, <2>2, <3>1 DEF EntriesAreRight
      <3>3. QED
        BY <1>2, <1>3, <2>2, <3>1, <3>2 DEF EntriesAreRight
    <2>3. QED
      BY <2>1, <2>2
  <1>8. EntriesAreRight'
    BY <1>2, <1>5, <1>6, <1>7 DEF EntriesAreRight
  <1>9. QED
    BY <1>1, <1>8

\* IpamInv is inductive: Request, its success, its failure and Close keep it.
LEMMA IpamStep ==
    ASSUME IpamInv, Ipam!Next
    PROVE  IpamInv'
  <1>1. IpamType /\ EntriesAreRight
    BY DEF IpamInv
  <1>2. ASSUME NEW c \in Conn, NEW ss, NEW ds, NEW ex, Ipam!Request(c, ss, ds, ex),
               server = "p2p" => ss \in Seq(Nat) /\ ds \in Seq(Nat)
        PROVE  IpamType' /\ EntriesAreRight'
    <2>1. ipamCall[c].pc = "idle" /\ UNCHANGED server
      BY <1>2 DEF Ipam!Request
    <2>2. PICK as, bs, e : /\ Ipam!P2PRequest(c, as, bs, e) \/ Ipam!SingleRequest(c, e)
                           /\ as \in {ss, <<>>} /\ bs \in {ds, <<>>}
      BY <1>2 DEF Ipam!Request
    <2>3. CASE Ipam!P2PRequest(c, as, bs, e)
      <3>1. server = "p2p"
        BY <2>3 DEF Ipam!P2PRequest
      <3>2. <<>> \in Seq(Nat)
        OBVIOUS
      <3>3. as \in Seq(Nat) /\ bs \in Seq(Nat)
        BY <1>2, <2>2, <3>1, <3>2
      <3>4. QED
        BY <1>1, <2>1, <2>3, <3>3, PairRequested
    <2>4. CASE Ipam!SingleRequest(c, e)
      BY <1>1, <2>1, <2>4, AddressRequested
    <2>5. QED
      BY <2>2, <2>3, <2>4
  <1>3. ASSUME NEW c \in Conn, NEW ex, Ipam!Request(c, Ipam!Held(c, 1), Ipam!Held(c, 2), ex)
        PROVE  IpamType' /\ EntriesAreRight'
    <2>1. CASE held[c] = <<>>
      <3>1. Ipam!Held(c, 1) = <<>> /\ Ipam!Held(c, 2) = <<>> /\ <<>> \in Seq(Nat)
        BY <2>1 DEF Ipam!Held
      <3>2. QED
        BY <1>2, <1>3, <3>1
    <2>2. CASE held[c] # <<>>
      <3>1. server = "p2p" => held[c][1] \in Nat /\ held[c][2] \in Nat
        BY <1>1, <2>2 DEF EntriesAreRight
      <3>2. server = "p2p" => Ipam!Held(c, 1) \in Seq(Nat) /\ Ipam!Held(c, 2) \in Seq(Nat)
        BY <2>2, <3>1 DEF Ipam!Held
      <3>3. QED
        BY <1>2, <1>3, <3>2
    <2>3. QED
      BY <2>1, <2>2
  <1>4. ASSUME NEW c \in Conn, NEW ex, NEW p \in DOMAIN Networks, NEW s \in Networks[p], NEW d \in Networks[p],
               Ipam!Request(c, <<s>>, <<d>>, ex)
        PROVE  IpamType' /\ EntriesAreRight'
    <2>1. s \in Nat /\ d \in Nat
      BY AllocatorsAssumption
    <2>2. <<s>> \in Seq(Nat) /\ <<d>> \in Seq(Nat)
      BY <2>1
    <2>3. QED
      BY <1>2, <1>4, <2>2
  <1>5. ASSUME NEW c \in Conn, Ipam!RequestSuccess(c)
        PROVE  IpamType' /\ EntriesAreRight'
    <2>1. /\ ipamCall[c].pc = "next" /\ UNCHANGED <<server, pools, info, stale, twice>>
          /\ held' = [held EXCEPT ![c] = <<info[c].src, info[c].dst>>]
          /\ ipamCall' = [ipamCall EXCEPT ![c] = Ipam!Idle]
      BY <1>5 DEF Ipam!RequestSuccess
    <2>2. /\ info[c] # Ipam!NoInfo
          /\ info[c].pool \in DOMAIN Networks /\ Ipam!OwnOf(info[c]) \subseteq Networks[info[c].pool]
      BY <1>1, <2>1 DEF EntriesAreRight
    <2>3. Networks[info[c].pool] \in SUBSET Nat
      BY <2>2, AllocatorsAssumption
    <2>4. server = "p2p" => info[c].src \in Nat /\ info[c].dst \in Nat
      BY <2>2, <2>3 DEF Ipam!OwnOf
    <2>5. /\ DOMAIN ipamCall' = Conn /\ (\A d \in Conn \ {c} : ipamCall'[d] = ipamCall[d]) /\ ipamCall'[c].pc = "idle"
          /\ DOMAIN held' = Conn /\ (\A d \in Conn \ {c} : held'[d] = held[d]) /\ held'[c] = <<info[c].src, info[c].dst>>
      BY <1>1, <2>1 DEF IpamType, Ipam!Idle
    <2>6. server = "p2p" => held'[c][1] \in Nat /\ held'[c][2] \in Nat
      BY <2>4, <2>5
    <2>7. QED
      BY <1>1, <2>1, <2>2, <2>5, <2>6, EntriesAreKept
  <1>6. ASSUME NEW c \in Conn, Ipam!RequestFailure(c)
        PROVE  IpamType' /\ EntriesAreRight'
    <2>1. /\ ipamCall[c].pc = "next" /\ UNCHANGED <<server, info, held, twice>>
          /\ ipamCall' = [ipamCall EXCEPT ![c] = Ipam!Idle]
      BY <1>6 DEF Ipam!RequestFailure
    <2>2. info[c] # Ipam!NoInfo /\ (c \in stale => ipamCall[c].loaded)
      BY <1>1, <2>1 DEF EntriesAreRight
    <2>3. /\ DOMAIN ipamCall' = Conn /\ (\A d \in Conn \ {c} : ipamCall'[d] = ipamCall[d]) /\ ipamCall'[c].pc = "idle"
          /\ DOMAIN held' = Conn /\ DOMAIN info' = Conn
      BY <1>1, <2>1 DEF IpamType, Ipam!Idle
    <2>4. CASE ipamCall[c].loaded
      <3>1. UNCHANGED <<pools, stale>>
        BY <1>6, <2>4 DEF Ipam!RequestFailure
      <3>2. /\ c \notin stale => held[c] = <<>> \/ (info[c] # Ipam!NoInfo /\ held[c] = <<info[c].src, info[c].dst>>)
            /\ server = "p2p" => held[c] = <<>> \/ (held[c][1] \in Nat /\ held[c][2] \in Nat)
        BY <1>1, <2>4 DEF EntriesAreRight
      <3>3. QED
        BY <1>1, <2>1, <2>3, <3>1, <3>2, EntriesAreKept
    <2>5. CASE ~ ipamCall[c].loaded
      <3>1. pools' = Ipam!free(pools, info[c]) /\ stale' = stale \cup {c} /\ twice' = FreedTwice(c)
        BY <1>6, <2>1, <2>2, <2>5 DEF Ipam!RequestFailure, FreedTwice
      <3>2. QED
        BY <1>1, <2>1, <2>2, <2>3, <3>1, Freed
    <2>6. QED
      BY <2>4, <2>5
  <1>7. ASSUME NEW c \in Conn, Ipam!Close(c)
        PROVE  IpamType' /\ EntriesAreRight'
    <2>1. ipamCall[c].pc = "idle" /\ held[c] # <<>>
      BY <1>7 DEF Ipam!Close, Ipam!CloseWith
    <2>2. info[c] # Ipam!NoInfo
      BY <1>1, <2>1 DEF EntriesAreRight
    <2>3. /\ pools' = Ipam!free(pools, info[c]) /\ UNCHANGED <<server, ipamCall>> /\ held' = [held EXCEPT ![c] = <<>>]
          /\ twice' = FreedTwice(c)
          /\ \/ info' = [info EXCEPT ![c] = Ipam!NoInfo] /\ stale' = stale \ {c}
             \/ info' = info /\ stale' = stale \cup {c}
      BY <1>7, <2>2 DEF Ipam!Close, Ipam!CloseWith, FreedTwice
    <2>4. /\ DOMAIN info' = Conn /\ DOMAIN ipamCall' = Conn /\ DOMAIN held' = Conn
          /\ \A d \in Conn \ {c} : info'[d] = info[d] /\ ipamCall'[d] = ipamCall[d] /\ held'[d] = held[d]
          /\ held'[c] = <<>>
          /\ \/ stale' = stale \cup {c} /\ info'[c] = info[c]
             \/ stale' = stale \ {c} /\ info'[c] = Ipam!NoInfo /\ held'[c] = <<>>
      BY <1>1, <2>3 DEF IpamType
    <2>5. QED
      BY <1>1, <2>1, <2>2, <2>3, <2>4, Freed
  <1>8. QED
    BY <1>3, <1>4, <1>5, <1>6, <1>7 DEF Ipam!Next, IpamInv

-----------------------------------------------------------------------------
(* vl3dns.                                                                 *)

\* The variables of vl3dns have their types: names are those of the templates.
RecordsType ==
    /\ serverIP \in ownIPs \cup {None} /\ None \notin ownIPs /\ open \subseteq Client
    /\ dnsConfigs = [c \in Client |-> dnsConfigs[c]]
    /\ context = [c \in Client |-> context[c]] /\ asked = [c \in Client |-> asked[c]]
    /\ metadata = [c \in Client |-> metadata[c]] /\ names = [c \in Client |-> names[c]]
    /\ \A c \in Client : metadata[c] \in NamesOf[c] \cup {None} /\ names[c] \in NamesOf[c] \cup {None}
    /\ \A n \in DOMAIN records : records[n] \in Client

\* No config is kept of a request that came before the first address.
ConfigsComeLater ==
    \A c \in Client : NamesOf[c] # {} /\ dnsConfigs[c] # None => \A k \in dnsConfigs[c] : ownIPs # {}

\* While a request runs, its connection has no names in its metadata, and it has read an
\* address of the DNS server unless it has brought no configs.
RecordsInv ==
    /\ RecordsType
    /\ \A c \in Client : names[c] # None => metadata[c] = None /\ (asked[c].ip \in ownIPs \/ asked[c].configs = {})
    /\ Contexts!RecordsFollowConnections /\ Contexts!NeverAsksItself /\ ConfigsComeLater

LEMMA RecordsBegin ==
    ASSUME Contexts!DnsContextInit
    PROVE  RecordsInv
  <1>1. serverIP = None /\ ownIPs = {} /\ open = {} /\ DOMAIN records = {} /\ asked = [c \in Client |-> None]
        /\ dnsConfigs = [c \in Client |-> None] /\ metadata = [c \in Client |-> None] /\ names = [c \in Client |-> None]
    BY DEF Contexts!DnsContextInit
  <1>2. context = [c \in Client |-> context[c]]
    BY DEF Contexts!DnsContextInit
  <1>3. RecordsType
    BY <1>1, <1>2 DEF RecordsType
  <1>4. Contexts!RecordsFollowConnections /\ Contexts!NeverAsksItself /\ ConfigsComeLater
    BY <1>1 DEF Contexts!RecordsFollowConnections, Contexts!NeverAsksItself, ConfigsComeLater
  <1>5. QED
    BY <1>1, <1>3, <1>4 DEF RecordsInv

\* A Request before the next element is called: the names of its last one are
\* forgotten, and their records with them unless the names are the same.
LEMMA RequestKeepsRecords ==
    ASSUME RecordsInv, NEW c \in Client, NEW ns \in NamesOf[c], Contexts!Request(c, ns)
    PROVE  RecordsInv'
  <1>1. names[c] = None /\ UNCHANGED <<serverIP, ownIPs, dnsConfigs>>
    BY DEF Contexts!Request
  <1>2. records' = IF metadata[c] # None /\ metadata[c] # ns THEN Contexts!Without(metadata[c]) ELSE records
    BY DEF Contexts!Request
  <1>3. nameless' = IF metadata[c] = ns THEN nameless \cup {c} ELSE nameless
    BY DEF Contexts!Request
  <1>4. metadata' = [metadata EXCEPT ![c] = None]
    BY DEF Contexts!Request
  <1>5. \/ /\ serverIP # None /\ context' = [context EXCEPT ![c] = Contexts!addDNSContext(@)]
           /\ asked' = [asked EXCEPT ![c] = [ip |-> serverIP, configs |-> context[c]]]
           /\ names' = [names EXCEPT ![c] = ns] /\ open' = open
        \/ /\ context' = context /\ asked' = [asked EXCEPT ![c] = [ip |-> None, configs |-> {}]]
           /\ names' = [names EXCEPT ![c] = ns] /\ open' = open
        \/ /\ context' = context /\ names' = names /\ asked' = asked /\ open' = open \ {c}
    BY DEF Contexts!Request
  <1>6. \A d \in Client : metadata'[d] = IF d = c THEN None ELSE metadata[d]
    BY <1>4 DEF RecordsInv, RecordsType
  <1>7. /\ context' = [d \in Client |-> context'[d]] /\ \A d \in Client \ {c} : context'[d] = context[d]
        /\ names' = [d \in Client |-> names'[d]] /\ \A d \in Client \ {c} : names'[d] = names[d]
        /\ asked' = [d \in Client |-> asked'[d]] /\ \A d \in Client \ {c} : asked'[d] = asked[d]
        /\ names'[c] \in NamesOf[c] \cup {None}
        /\ names'[c] # None => asked'[c].ip \in ownIPs \/ asked'[c].configs = {}
        /\ open' \subseteq open
    <2>1. /\ context = [d \in Client |-> context[d]] /\ names = [d \in Client |-> names[d]]
          /\ asked = [d \in Client |-> asked[d]] /\ serverIP \in ownIPs \cup {None}
      BY DEF RecordsInv, RecordsType
    <2>2. CASE /\ serverIP # None /\ context' = [context EXCEPT ![c] = Contexts!addDNSContext(@)]
               /\ asked' = [asked EXCEPT ![c] = [ip |-> serverIP, configs |-> context[c]]]
               /\ names' = [names EXCEPT ![c] = ns] /\ open' = open
      BY <2>1, <2>2
    <2>3. CASE /\ context' = context /\ asked' = [asked EXCEPT ![c] = [ip |-> None, configs |-> {}]]
               /\ names' = [names EXCEPT ![c] = ns] /\ open' = open
      BY <2>1, <2>3
    <2>4. CASE context' = context /\ names' = names /\ asked' = asked /\ open' = open \ {c}
      BY <1>1, <2>1, <2>4
    <2>5. QED
      BY <1>5, <2>2, <2>3, <2>4
  <1>8. /\ DOMAIN records' \subseteq DOMAIN records
        /\ \A n \in DOMAIN records' : records'[n] = records[n] /\ (metadata[c] = None \/ metadata[c] = ns \/ n \notin metadata[c])
        /\ \A n \in DOMAIN records : metadata[c] = None \/ n \notin metadata[c] => n \in DOMAIN records'
    <2>1. CASE metadata[c] # None /\ metadata[c] # ns
      <3>1. records' = [n \in DOMAIN records \ metadata[c] |-> records[n]]
        BY <1>2, <2>1 DEF Contexts!Without
      <3>2. QED
        BY <2>1, <3>1
    <2>2. CASE ~(metadata[c] # None /\ metadata[c] # ns)
      BY <1>2, <2>2
    <2>3. QED
      BY <2>1, <2>2
  <1>9. RecordsType'
    <2>1. metadata' = [d \in Client |-> metadata'[d]]
      BY <1>4 DEF RecordsInv, RecordsType
    <2>2. QED
      BY <1>1, <1>6, <1>7, <1>8, <2>1 DEF RecordsInv, RecordsType
  <1>10. \A d \in Client : names'[d] # None => metadata'[d] = None /\ (asked'[d].ip \in ownIPs' \/ asked'[d].configs = {})
    BY <1>1, <1>6, <1>7 DEF RecordsInv
  <1>11. Contexts!RecordsFollowConnections'
    <2>1. ASSUME NEW d \in open', metadata'[d] # None, NEW n \in metadata'[d]
          PROVE  n \in DOMAIN records' /\ records'[n] = d
      <3>1. d \in open /\ d \in Client /\ d # c /\ metadata[d] # None /\ n \in metadata[d]
        BY <1>6, <1>7, <2>1 DEF RecordsInv, RecordsType
      <3>2. n \in DOMAIN records /\ records[n] = d
        BY <3>1 DEF RecordsInv, Contexts!RecordsFollowConnections
      <3>3. metadata[c] = None \/ n \notin metadata[c]
        BY <3>1, NamesAssumption DEF RecordsInv, RecordsType
      <3>4. QED
        BY <1>8, <3>2, <3>3
    <2>2. ASSUME NEW n \in DOMAIN records', NEW d, d = records'[n]
          PROVE  (metadata'[d] # None /\ n \in metadata'[d]) \/ d \in nameless'
      <3>1. n \in DOMAIN records /\ d = records[n] /\ d \in Client
        BY <1>8, <2>2 DEF RecordsInv, RecordsType
      <3>2. (metadata[d] # None /\ n \in metadata[d]) \/ d \in nameless
        BY <3>1 DEF RecordsInv, Contexts!RecordsFollowConnections
      <3>3. nameless \subseteq nameless'
        BY <1>3
      <3>4. CASE d # c
        BY <1>6, <3>1, <3>2, <3>3, <3>4
      <3>5. CASE d = c /\ metadata[c] # None /\ n \in metadata[c]
        <4>1. metadata[c] = ns
          BY <1>8, <2>2, <3>5
        <4>2. QED
          BY <1>3, <3>5, <4>1
      <3>6. QED
        BY <3>2, <3>3, <3>4, <3>5
    <2>3. QED
      BY <2>1, <2>2 DEF Contexts!RecordsFollowConnections
  <1>12. Contexts!NeverAsksItself' /\ ConfigsComeLater'
    BY <1>1 DEF RecordsInv, Contexts!NeverAsksItself, ConfigsComeLater
  <1>13. QED
    BY <1>9, <1>10, <1>11, <1>12 DEF RecordsInv

\* The return of a Request, with addresses or without.
LEMMA ReturnKeepsRecords ==
    ASSUME RecordsInv, NEW c \in Client, NEW addresses \in BOOLEAN, Contexts!RequestReturns(c, addresses)
    PROVE  RecordsInv'
  <1>1. names[c] # None /\ UNCHANGED <<serverIP, ownIPs, context>>
        /\ names' = [names EXCEPT ![c] = None] /\ asked' = [asked EXCEPT ![c] = None]
    BY DEF Contexts!RequestReturns
  <1>11. PICK configs \in {{}, Contexts!vl3Configs(c)} : dnsConfigs' = [dnsConfigs EXCEPT ![c] = configs]
    BY DEF Contexts!RequestReturns
  <1>2. names[c] \in NamesOf[c] /\ metadata[c] = None /\ (asked[c].ip \in ownIPs \/ asked[c].configs = {})
    BY <1>1 DEF RecordsInv, RecordsType
  <1>3. /\ names' = [d \in Client |-> names'[d]] /\ names'[c] = None
        /\ \A d \in Client \ {c} : names'[d] = names[d]
        /\ asked' = [d \in Client |-> asked'[d]] /\ \A d \in Client \ {c} : asked'[d] = asked[d]
        /\ dnsConfigs' = [d \in Client |-> dnsConfigs'[d]] /\ dnsConfigs'[c] = configs
        /\ \A d \in Client \ {c} : dnsConfigs'[d] = dnsConfigs[d]
    BY <1>1, <1>11 DEF RecordsInv, RecordsType
  <1>4. \A k \in configs : k \subseteq ownIPs => \E x, y \in ownIPs : x # y
    <2>1. SUFFICES ASSUME NEW k \in configs, k \subseteq ownIPs
                   PROVE  \E x, y \in ownIPs : x # y
      OBVIOUS
    <2>2. k \in asked[c].configs /\ \E ip \in k : ip # asked[c].ip
      BY <1>11, <2>1 DEF Contexts!vl3Configs
    <2>3. asked[c].ip \in ownIPs
      BY <1>2, <2>2
    <2>4. QED
      BY <2>1, <2>2, <2>3
  <1>12. \A k \in configs : ownIPs # {}
    BY <1>2, <1>11 DEF Contexts!vl3Configs
  <1>5. Contexts!NeverAsksItself' /\ ConfigsComeLater'
    <2>1. NamesOf[c] # {}
      BY <1>2
    <2>2. ASSUME NEW d \in Client, dnsConfigs'[d] # None, NEW k \in dnsConfigs'[d]
          PROVE  /\ IF NamesOf[d] = {} THEN OwnIP \notin k ELSE k \subseteq ownIPs => \E x, y \in ownIPs : x # y
                 /\ NamesOf[d] # {} => ownIPs # {}
      <3>1. CASE d = c
        BY <1>3, <1>4, <1>12, <2>1, <2>2, <3>1
      <3>2. CASE d # c
        <4>1. dnsConfigs[d] # None /\ k \in dnsConfigs[d]
          BY <1>3, <2>2, <3>2
        <4>2. QED
          BY <4>1 DEF RecordsInv, Contexts!NeverAsksItself, ConfigsComeLater
      <3>3. QED
        BY <3>1, <3>2
    <2>3. QED
      BY <1>1, <2>2 DEF Contexts!NeverAsksItself, ConfigsComeLater
  <1>6. CASE ~ addresses
    <2>1. open' = open \ {c} /\ UNCHANGED <<records, metadata, nameless>>
      BY <1>6 DEF Contexts!RequestReturns
    <2>2. RecordsType'
      BY <1>1, <1>3, <2>1 DEF RecordsInv, RecordsType
    <2>3. Contexts!RecordsFollowConnections'
      BY <2>1 DEF RecordsInv, Contexts!RecordsFollowConnections
    <2>4. \A d \in Client : names'[d] # None => metadata'[d] = None /\ (asked'[d].ip \in ownIPs' \/ asked'[d].configs = {})
      BY <1>1, <1>3, <2>1 DEF RecordsInv
    <2>5. QED
      BY <1>5, <2>2, <2>3, <2>4 DEF RecordsInv
  <1>7. CASE addresses
    <2>1. records' = [n \in DOMAIN records \cup names[c] |-> IF n \in names[c] THEN c ELSE records[n]]
          /\ metadata' = [metadata EXCEPT ![c] = names[c]] /\ open' = open \cup {c}
      BY <1>7 DEF Contexts!RequestReturns
    <2>2. nameless' = IF nameless \cap {c} # {} /\ \A n \in DOMAIN records : records[n] = c => n \in names[c]
                      THEN nameless \ {c} ELSE nameless
      BY <1>7 DEF Contexts!RequestReturns
    <2>3. /\ metadata' = [d \in Client |-> metadata'[d]] /\ metadata'[c] = names[c]
          /\ \A d \in Client \ {c} : metadata'[d] = metadata[d]
      BY <2>1 DEF RecordsInv, RecordsType
    <2>4. /\ DOMAIN records' = DOMAIN records \cup names[c]
          /\ \A n \in names[c] : records'[n] = c
          /\ \A n \in DOMAIN records' \ names[c] : n \in DOMAIN records /\ records'[n] = records[n]
      BY <2>1
    <2>5. RecordsType'
      <3>1. \A n \in DOMAIN records' : records'[n] \in Client
        BY <2>4 DEF RecordsInv, RecordsType
      <3>2. QED
        BY <1>1, <1>2, <1>3, <2>1, <2>3, <3>1 DEF RecordsInv, RecordsType
    <2>6. \A d \in Client : names'[d] # None => metadata'[d] = None /\ (asked'[d].ip \in ownIPs' \/ asked'[d].configs = {})
      BY <1>1, <1>3, <2>3 DEF RecordsInv
    <2>7. ASSUME NEW d \in open', metadata'[d] # None, NEW n \in metadata'[d]
          PROVE  n \in DOMAIN records' /\ records'[n] = d
      <3>1. CASE d = c
        BY <2>3, <2>4, <2>7, <3>1
      <3>2. CASE d # c
        <4>1. d \in open /\ d \in Client /\ metadata[d] # None /\ n \in metadata[d]
          BY <2>1, <2>3, <2>7, <3>2 DEF RecordsInv, RecordsType
        <4>2. n \in DOMAIN records /\ records[n] = d
          BY <4>1 DEF RecordsInv, Contexts!RecordsFollowConnections
        <4>3. n \notin names[c]
          BY <1>2, <3>2, <4>1, NamesAssumption DEF RecordsInv, RecordsType
        <4>4. QED
          BY <2>4, <4>2, <4>3
      <3>3. QED
        BY <3>1, <3>2
    <2>8. ASSUME NEW n \in DOMAIN records', NEW d, d = records'[n]
          PROVE  (metadata'[d] # None /\ n \in metadata'[d]) \/ d \in nameless'
      <3>1. CASE n \in names[c]
        BY <1>1, <2>3, <2>4, <2>8, <3>1
      <3>2. CASE n \notin names[c]
        <4>1. n \in DOMAIN records /\ d = records[n] /\ d \in Client
          BY <2>4, <2>8, <3>2 DEF RecordsInv, RecordsType
        <4>2. (metadata[d] # None /\ n \in metadata[d]) \/ d \in nameless
          BY <4>1 DEF RecordsInv, Contexts!RecordsFollowConnections
        <4>3. CASE d # c
          BY <2>2, <2>3, <4>1, <4>2, <4>3
        <4>4. CASE d = c
          <5>1. c \in nameless
            BY <1>2, <4>2, <4>4
          <5>2. nameless' = nameless
            BY <2>2, <3>2, <4>1, <4>4
          <5>3. QED
            BY <4>4, <5>1, <5>2
        <4>5. QED
          BY <4>3, <4>4
      <3>3. QED
        BY <3>1, <3>2
    <2>9. Contexts!RecordsFollowConnections'
      BY <2>7, <2>8 DEF Contexts!RecordsFollowConnections
    <2>10. QED
      BY <1>5, <2>5, <2>6, <2>9 DEF RecordsInv
  <1>8. QED
    BY <1>6, <1>7

\* A Close of the server: the records go with the names.
LEMMA CloseKeepsRecords ==
    ASSUME RecordsInv, NEW c \in Client, Contexts!Close(c)
    PROVE  RecordsInv'
  <1>1. names[c] = None /\ UNCHANGED <<serverIP, ownIPs, context, names, asked, nameless>> /\ open' = open \ {c}
        /\ dnsConfigs' = [dnsConfigs EXCEPT ![c] = None] /\ metadata' = [metadata EXCEPT ![c] = None]
        /\ records' = IF metadata[c] # None THEN Contexts!Without(metadata[c]) ELSE records
    BY DEF Contexts!Close
  <1>2. /\ metadata' = [d \in Client |-> metadata'[d]] /\ metadata'[c] = None
        /\ \A d \in Client \ {c} : metadata'[d] = metadata[d]
        /\ dnsConfigs' = [d \in Client |-> dnsConfigs'[d]] /\ dnsConfigs'[c] = None
        /\ \A d \in Client \ {c} : dnsConfigs'[d] = dnsConfigs[d]
    BY <1>1 DEF RecordsInv, RecordsType
  <1>3. /\ DOMAIN records' \subseteq DOMAIN records
        /\ \A n \in DOMAIN records' : records'[n] = records[n] /\ (metadata[c] = None \/ n \notin metadata[c])
        /\ \A n \in DOMAIN records : metadata[c] = None \/ n \notin metadata[c] => n \in DOMAIN records'
    <2>1. CASE metadata[c] # None
      <3>1. records' = [n \in DOMAIN records \ metadata[c] |-> records[n]]
        BY <1>1, <2>1 DEF Contexts!Without
      <3>2. QED
        BY <2>1, <3>1
    <2>2. CASE metadata[c] = None
      BY <1>1, <2>2
    <2>3. QED
      BY <2>1, <2>2
  <1>4. RecordsType'
    BY <1>1, <1>2, <1>3 DEF RecordsInv, RecordsType
  <1>5. \A d \in Client : names'[d] # None => metadata'[d] = None /\ (asked'[d].ip \in ownIPs' \/ asked'[d].configs = {})
    BY <1>1, <1>2 DEF RecordsInv
  <1>6. Contexts!NeverAsksItself' /\ ConfigsComeLater'
    BY <1>1, <1>2 DEF RecordsInv, Contexts!NeverAsksItself, ConfigsComeLater
  <1>7. ASSUME NEW d \in open', metadata'[d] # None, NEW n \in metadata'[d]
        PROVE  n \in DOMAIN records' /\ records'[n] = d
    <2>1. d \in open /\ d \in Client /\ d # c /\ metadata[d] # None /\ n \in metadata[d]
      BY <1>1, <1>2, <1>7 DEF RecordsInv, RecordsType
    <2>2. n \in DOMAIN records /\ records[n] = d
      BY <2>1 DEF RecordsInv, Contexts!RecordsFollowConnections
    <2>3. metadata[c] = None \/ n \notin metadata[c]
      BY <2>1, NamesAssumption DEF RecordsInv, RecordsType
    <2>4. QED
      BY <1>3, <2>2, <2>3
  <1>8. ASSUME NEW n \in DOMAIN records', NEW d, d = records'[n]
        PROVE  (metadata'[d] # None /\ n \in metadata'[d]) \/ d \in nameless'
    <2>1. n \in DOMAIN records /\ d = records[n] /\ d \in Client
      BY <1>3, <1>8 DEF RecordsInv, RecordsType
    <2>2. (metadata[d] # None /\ n \in metadata[d]) \/ d \in nameless
      BY <2>1 DEF RecordsInv, Contexts!RecordsFollowConnections
    <2>3. d = c => metadata[d] = None \/ n \notin metadata[d]
      BY <1>3, <1>8
    <2>4. QED
      BY <1>1, <1>2, <2>1, <2>2, <2>3
  <1>9. Contexts!RecordsFollowConnections'
    BY <1>7, <1>8 DEF Contexts!RecordsFollowConnections
  <1>10. QED
    BY <1>4, <1>5, <1>6, <1>9 DEF RecordsInv

\* Every step of vl3dns keeps the invariant.
LEMMA RecordsStep ==
    ASSUME RecordsInv, Contexts!VL3Next
    PROVE  RecordsInv'
  <1>1. CASE Contexts!ServerIPArrives
    <2>1. UNCHANGED <<records, dnsConfigs, metadata, context, names, asked, open, nameless>>
      BY <1>1 DEF Contexts!ServerIPArrives
    <2>2. PICK ip \in OwnIPs : serverIP' = ip /\ ownIPs' = ownIPs \cup {ip}
      BY <1>1 DEF Contexts!ServerIPArrives
    <2>3. RecordsType' /\ Contexts!RecordsFollowConnections'
      BY <2>1, <2>2, NamesAssumption DEF RecordsInv, RecordsType, Contexts!RecordsFollowConnections
    <2>4. ASSUME NEW c \in Client, dnsConfigs[c] # None, NEW k \in dnsConfigs[c]
          PROVE  IF NamesOf[c] = {} THEN OwnIP \notin k ELSE k \subseteq ownIPs' => \E x, y \in ownIPs' : x # y
      <3>1. CASE NamesOf[c] = {}
        BY <2>4, <3>1 DEF RecordsInv, Contexts!NeverAsksItself
      <3>2. CASE NamesOf[c] # {}
        <4>1. ownIPs # {} /\ (k \subseteq ownIPs => \E x, y \in ownIPs : x # y)
          BY <2>4, <3>2 DEF RecordsInv, Contexts!NeverAsksItself, ConfigsComeLater
        <4>2. CASE ip \in ownIPs
          BY <2>2, <3>2, <4>1, <4>2
        <4>3. CASE ip \notin ownIPs
          BY <2>2, <3>2, <4>1, <4>3
        <4>4. QED
          BY <4>2, <4>3
      <3>3. QED
        BY <3>1, <3>2
    <2>5. QED
      BY <2>1, <2>2, <2>3, <2>4 DEF RecordsInv, Contexts!NeverAsksItself, ConfigsComeLater
  <1>2. ASSUME NEW c \in Client, NEW ns \in NamesOf[c], Contexts!Request(c, ns)
        PROVE  RecordsInv'
    BY <1>2, RequestKeepsRecords
  <1>3. ASSUME NEW c \in Client, NamesOf[c] = {}, Contexts!ClientRequest(c)
        PROVE  RecordsInv'
    <2>1. PICK configs : dnsConfigs' = [dnsConfigs EXCEPT ![c] = Contexts!clientConfigs(configs)]
      <3>1. PICK answer : dnsConfigs' = [dnsConfigs EXCEPT ![c] = Contexts!clientConfigs({{OwnIP}, answer})]
        BY <1>3 DEF Contexts!ClientRequest
      <3>2. QED
        BY <3>1
    <2>2. open' = open \cup {c} /\ UNCHANGED <<serverIP, ownIPs, records, metadata, context, names, asked, nameless>>
      BY <1>3 DEF Contexts!ClientRequest
    <2>3. /\ dnsConfigs' = [d \in Client |-> dnsConfigs'[d]] /\ dnsConfigs'[c] = Contexts!clientConfigs(configs)
          /\ \A d \in Client \ {c} : dnsConfigs'[d] = dnsConfigs[d]
      BY <2>1 DEF RecordsInv, RecordsType
    <2>4. metadata[c] = None
      BY <1>3 DEF RecordsInv, RecordsType
    <2>5. Contexts!NeverAsksItself' /\ ConfigsComeLater'
      BY <1>3, <2>2, <2>3 DEF RecordsInv, Contexts!NeverAsksItself, ConfigsComeLater, Contexts!clientConfigs
    <2>6. Contexts!RecordsFollowConnections'
      BY <2>2, <2>4 DEF RecordsInv, Contexts!RecordsFollowConnections
    <2>7. QED
      BY <2>2, <2>3, <2>5, <2>6 DEF RecordsInv, RecordsType
  <1>4. ASSUME NEW c \in Client, NEW addresses \in BOOLEAN, Contexts!RequestReturns(c, addresses)
        PROVE  RecordsInv'
    BY <1>4, ReturnKeepsRecords
  <1>5. ASSUME NEW c \in Client, Contexts!RequestFails(c)
        PROVE  RecordsInv'
    <2>1. names' = [names EXCEPT ![c] = None] /\ asked' = [asked EXCEPT ![c] = None] /\ open' = open \ {c}
          /\ UNCHANGED <<serverIP, ownIPs, records, dnsConfigs, metadata, context, nameless>>
      BY <1>5 DEF Contexts!RequestFails
    <2>2. /\ names' = [d \in Client |-> names'[d]] /\ names'[c] = None
          /\ \A d \in Client \ {c} : names'[d] = names[d]
          /\ asked' = [d \in Client |-> asked'[d]] /\ \A d \in Client \ {c} : asked'[d] = asked[d]
      BY <2>1 DEF RecordsInv, RecordsType
    <2>3. RecordsType'
      BY <2>1, <2>2 DEF RecordsInv, RecordsType
    <2>4. Contexts!RecordsFollowConnections' /\ Contexts!NeverAsksItself' /\ ConfigsComeLater'
      BY <2>1 DEF RecordsInv, Contexts!RecordsFollowConnections, Contexts!NeverAsksItself, ConfigsComeLater
    <2>5. \A d \in Client : names'[d] # None => metadata'[d] = None /\ (asked'[d].ip \in ownIPs' \/ asked'[d].configs = {})
      BY <2>1, <2>2 DEF RecordsInv
    <2>6. QED
      BY <2>3, <2>4, <2>5 DEF RecordsInv
  <1>6. ASSUME NEW c \in Client, Contexts!Close(c)
        PROVE  RecordsInv'
    BY <1>6, CloseKeepsRecords
  <1>7. QED
    BY <1>1, <1>2, <1>3, <1>4, <1>5, <1>6 DEF Contexts!VL3Next

-----------------------------------------------------------------------------
(* resolv.conf.                                                            *)

\* Lines of the original, and those that the client may write.
OriginalLines == [hashes : Nat, property : STRING, value : STRING]

\* One more comment sign in front of each line.
Commented(lines) == [i \in DOMAIN lines |-> [lines[i] EXCEPT !.hashes = @ + 1]]

\* The comments of a text are those that storeOriginalResolvConf makes of another one.
Backs(lines, o) ==
    /\ {i \in DOMAIN lines : lines[i].hashes > 0} = DOMAIN o
    /\ \A i \in DOMAIN o : lines[i] = Commented(o)[i]

\* The content of the file, and the next step of the start, once the write that has been
\* begun is over.
Text == IF step = "write" THEN writing.lines ELSE file
After == IF step = "write" THEN writing.then ELSE step

\* A start of dnscontext reads what was there before the first one, from the file or
\* from its comments, and the comments are written before anything is added.
ResolvInv ==
    /\ original \in Originals
    /\ step \in {"restore", "open", "store", "append", "write", "done"}
    /\ step = "write" => writing.then \in {"open", "append", "done"}
    /\ dnsConfigs = [c \in Client |-> dnsConfigs[c]]
    /\ Contexts!HasServers(original) /\ ~ torn =>
          /\ step = "restore" => file = original \/ Backs(file, original)
          /\ After \in {"open", "store"} => Text = original
          /\ After = "append" => Text = Commented(original)
          /\ After \in {"store", "append"} => properties = Contexts!readProperties(original)
          /\ After = "done" => conf = Contexts!dnsConfig(Contexts!readProperties(original))
          /\ After = "done" => Backs(Text, original)
          /\ \A c \in Client : dnsConfigs[c] # None => Contexts!dnsConfig(Contexts!readProperties(original)) \in dnsConfigs[c]

LEMMA ResolvBegins ==
    ASSUME Contexts!DnsContextInit
    PROVE  ResolvInv
  <1>1. original \in Originals /\ file = original /\ step = "restore" /\ dnsConfigs = [c \in Client |-> None]
    BY DEF Contexts!DnsContextInit
  <1>2. QED
    BY <1>1 DEF ResolvInv, Text, After

\* In a list of the numbers up to n, the k-th is k.
LEMMA NthOfInterval ==
    ASSUME NEW n \in Nat, NEW k \in 1 .. n
    PROVE  Contexts!Nth(1 .. n, k) = k
  <1>1. \A x \in 1 .. n : Contexts!Cardinality({y \in 1 .. n : y <= x}) = x
    <2>1. SUFFICES ASSUME NEW x \in 1 .. n
                   PROVE  Contexts!Cardinality({y \in 1 .. n : y <= x}) = x
      OBVIOUS
    <2>2. {y \in 1 .. n : y <= x} = 1 .. x
      OBVIOUS
    <2>3. Cardinality(1 .. x) = x
      BY FS_Interval
    <2>4. Contexts!Cardinality(1 .. x) = Cardinality(1 .. x)
      BY DEF Contexts!Cardinality, Cardinality
    <2>5. QED
      BY <2>2, <2>3, <2>4
  <1>2. \E x \in 1 .. n : Contexts!Cardinality({y \in 1 .. n : y <= x}) = k
    BY <1>1
  <1>3. Contexts!Nth(1 .. n, k) \in 1 .. n
        /\ Contexts!Cardinality({y \in 1 .. n : y <= Contexts!Nth(1 .. n, k)}) = k
    BY <1>2 DEF Contexts!Nth
  <1>4. QED
    BY <1>1, <1>3

\* Uncommented takes back what storeOriginalResolvConf does.
LEMMA BackedIsRestored ==
    ASSUME NEW o \in Seq(OriginalLines), NEW lines, Backs(lines, o)
    PROVE  Contexts!Uncommented(lines) = o
  <1> DEFINE commented == {i \in DOMAIN lines : lines[i].hashes > 0}
  <1>1. Len(o) \in Nat /\ DOMAIN o = 1 .. Len(o) /\ o = [i \in 1 .. Len(o) |-> o[i]]
        /\ \A i \in 1 .. Len(o) : o[i] \in OriginalLines
    OBVIOUS
  <1>2. commented = 1 .. Len(o)
    BY <1>1 DEF Backs
  <1>3. Contexts!Cardinality(commented) = Len(o)
    <2>1. Cardinality(1 .. Len(o)) = Len(o)
      BY <1>1, FS_Interval
    <2>2. Contexts!Cardinality(1 .. Len(o)) = Cardinality(1 .. Len(o))
      BY DEF Contexts!Cardinality, Cardinality
    <2>3. QED
      BY <1>2, <2>1, <2>2
  <1>4. Contexts!Uncommented(lines) = [k \in 1 .. Contexts!Cardinality(commented) |->
                                          [lines[Contexts!Nth(commented, k)] EXCEPT !.hashes = @ - 1]]
    BY DEF Contexts!Uncommented
  <1> HIDE DEF commented
  <1>5. \A k \in 1 .. Len(o) : [lines[Contexts!Nth(commented, k)] EXCEPT !.hashes = @ - 1] = o[k]
    <2>1. SUFFICES ASSUME NEW k \in 1 .. Len(o)
                   PROVE  [lines[Contexts!Nth(commented, k)] EXCEPT !.hashes = @ - 1] = o[k]
      OBVIOUS
    <2>2. Contexts!Nth(commented, k) = k
      BY <1>1, <1>2, NthOfInterval
    <2>3. lines[k] = [o[k] EXCEPT !.hashes = @ + 1]
      BY <1>1 DEF Backs, Commented
    <2>4. PICK l : l = o[k]
      OBVIOUS
    <2>5. l \in [hashes : Nat, property : STRING, value : STRING]
      BY <1>1, <2>4 DEF OriginalLines
    <2>6. [[l EXCEPT !.hashes = @ + 1] EXCEPT !.hashes = @ - 1] = l
      <3>1. PICK r : r = [l EXCEPT !.hashes = @ + 1]
        OBVIOUS
      <3>2. l = [hashes |-> l.hashes, property |-> l.property, value |-> l.value] /\ l.hashes \in Nat
        BY <2>5
      <3>3. r = [hashes |-> l.hashes + 1, property |-> l.property, value |-> l.value]
        BY <2>5, <3>1
      <3>4. [r EXCEPT !.hashes = @ - 1] = [hashes |-> r.hashes - 1, property |-> l.property, value |-> l.value]
        BY <3>3
      <3>5. r.hashes - 1 = l.hashes
        BY <3>2, <3>3
      <3>6. QED
        BY <3>1, <3>2, <3>4, <3>5
    <2>7. QED
      BY <2>2, <2>3, <2>4, <2>6
  <1>6. QED
    BY <1>1, <1>3, <1>4, <1>5

\* Commenting a text out backs it.
LEMMA CommentedBacks ==
    ASSUME NEW o \in Seq(OriginalLines)
    PROVE  Backs(Commented(o), o)
  <1>1. \A i \in DOMAIN o : Commented(o)[i].hashes > 0
    <2>1. SUFFICES ASSUME NEW i \in DOMAIN o
                   PROVE  Commented(o)[i].hashes > 0
      OBVIOUS
    <2>2. o[i] \in OriginalLines
      OBVIOUS
    <2>3. Commented(o)[i] = [o[i] EXCEPT !.hashes = @ + 1]
      BY DEF Commented
    <2>4. PICK l : l = o[i]
      OBVIOUS
    <2>5. l \in [hashes : Nat, property : STRING, value : STRING]
      BY <2>2, <2>4 DEF OriginalLines
    <2>6. PICK r : r = [l EXCEPT !.hashes = @ + 1]
      OBVIOUS
    <2>7. r.hashes = l.hashes + 1 /\ l.hashes \in Nat
      <3>1. r = [hashes |-> l.hashes + 1, property |-> l.property, value |-> l.value]
        BY <2>5, <2>6
      <3>2. QED
        BY <2>5, <3>1
    <2>8. Commented(o)[i] = r
      BY <2>3, <2>4, <2>6
    <2>9. QED
      BY <2>7, <2>8
  <1>2. DOMAIN Commented(o) = DOMAIN o
    BY DEF Commented
  <1>3. QED
    BY <1>1, <1>2 DEF Backs

\* A finite set of lines has a list.
LEMMA LinesHaveList ==
    ASSUME NEW S, IsFiniteSet(S)
    PROVE  Contexts!SetToSeq(S) \in Seq(S)
  <1>1. Cardinality(S) \in Nat /\ ExistsBijection(1 .. Cardinality(S), S)
    BY FS_CardinalityType
  <1>2. \E f \in [1 .. Cardinality(S) -> S] : Contexts!IsInjective(f)
    BY <1>1 DEF ExistsBijection, Bijection, Injection, IsInjective, Contexts!IsInjective
  <1>3. Contexts!SetToSeq(S) \in [1 .. Cardinality(S) -> S]
    <2>1. Contexts!Cardinality(S) = Cardinality(S)
      BY DEF Contexts!Cardinality, Cardinality
    <2>2. QED
      BY <1>2, <2>1, Zenon DEF Contexts!SetToSeq
  <1>4. QED
    BY <1>1, <1>3

\* The lines of two texts, one after the other.
LEMMA Joined ==
    ASSUME NEW T, NEW s \in Seq(T), NEW t \in Seq(T)
    PROVE  /\ s \o t \in Seq(T) /\ Len(s \o t) = Len(s) + Len(t)
           /\ \A i \in 1 .. Len(s) + Len(t) : (s \o t)[i] = IF i <= Len(s) THEN s[i] ELSE t[i - Len(s)]
  <1>1. s \o t \in Seq(T) /\ Len(s \o t) = Len(s) + Len(t)
    OBVIOUS
  <1>2. Len(s) \in Nat /\ Len(t) \in Nat
    OBVIOUS
  <1>3. \A i \in 1 .. Len(s) + Len(t) : (s \o t)[i] = IF i <= Len(s) THEN s[i] ELSE t[i - Len(s)]
    BY <1>2
  <1>4. QED
    BY <1>1, <1>3

\* What appendResolvConf writes are lines without a comment sign.
LEMMA AppendedBacks ==
    ASSUME NEW o \in Seq(OriginalLines), NEW lines, lines = Commented(o), NEW S, IsFiniteSet(S),
           NEW l, l.hashes = 0, \A x \in S : x.hashes = 0
    PROVE  Backs(lines \o <<l>> \o Contexts!SetToSeq(S), o)
  <1> DEFINE T == S \cup {l} \cup {lines[i] : i \in DOMAIN o}
             added == Contexts!SetToSeq(S)
             all == lines \o <<l>> \o added
  <1>1. added \in Seq(S)
    BY LinesHaveList
  <1> HIDE DEF added
  <1>2. Len(o) \in Nat /\ DOMAIN o = 1 .. Len(o)
    OBVIOUS
  <1>3. lines = [i \in 1 .. Len(o) |-> Commented(o)[i]] /\ DOMAIN lines = 1 .. Len(o)
    BY <1>2 DEF Commented
  <1>4. lines \in Seq(T) /\ Len(lines) = Len(o)
    <2>1. \A i \in 1 .. Len(o) : lines[i] \in T
      BY <1>2
    <2>2. lines \in [1 .. Len(o) -> T]
      BY <1>3, <2>1
    <2> HIDE DEF T
    <2>3. QED
      BY <1>2, <2>2
  <1>5. added \in Seq(T) /\ \A i \in 1 .. Len(added) : added[i] \in S
    BY <1>1
  <1>6. l \in T
    OBVIOUS
  <1> HIDE DEF T
  <1>7. lines \o <<l>> \in Seq(T) /\ Len(lines \o <<l>>) = Len(o) + 1
        /\ \A i \in 1 .. Len(o) + 1 : (lines \o <<l>>)[i] = IF i <= Len(o) THEN lines[i] ELSE l
    <2>1. <<l>> \in Seq(T) /\ Len(<<l>>) = 1 /\ <<l>>[1] = l
      BY <1>6
    <2>2. \A i \in 1 .. Len(o) + 1 : i <= Len(o) \/ i - Len(o) = 1
      BY <1>2
    <2>3. PICK t : t = <<l>>
      OBVIOUS
    <2>4. \A i \in 1 .. Len(o) + 1 : (lines \o t)[i] = IF i <= Len(o) THEN lines[i] ELSE t[i - Len(o)]
      BY <1>2, <1>4, <2>1, <2>3, Joined
    <2>5. lines \o t \in Seq(T) /\ Len(lines \o t) = Len(o) + 1
      BY <1>2, <1>4, <2>1, <2>3, Joined
    <2>6. \A i \in 1 .. Len(o) + 1 : ~(i <= Len(o)) => t[i - Len(o)] = l
      BY <2>1, <2>2, <2>3
    <2>7. QED
      BY <2>3, <2>4, <2>5, <2>6
  <1>8. Len(added) \in Nat /\ DOMAIN all = 1 .. Len(o) + 1 + Len(added)
        /\ \A i \in 1 .. Len(o) + 1 + Len(added) :
              all[i] = IF i <= Len(o) + 1 THEN (lines \o <<l>>)[i] ELSE added[i - (Len(o) + 1)]
    <2>1. Len(added) \in Nat
      BY <1>5
    <2>2. PICK s : s = lines \o <<l>>
      OBVIOUS
    <2>3. s \in Seq(T) /\ Len(s) = Len(o) + 1
      BY <1>7, <2>2
    <2>4. DOMAIN (s \o added) = 1 .. Len(s) + Len(added)
      <3>1. s \o added \in Seq(T) /\ Len(s \o added) = Len(s) + Len(added)
        BY <1>5, <2>3
      <3>2. QED
        BY <3>1
    <2>5. \A i \in 1 .. Len(s) + Len(added) : (s \o added)[i] = IF i <= Len(s) THEN s[i] ELSE added[i - Len(s)]
      BY <1>5, <2>3, Joined
    <2>6. QED
      BY <2>1, <2>2, <2>3, <2>4, <2>5
  <1> HIDE DEF all
  <1>10. \A i \in 1 .. Len(o) : i \in DOMAIN all /\ all[i] = Commented(o)[i]
    <2>1. \A i \in 1 .. Len(o) : i \in 1 .. Len(o) + 1 + Len(added) /\ i \in 1 .. Len(o) + 1 /\ i <= Len(o) + 1 /\ i <= Len(o)
      BY <1>2, <1>8
    <2>2. QED
      BY <1>3, <1>7, <1>8, <2>1
  <1>11. \A i \in DOMAIN all : i > Len(o) => all[i].hashes = 0
    <2>1. SUFFICES ASSUME NEW i \in DOMAIN all, i > Len(o)
                   PROVE  all[i].hashes = 0
      OBVIOUS
    <2>2. i \in Nat /\ i <= Len(o) + 1 + Len(added) /\ i >= 1
      BY <1>2, <1>8
    <2>3. CASE i = Len(o) + 1
      <3>1. all[i] = l
        BY <1>2, <1>7, <1>8, <2>2, <2>3
      <3>2. QED
        BY <3>1
    <2>4. CASE i > Len(o) + 1
      <3>1. i - (Len(o) + 1) \in 1 .. Len(added)
        BY <1>2, <1>8, <2>2, <2>4
      <3>2. all[i] = added[i - (Len(o) + 1)]
        BY <1>2, <1>8, <2>2, <2>4
      <3>3. QED
        BY <1>5, <3>1, <3>2
    <2>5. QED
      BY <1>2, <2>1, <2>2, <2>3, <2>4
  <1>12. \A i \in 1 .. Len(o) : Commented(o)[i].hashes > 0
    <2>1. Backs(Commented(o), o)
      BY CommentedBacks
    <2>2. QED
      BY <1>2, <2>1 DEF Backs
  <1>13. {i \in DOMAIN all : all[i].hashes > 0} = DOMAIN o
    <2>1. \A i \in DOMAIN all : i \in Nat /\ i >= 1
      BY <1>2, <1>8
    <2>2. QED
      BY <1>2, <1>10, <1>11, <1>12, <2>1
  <1>14. Backs(all, o)
    BY <1>2, <1>10, <1>13 DEF Backs
  <1>15. QED
    BY <1>14 DEF all, added

\* The other properties of a text are finitely many.
LEMMA PropertiesAreFinite ==
    ASSUME NEW o \in Seq(OriginalLines)
    PROVE  IsFiniteSet(DOMAIN Contexts!readProperties(o))
  <1> DEFINE active == {i \in DOMAIN o : o[i].hashes = 0 /\ o[i].property # "text"}
  <1>1. DOMAIN Contexts!readProperties(o) = {o[i].property : i \in active}
    BY DEF Contexts!readProperties
  <1>2. IsFiniteSet(active)
    <2>1. Len(o) \in Nat /\ active \subseteq 1 .. Len(o)
      OBVIOUS
    <2>2. IsFiniteSet(1 .. Len(o))
      BY <2>1, FS_Interval
    <2>3. QED
      BY <2>1, <2>2, FS_Subset
  <1> HIDE DEF active
  <1>3. PICK f : f = [i \in active |-> o[i].property]
    OBVIOUS
  <1>4. f \in Surjection(active, {o[i].property : i \in active})
    BY <1>3 DEF Surjection
  <1>5. QED
    BY <1>1, <1>2, <1>4, FS_Surjection

\* A write that has been begun has the file as it is meant to be, once it is over.
LEMMA WriteBegins ==
    ASSUME NEW lines, NEW then \in {"open", "append", "done"}, Contexts!WriteFile(lines, then)
    PROVE  /\ step' = "write" /\ writing'.then = then
           /\ Text' = lines /\ After' = then
  BY DEF Contexts!WriteFile, Text, After

\* A start that finds the original, or its comments, goes on with the original.
LEMMA ResolvRestores ==
    ASSUME ResolvInv, Contexts!restoreResolvConf, UNCHANGED dnsConfigs
    PROVE  ResolvInv'
  <1> DEFINE old == Contexts!Uncommented(file)
  <1>1. /\ step = "restore" /\ UNCHANGED <<original, torn, conf, properties>>
        /\ IF Contexts!HasServers(old) THEN Contexts!WriteFile(old, "open") ELSE step' = "open" /\ UNCHANGED <<file, writing>>
    BY DEF Contexts!restoreResolvConf
  <1>2. /\ After' = "open" /\ Text' = (IF Contexts!HasServers(old) THEN old ELSE file)
        /\ step' \in {"write", "open"} /\ (step' = "write" => writing'.then = "open")
    <2>1. CASE Contexts!HasServers(old)
      <3>1. Contexts!WriteFile(old, "open")
        BY <1>1, <2>1
      <3>2. QED
        BY <2>1, <3>1, WriteBegins
    <2>2. CASE ~ Contexts!HasServers(old)
      BY <1>1, <2>2 DEF Text, After
    <2>3. QED
      BY <2>1, <2>2
  <1>3. ASSUME Contexts!HasServers(original), ~ torn
        PROVE  Text' = original
    <2>1. original \in Originals /\ original \in Seq(OriginalLines)
      BY NamesAssumption DEF ResolvInv, OriginalLines
    <2>2. CASE file = original
      BY <1>2, <1>3, <2>1, <2>2, NamesAssumption
    <2>3. CASE Backs(file, original)
      <3>1. Contexts!Uncommented(file) = original
        BY <2>1, <2>3, BackedIsRestored
      <3>2. QED
        BY <1>2, <1>3, <3>1
    <2>4. QED
      BY <1>1, <1>3, <2>2, <2>3 DEF ResolvInv
  <1>4. QED
    BY <1>1, <1>2, <1>3 DEF ResolvInv

\* Every line of the original becomes a comment.
LEMMA ResolvStores ==
    ASSUME ResolvInv, Contexts!storeOriginalResolvConf, UNCHANGED dnsConfigs
    PROVE  ResolvInv'
  <1>1. /\ step = "store" /\ UNCHANGED <<original, torn, conf, properties>>
        /\ Contexts!WriteFile(Commented(file), "append")
    BY DEF Contexts!storeOriginalResolvConf, Commented
  <1>2. step' = "write" /\ writing'.then = "append" /\ Text' = Commented(file) /\ After' = "append"
    BY <1>1, WriteBegins
  <1>3. Text = file /\ After = "store"
    BY <1>1 DEF Text, After
  <1>4. QED
    BY <1>1, <1>2, <1>3 DEF ResolvInv

\* The own name server goes behind the comments.
LEMMA ResolvAppends ==
    ASSUME ResolvInv, Contexts!appendResolvConf, UNCHANGED dnsConfigs
    PROVE  ResolvInv'
  <1> DEFINE S == {Contexts!Line(0, p, properties[p]) : p \in DOMAIN properties \ {"nameserver", "search"}}
             l == Contexts!Line(0, "nameserver", DefaultIP)
             all == file \o <<l>> \o Contexts!SetToSeq(S)
  <1>1. /\ step = "append" /\ UNCHANGED <<original, torn, properties>> /\ conf' = Contexts!dnsConfig(properties)
        /\ Contexts!WriteFile(all, "done")
    BY DEF Contexts!appendResolvConf
  <1>2. l.hashes = 0 /\ \A x \in S : x.hashes = 0
    BY DEF Contexts!Line
  <1>3. step' = "write" /\ writing'.then = "done" /\ Text' = all /\ After' = "done"
    <2> HIDE DEF all
    <2>1. QED
      BY <1>1, WriteBegins
  <1>4. Text = file /\ After = "append"
    BY <1>1 DEF Text, After
  <1>5. ASSUME Contexts!HasServers(original), ~ torn
        PROVE  /\ Backs(all, original)
               /\ conf' = Contexts!dnsConfig(Contexts!readProperties(original))
    <2>1. original \in Seq(OriginalLines)
      BY NamesAssumption DEF ResolvInv, OriginalLines
    <2>2. file = Commented(original) /\ properties = Contexts!readProperties(original)
      BY <1>4, <1>5 DEF ResolvInv
    <2>3. IsFiniteSet(S)
      <3>1. PICK D : D = DOMAIN properties \ {"nameserver", "search"}
        OBVIOUS
      <3>2. IsFiniteSet(D)
        BY <2>1, <2>2, <3>1, PropertiesAreFinite, FS_Subset
      <3>3. PICK f : f = [p \in D |-> Contexts!Line(0, p, properties[p])]
        OBVIOUS
      <3>4. f \in Surjection(D, S)
        BY <3>1, <3>3 DEF Surjection
      <3>5. QED
        BY <3>2, <3>4, FS_Surjection
    <2>4. conf' = Contexts!dnsConfig(Contexts!readProperties(original))
      BY <1>1, <2>2
    <2> HIDE DEF S, l
    <2>5. QED
      BY <1>2, <2>1, <2>2, <2>3, <2>4, AppendedBacks
  <1> HIDE DEF all
  <1>6. QED
    BY <1>1, <1>3, <1>5 DEF ResolvInv

\* Every step of dnscontext, and every crash, keeps the invariant.
LEMMA ResolvStep ==
    ASSUME ResolvInv, Contexts!ResolvNext
    PROVE  ResolvInv'
  <1>1. ASSUME Contexts!restoreResolvConf, UNCHANGED dnsConfigs
        PROVE  ResolvInv'
    BY <1>1, ResolvRestores
  <1>2. ASSUME Contexts!openResolveConfig, UNCHANGED dnsConfigs
        PROVE  ResolvInv'
    <2>1. /\ step = "open" /\ step' = "store" /\ properties' = Contexts!readProperties(file)
          /\ UNCHANGED <<original, file, writing, torn, conf>>
      BY <1>2 DEF Contexts!openResolveConfig
    <2>2. Text = file /\ After = "open" /\ Text' = file /\ After' = "store"
      BY <2>1 DEF Text, After
    <2>3. QED
      BY <1>2, <2>1, <2>2 DEF ResolvInv
  <1>3. ASSUME Contexts!storeOriginalResolvConf, UNCHANGED dnsConfigs
        PROVE  ResolvInv'
    BY <1>3, ResolvStores
  <1>4. ASSUME Contexts!appendResolvConf, UNCHANGED dnsConfigs
        PROVE  ResolvInv'
    BY <1>4, ResolvAppends
  <1>9. ASSUME Contexts!Write, UNCHANGED dnsConfigs
        PROVE  ResolvInv'
    <2>1. /\ step = "write" /\ file' = writing.lines /\ step' = writing.then
          /\ UNCHANGED <<original, torn, conf, properties>>
      BY <1>9 DEF Contexts!Write
    <2>2. writing.then \in {"open", "append", "done"}
      BY <2>1 DEF ResolvInv
    <2>3. Text' = Text /\ After' = After /\ step' = After
      BY <2>1, <2>2 DEF Text, After
    <2>4. QED
      BY <1>9, <2>1, <2>2, <2>3 DEF ResolvInv
  <1>5. ASSUME NEW c \in Client, Contexts!dnsContextClient_Request(c)
        PROVE  ResolvInv'
    <2>1. /\ step = "done" /\ dnsConfigs' = [dnsConfigs EXCEPT ![c] = Contexts!dnsContextServer({}) \cup {conf}]
          /\ UNCHANGED <<original, file, step, writing, torn, conf, properties>>
      BY <1>5 DEF Contexts!dnsContextClient_Request, Contexts!resolvVars
    <2>2. /\ dnsConfigs' = [d \in Client |-> dnsConfigs'[d]] /\ conf \in dnsConfigs'[c]
          /\ \A d \in Client \ {c} : dnsConfigs'[d] = dnsConfigs[d]
      BY <2>1 DEF ResolvInv
    <2>3. Text' = Text /\ After' = After /\ After = "done"
      BY <2>1 DEF Text, After
    <2>4. QED
      BY <2>1, <2>2, <2>3 DEF ResolvInv
  <1>6. ASSUME NEW c \in Client, Contexts!dnsContextClient_Close(c)
        PROVE  ResolvInv'
    <2>1. dnsConfigs' = [dnsConfigs EXCEPT ![c] = None] /\ UNCHANGED <<original, file, step, writing, torn, conf, properties>>
      BY <1>6 DEF Contexts!dnsContextClient_Close, Contexts!resolvVars
    <2>2. /\ dnsConfigs' = [d \in Client |-> dnsConfigs'[d]] /\ dnsConfigs'[c] = None
          /\ \A d \in Client \ {c} : dnsConfigs'[d] = dnsConfigs[d]
      BY <2>1 DEF ResolvInv
    <2>3. Text' = Text /\ After' = After
      BY <2>1 DEF Text, After
    <2>4. QED
      BY <2>1, <2>2, <2>3 DEF ResolvInv
  <1>7. ASSUME Contexts!Crash
        PROVE  ResolvInv'
    <2>1. /\ step' = "restore" /\ dnsConfigs' = [c \in Client |-> None] /\ UNCHANGED <<original, file>>
          /\ torn' = (torn \/ step = "write")
      BY <1>7 DEF Contexts!Crash
    <2>2. Contexts!HasServers(original) /\ ~ torn' => file = original \/ Backs(file, original)
      <3>1. original \in Seq(OriginalLines)
        BY NamesAssumption DEF ResolvInv, OriginalLines
      <3>2. Backs(Commented(original), original)
        BY <3>1, CommentedBacks
      <3>3. SUFFICES ASSUME Contexts!HasServers(original), ~ torn'
                     PROVE  file = original \/ Backs(file, original)
        OBVIOUS
      <3>4. ~ torn /\ step # "write"
        BY <2>1, <3>3
      <3>5. Text = file /\ After = step
        BY <3>4 DEF Text, After
      <3>6. QED
        BY <3>2, <3>3, <3>4, <3>5 DEF ResolvInv
    <2>3. After' = "restore"
      BY <2>1 DEF After
    <2>4. QED
      BY <2>1, <2>2, <2>3 DEF ResolvInv
  <1>8. QED
    BY <1>1, <1>2, <1>3, <1>4, <1>5, <1>6, <1>7, <1>9 DEF Contexts!ResolvNext

\* The invariant says that the original survives.
LEMMA ResolvSurvives ==
    ASSUME ResolvInv
    PROVE  Contexts!OriginalSurvives
  <1>1. SUFFICES ASSUME Contexts!HasServers(original), ~ torn
                 PROVE  /\ Text = original \/ Contexts!Uncommented(Text) = original
                        /\ step = "done" => conf = Contexts!dnsConfig(Contexts!readProperties(original))
                        /\ \A c \in Client : dnsConfigs[c] # None => Contexts!dnsConfig(Contexts!readProperties(original)) \in dnsConfigs[c]
    BY DEF Contexts!OriginalSurvives, Text
  <1>2. original \in Seq(OriginalLines)
    BY NamesAssumption DEF ResolvInv, OriginalLines
  <1>3. Backs(Commented(original), original)
    BY <1>2, CommentedBacks
  <1>4. Text = original \/ Backs(Text, original)
    <2>1. CASE step = "restore"
      <3>1. Text = file
        BY <2>1 DEF Text
      <3>2. QED
        BY <1>1, <2>1, <3>1 DEF ResolvInv
    <2>2. CASE step # "restore"
      <3>1. After \in {"open", "store", "append", "done"}
        BY <2>2 DEF ResolvInv, After
      <3>2. QED
        BY <1>1, <1>3, <3>1 DEF ResolvInv
    <2>3. QED
      BY <2>1, <2>2
  <1>5. Text = original \/ Contexts!Uncommented(Text) = original
    BY <1>2, <1>4, BackedIsRestored
  <1>6. step = "done" => After = "done"
    BY DEF After
  <1>7. QED
    BY <1>1, <1>5, <1>6 DEF ResolvInv

-----------------------------------------------------------------------------
(* The theorems.  The part that is chosen initially is the only one that   *)
(* moves.                                                                  *)

\* The inductive invariant of the parts that give something to connections.
SharingInv ==
    /\ part = "ipam" => IpamInv
    /\ part = "vl3server" => ServerInv
    /\ part = "vl3ipam" => StreamInv
    /\ part = "numbers" => NumberInv

\* SharingInv is inductive: only the part that was chosen moves.
LEMMA SharingStep ==
    ASSUME SharingInv, [MCNext]_allVars
    PROVE  SharingInv'
  <1>1. UNCHANGED part
    BY DEF MCNext, allVars
  <1>2. ASSUME part = "ipam"
        PROVE  IpamInv'
    <2>1. Ipam!Next \/ UNCHANGED ipamVars
      BY <1>2 DEF MCNext, AllocatorNext, KeeperNext, allVars, allocatorVars
    <2>2. CASE UNCHANGED ipamVars
      <3>1. UNCHANGED <<server, pools, info, ipamCall, held, stale, twice>>
        BY <2>2 DEF ipamVars
      <3>2. \A c \in Conn : Ipam!OwnOf(info[c])' = Ipam!OwnOf(info[c])
        BY <3>1 DEF Ipam!OwnOf
      <3>3. QED
        BY <1>2, <3>1, <3>2 DEF SharingInv, IpamInv, IpamType, EntriesAreRight, PoolsFit
    <2>3. QED
      BY <1>2, <2>1, <2>2, IpamStep DEF SharingInv
  <1>3. ASSUME part = "vl3server"
        PROVE  ServerInv'
    <2>1. Vl3!ServerNext \/ UNCHANGED vl3Vars
      BY <1>3 DEF MCNext, AllocatorNext, KeeperNext, allVars, allocatorVars
    <2>2. CASE UNCHANGED vl3Vars
      <3>1. UNCHANGED <<renewed, used, self, ipPool, excluded, vl3Call, srcs>>
        BY <2>2 DEF vl3Vars
      <3>2. QED
        BY <1>3, <3>1 DEF SharingInv, ServerInv, ServerType, Known, AddressesOf, Vl3!selfAddress
    <2>3. QED
      BY <1>3, <2>1, <2>2, ServerStep DEF SharingInv
  <1>4. ASSUME part = "vl3ipam"
        PROVE  StreamInv'
    <2>1. Vl3!StreamNext \/ UNCHANGED streamVars
      BY <1>4 DEF MCNext, AllocatorNext, KeeperNext, allVars, allocatorVars
    <2>2. CASE UNCHANGED streamVars
      BY <1>4, <2>2 DEF streamVars, SharingInv, StreamInv
    <2>3. QED
      BY <1>4, <2>1, <2>2, StreamStep DEF SharingInv
  <1>5. ASSUME part = "numbers"
        PROVE  NumberInv'
    <2>1. Numbers!Next \/ UNCHANGED numberVars
      BY <1>5 DEF MCNext, AllocatorNext, KeeperNext, allVars, allocatorVars
    <2>2. CASE UNCHANGED numberVars
      <3>1. UNCHANGED <<element, recovers, keys, meta, freeVLANs, numberCall, number>>
        BY <2>2 DEF numberVars
      <3>2. QED
        BY <1>5, <3>1 DEF SharingInv, NumberInv, NumberType, NumberOf
    <2>3. QED
      BY <1>5, <2>1, <2>2, NumberStep DEF SharingInv
  <1>6. QED
    BY <1>1, <1>2, <1>3, <1>4, <1>5 DEF SharingInv

\* Whatever calls of different connections overlap, fail, are repeated or are closed, no
\* two connections have the same address, prefix, VNI or VLAN, and none of a connection
\* is free: at ipamServer and singlePIpam but for connections whose entry has outlived
\* its addresses and for addresses that such an entry has freed again, at vl3Server if
\* Reset gets only new prefixes, at vl3IPAMServer if all streams ask for prefixes of one
\* size, at vniServer and vlanServer if no connection brings its own number.
THEOREM NothingIsEverShared == MCSpec => []NothingIsShared
  <1>1. MCInit => SharingInv
    BY IpamBegins, ServerBegins, StreamBegins, NumberBegins DEF MCInit, SharingInv
  <1>2. SharingInv /\ [MCNext]_allVars => SharingInv'
    BY SharingStep
  <1>3. SharingInv => NothingIsShared
    BY IpamUnshared, ServerUnshared, StreamDisjoint, NumberUnshared DEF SharingInv, NothingIsShared
  <1>4. QED
    BY <1>1, <1>2, <1>3, PTL DEF MCSpec, allVars

\* vl3Client: however resets, calls and their cancellation overlap, a peer that was
\* told of an earlier prefix has an event queued that will tell it of the new one.
THEOREM PeersAlwaysLearnPrefix == MCSpec => []PeersLearnPrefix
  <1> DEFINE Inv == part = "vl3client" => PeerInv
  <1>1. MCInit => Inv
    BY PeerBegins DEF MCInit
  <1>2. ASSUME Inv, [MCNext]_allVars
        PROVE  Inv'
    <2>1. SUFFICES ASSUME part = "vl3client"
                   PROVE  PeerInv'
      BY <1>2 DEF MCNext, allVars
    <2>2. Vl3!ClientNext \/ UNCHANGED vl3Vars
      BY <1>2, <2>1 DEF MCNext, AllocatorNext, KeeperNext, allVars, allocatorVars
    <2>3. CASE UNCHANGED vl3Vars
      BY <1>2, <2>1, <2>3 DEF vl3Vars, PeerInv, PeerType
    <2>4. QED
      BY <1>2, <2>1, <2>2, <2>3, PeerStep
  <1>3. Inv => PeersLearnPrefix
    BY DEF PeerInv, PeersLearnPrefix, Vl3!PeersLearnPrefix
  <1>4. QED
    BY <1>1, <1>2, <1>3, PTL DEF MCSpec, allVars

\* sendfd, recvfd: whatever calls fail, are cancelled or are closed, every open
\* descriptor has an owner that will close it, apart from the ones described at
\* OpenFilesAreOwned, none is in two maps, and that of an established connection is open
\* unless a later Request of that connection has failed.
THEOREM FilesAreAlwaysOwned == MCSpec => []FilesAreOwned
  <1> DEFINE Inv == part = "files" => TransferInv
  <1>1. MCInit => Inv
    BY FilesBegin DEF MCInit
  <1>2. ASSUME Inv, [MCNext]_allVars
        PROVE  Inv'
    <2>1. SUFFICES ASSUME part = "files"
                   PROVE  TransferInv'
      BY <1>2 DEF MCNext, allVars
    <2>2. Files!FDsNext \/ UNCHANGED fileVars
      BY <1>2, <2>1 DEF MCNext, AllocatorNext, KeeperNext, allVars, keeperVars
    <2>3. CASE UNCHANGED fileVars
      <3>1. UNCHANGED <<kind, fds, fileMaps, transfer, heldFile, broken, orphans, strays>>
        BY <2>3 DEF fileVars
      <3>2. \A c \in Conn : Files!FilesOf(c)' = Files!FilesOf(c) /\ TransferIsSound(c)' = TransferIsSound(c)
        BY <3>1 DEF Files!FilesOf, TransferIsSound
      <3>3. FilesInv'
        BY <1>2, <2>1, <3>1, <3>2 DEF TransferInv, FilesInv, FileType, MapsAreSound, Files!OpenFilesAreOwned, Files!FilesOf
      <3>4. QED
        BY <1>2, <2>1, <3>1, <3>2, <3>3 DEF TransferInv, TransferType
    <2>4. QED
      BY <1>2, <2>1, <2>2, <2>3, FilesStep
  <1>3. Inv => FilesAreOwned
    BY HeldIsOpen DEF TransferInv, FilesInv, FilesAreOwned
  <1>4. QED
    BY <1>1, <1>2, <1>3, PTL DEF MCSpec, allVars

\* vl3dns: in whatever order the calls of clients begin, return and fail, the names of
\* an open connection lead to it, no DNS server is made to ask just itself unless its
\* address has changed, and a client never makes it ask itself.  dnscontext: wherever its
\* start is cut off, and however often, but for the middle of a write, the resolv.conf of
\* before the first one survives.
THEOREM NamesAlwaysFollow == MCSpec => []NamesFollowConnections
  <1> DEFINE Inv == (part = "vl3dns" => RecordsInv) /\ (part = "resolvconf" => ResolvInv)
  <1>1. MCInit => Inv
    BY RecordsBegin, ResolvBegins DEF MCInit
  <1>2. ASSUME Inv, [MCNext]_allVars
        PROVE  Inv'
    <2>1. part' = part
      BY <1>2 DEF MCNext, allVars
    <2>2. CASE part = "vl3dns"
      <3>1. Contexts!VL3Next \/ UNCHANGED <<recordVars, dnsConfigs>>
        BY <1>2, <2>2 DEF MCNext, AllocatorNext, KeeperNext, allVars, keeperVars
      <3>2. CASE UNCHANGED <<recordVars, dnsConfigs>>
        <4>1. UNCHANGED <<serverIP, ownIPs, records, metadata, context, names, asked, open, nameless, dnsConfigs>>
          BY <3>2 DEF recordVars
        <4>2. RecordsInv
          BY <1>2, <2>2
        <4>3. Contexts!RecordsFollowConnections' /\ Contexts!NeverAsksItself' /\ ConfigsComeLater'
          BY <4>1, <4>2 DEF RecordsInv, Contexts!RecordsFollowConnections, Contexts!NeverAsksItself, ConfigsComeLater
        <4>4. RecordsInv'
          BY <4>1, <4>2, <4>3 DEF RecordsInv, RecordsType
        <4>5. QED
          BY <2>1, <2>2, <4>4
      <3>3. QED
        BY <1>2, <2>1, <2>2, <3>1, <3>2, RecordsStep
    <2>3. CASE part = "resolvconf"
      <3>1. Contexts!ResolvNext \/ UNCHANGED <<resolvVars, dnsConfigs>>
        BY <1>2, <2>3 DEF MCNext, AllocatorNext, KeeperNext, allVars, keeperVars
      <3>2. CASE UNCHANGED <<resolvVars, dnsConfigs>>
        <4>1. UNCHANGED <<original, file, step, writing, torn, conf, properties, dnsConfigs>>
          BY <3>2 DEF resolvVars
        <4>2. Text' = Text /\ After' = After
          BY <4>1 DEF Text, After
        <4>3. ResolvInv'
          BY <1>2, <2>3, <4>1, <4>2 DEF ResolvInv
        <4>4. QED
          BY <2>1, <2>3, <4>3
      <3>3. QED
        BY <1>2, <2>1, <2>3, <3>1, <3>2, ResolvStep
    <2>4. QED
      BY <2>1, <2>2, <2>3
  <1>3. Inv => NamesFollowConnections
    BY ResolvSurvives DEF RecordsInv, NamesFollowConnections
  <1>4. QED
    BY <1>1, <1>2, <1>3, PTL DEF MCSpec, allVars
=============================================================================

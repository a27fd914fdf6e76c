--------------------------- MODULE DashboardProofs ---------------------------
(***************************************************************************)
(* Theorems about Dashboard and its users, for every bound, every set of   *)
(* requests and strings, and every list of possibleKeys.                   *)
(***************************************************************************)
EXTENDS DashboardUsers, StringCacheProofs
-----------------------------------------------------------------------------
(* What a simulation draws.                                                *)

LEMMA KeysIs ==
  ASSUME NEW nodes \in Seq([key : Strings, value : Strings])
  PROVE  /\ Keys(nodes) \in Seq(Strings) /\ Len(Keys(nodes)) = Len(nodes)
         /\ \A i \in 1 .. Len(nodes) : Keys(nodes)[i] = nodes[i].key
<1>1. /\ Len(nodes) \in Nat /\ DOMAIN nodes = 1 .. Len(nodes)
      /\ \A i \in 1 .. Len(nodes) : nodes[i] \in [key : Strings, value : Strings]
  BY LenProperties, ElementOfSeq
<1>2. Keys(nodes) = [i \in 1 .. Len(nodes) |-> nodes[i].key]
  BY <1>1 DEF Keys
<1> HIDE DEF Keys
<1> QED
  BY <1>1, <1>2

LEMMA ReverseIs ==
  ASSUME NEW S, NEW s \in Seq(S)
  PROVE  /\ Reverse(s) \in Seq(S) /\ Len(Reverse(s)) = Len(s)
         /\ \A i \in 1 .. Len(s) : Reverse(s)[i] = s[(Len(s) - i) + 1]
<1>1. Len(s) \in Nat /\ \A i \in 1 .. Len(s) : s[i] \in S
  BY LenProperties, ElementOfSeq
<1>2. \A i \in 1 .. Len(s) : (Len(s) - i) + 1 \in 1 .. Len(s)
  BY <1>1
<1>3. \A i \in 1 .. Len(s) : s[(Len(s) - i) + 1] \in S
  BY <1>1, <1>2
<1> QED
  BY <1>1, <1>3 DEF Reverse

LEMMA SyncedIs == \A state \in StateType : Synced(state) \in Seq(Strings)
  BY KeysIs, ReverseIs DEF Synced, StateType

LEMMA DeletedIs ==
  ASSUME NEW shadow \in Seq(Strings), NEW key
  PROVE  Deleted(shadow, key) \in Seq(Strings)
<1>1. CASE key \in ToSet(shadow)
  <2> DEFINE i == CHOOSE i \in DOMAIN shadow : shadow[i] = key
  <2>1. i \in DOMAIN shadow
    BY <1>1 DEF ToSet
  <2>2. i \in 1 .. Len(shadow)
    BY <2>1, LenProperties
  <2>3. Deleted(shadow, key) = WithoutAt(shadow, i)
    BY <1>1 DEF Deleted, RemoveAt, WithoutAt
  <2> HIDE DEF i
  <2> QED
    BY <2>2, <2>3, WithoutAtIs
<1>2. CASE key \notin ToSet(shadow)
  BY <1>2 DEF Deleted
<1> QED
  BY <1>1, <1>2

LEMMA FollowedIs ==
  ASSUME NEW shadow \in Seq(Strings), NEW op \in {"put", "get", "remove"}, NEW key \in Strings, NEW cap
  PROVE  Followed(shadow, op, key, cap) \in Seq(Strings)
<1> DEFINE longer == Append(Deleted(shadow, key), key)
<1>1. longer \in Seq(Strings) /\ longer # <<>>
  BY DeletedIs, AppendProperties
<1>2. Tail(longer) \in Seq(Strings)
  BY <1>1, HeadTailProperties
<1>3. shadow_put(shadow, key, cap) \in Seq(Strings)
  BY <1>1, <1>2 DEF shadow_put
<1>4. shadow_get(shadow, key) \in Seq(Strings)
  BY <1>1 DEF shadow_get
<1> QED
  BY <1>3, <1>4, DeletedIs DEF Followed

(* The states of the loop.                                                 *)
Generation == [shadow : Seq(Strings), last : {"none", "put", "get", "remove"}, count : Nat, ops : Seq(Operation)]

LEMMA TypesAre ==
  ASSUME NEW g, NEW cap, NEW type \in Types(g, cap)
  PROVE  type.op \in {"put", "get", "remove"}
<1>1. \A d \in DrawnTypes(g.shadow, cap) : d.op \in {"put", "get", "remove"}
  BY DEF DrawnTypes
<1> QED
  BY <1>1 DEF Types

LEMMA KeysForIs ==
  ASSUME NEW type, type.op \in {"put", "get", "remove"}, NEW shadow \in Seq(Strings)
  PROVE  KeysFor(type, shadow) \subseteq Strings
<1>1. ToSet(possibleKeys) \subseteq Strings
  BY LenProperties, ElementOfSeq, PossibleKeysAssumption DEF ToSet
<1>2. ToSet(shadow) \subseteq Strings
  BY LenProperties, ElementOfSeq DEF ToSet
<1>3. possibleKeys[1] \in Strings
  BY EmptySeq, LenProperties, ElementOfSeq, PossibleKeysAssumption
<1> QED
  BY <1>1, <1>2, <1>3 DEF KeysFor

LEMMA DrawnIs ==
  ASSUME NEW g \in Generation, NEW cap, NEW d \in Drawn(g, cap)
  PROVE  /\ d \in Generation
         /\ \E o \in Operation : d.ops = Append(g.ops, o) /\ d.shadow = Followed(g.shadow, o.op, o.key, cap)
<1>1. PICK o \in UNION {OperationsOf(t, g.shadow) : t \in Types(g, cap)} :
        d = [shadow |-> Followed(g.shadow, o.op, o.key, cap),
             last   |-> o.op,
             count  |-> IF o.op = g.last THEN g.count + 1 ELSE 1,
             ops    |-> Append(g.ops, o)]
  BY DEF Drawn
<1>2. PICK type \in Types(g, cap) : o \in OperationsOf(type, g.shadow)
  BY <1>1
<1>3. g.shadow \in Seq(Strings) /\ g.count \in Nat /\ g.ops \in Seq(Operation)
  BY DEF Generation
<1>4. KeysFor(type, g.shadow) \subseteq Strings /\ type.op \in {"put", "get", "remove"}
  BY <1>2, <1>3, TypesAre, KeysForIs
<1>5. o \in Operation /\ o.key \in Strings /\ o.op \in {"put", "get", "remove"}
  BY <1>2, <1>4, PossibleKeysAssumption DEF OperationsOf, Operation
<1>6. Followed(g.shadow, o.op, o.key, cap) \in Seq(Strings)
  BY <1>3, <1>5, FollowedIs
<1>7. Append(g.ops, o) \in Seq(Operation)
  BY <1>3, <1>5, AppendProperties
<1>8. d \in Generation
  BY <1>1, <1>3, <1>5, <1>6, <1>7 DEF Generation
<1> QED
  BY <1>1, <1>5, <1>8

(* The shadows after each operation of ops.                                *)
FollowedBy(before, ops, cap, shadows) ==
  /\ shadows[0] = before
  /\ \A k \in 1 .. Len(ops) : shadows[k] = Followed(shadows[k - 1], ops[k].op, ops[k].key, cap)

LEMMA FollowOneMore ==
  ASSUME NEW before, NEW ops \in Seq(Operation), NEW cap, NEW shadows, NEW o \in Operation,
         FollowedBy(before, ops, cap, shadows)
  PROVE  LET n == Len(ops)
             more == [k \in 0 .. n + 1 |-> IF k = n + 1 THEN Followed(shadows[n], o.op, o.key, cap) ELSE shadows[k]]
         IN  FollowedBy(before, Append(ops, o), cap, more)
<1> DEFINE n == Len(ops)
           more == [k \in 0 .. n + 1 |-> IF k = n + 1 THEN Followed(shadows[n], o.op, o.key, cap) ELSE shadows[k]]
           longer == Append(ops, o)
<1>1. /\ n \in Nat /\ Len(longer) = n + 1 /\ longer[n + 1] = o
      /\ \A k \in 1 .. n : longer[k] = ops[k]
  BY LenProperties, AppendProperties
<1>2. more[0] = before
  <2>1. 0 \in 0 .. n + 1 /\ 0 # n + 1
    BY <1>1
  <2> QED
    BY <2>1 DEF FollowedBy
<1>3. ASSUME NEW k \in 1 .. n + 1
      PROVE  more[k] = Followed(more[k - 1], longer[k].op, longer[k].key, cap)
  <2>1. k \in 0 .. n + 1 /\ k - 1 \in 0 .. n + 1 /\ k - 1 # n + 1
    BY <1>1
  <2>2. more[k - 1] = shadows[k - 1]
    BY <2>1
  <2>3. CASE k = n + 1
    <3>1. k - 1 = n /\ longer[k] = o /\ more[k] = Followed(shadows[n], o.op, o.key, cap)
      BY <1>1, <2>1, <2>3
    <3> QED
      BY <2>2, <3>1
  <2>4. CASE k # n + 1
    <3>1. k \in 1 .. n
      BY <1>1, <2>4
    <3>2. longer[k] = ops[k] /\ more[k] = shadows[k]
      BY <1>1, <2>1, <2>4, <3>1
    <3>3. shadows[k] = Followed(shadows[k - 1], ops[k].op, ops[k].key, cap)
      BY <3>1 DEF FollowedBy
    <3> QED
      BY <2>2, <3>2, <3>3
  <2> QED
    BY <2>3, <2>4
<1> HIDE DEF more, longer
<1>4. FollowedBy(before, longer, cap, more)
  BY <1>1, <1>2, <1>3 DEF FollowedBy
<1> QED
  BY <1>4 DEF more, longer

(* For operations of any number: they are well formed, and the shadow has  *)
(* followed them all.                                                      *)
LEMMA GeneratedIs ==
  ASSUME NEW state \in StateType, NEW n \in Nat, NEW g \in Generated(state, n)
  PROVE  /\ g.ops \in Seq(Operation) /\ Len(g.ops) = n
         /\ \E shadows : FollowedBy(Synced(state), g.ops, state.capacity, shadows) /\ g.shadow = shadows[n]
<1> DEFINE cap == state.capacity
           start == [shadow |-> Synced(state), last |-> "none", count |-> 0, ops |-> <<>>]
           Longer(G) == UNION {Drawn(h, cap) : h \in G}
           Def(f) == f = [i \in 0 .. n |-> IF i = 0 THEN {start} ELSE Longer(f[i - 1])]
<1>1. start \in Generation
  BY SyncedIs DEF Generation
<1>2. \A G \in SUBSET Generation : Longer(G) \in SUBSET Generation
  BY DrawnIs
<1> HIDE DEF start, Longer
<1>3. \E f : Def(f)
  <2> DEFINE F == [i \in 1 .. n |-> [G \in SUBSET Generation |-> Longer(G)]]
             S == SUBSET Generation
  <2>1. F \in [1 .. n -> [S -> S]] /\ {start} \in S
    BY <1>1, <1>2
  <2>2. \A i \in 1 .. n, G \in S : F[i][G] = Longer(G)
    OBVIOUS
  <2> HIDE DEF F, S
  <2>3. PICK run \in [0 .. n -> S] : StepRun(F, {start}, n, run)
    BY <2>1, StepsDefined
  <2>4. ASSUME NEW i \in 0 .. n
        PROVE  run[i] = IF i = 0 THEN {start} ELSE Longer(run[i - 1])
    <3>1. CASE i = 0
      BY <2>3, <3>1 DEF StepRun
    <3>2. CASE i # 0
      <4>1. i \in 1 .. n /\ i - 1 \in 0 .. n
        BY <3>2
      <4>2. run[i] = F[i][run[i - 1]] /\ run[i - 1] \in S
        BY <2>3, <4>1 DEF StepRun
      <4> QED
        BY <2>2, <3>2, <4>1, <4>2
    <3> QED
      BY <3>1, <3>2
  <2>5. run = [i \in 0 .. n |-> IF i = 0 THEN {start} ELSE Longer(run[i - 1])]
    BY <2>3, <2>4
  <2> QED
    BY <2>5
<1> DEFINE loop == CHOOSE f : Def(f)
<1>4. loop = [i \in 0 .. n |-> IF i = 0 THEN {start} ELSE Longer(loop[i - 1])]
  <2>1. Def(loop)
    <3> HIDE DEF Def
    <3> QED
      BY <1>3
  <2> HIDE DEF loop
  <2> QED
    BY <2>1
<1>5. Generated(state, n) = loop[n]
  BY Zenon DEF Generated, start, Longer
<1> HIDE DEF loop
<1>a. ASSUME NEW j \in 0 .. n, j # 0
      PROVE  loop[j] = Longer(loop[j - 1])
  <2>1. loop[j] = IF j = 0 THEN {start} ELSE Longer(loop[j - 1])
    BY <1>4, Zenon
  <2> QED
    BY <1>a, <2>1
<1> DEFINE Fine(h, i) ==
             /\ h \in Generation /\ Len(h.ops) = i
             /\ \E shadows : FollowedBy(Synced(state), h.ops, cap, shadows) /\ h.shadow = shadows[i]
           P == {i \in Nat : i <= n => \A h \in loop[i] : Fine(h, i)}
<1>6. 0 \in P
  <2>1. loop[0] = {start}
    BY <1>4
  <2>2. start.ops = <<>> /\ start.shadow = Synced(state)
    BY DEF start
  <2> DEFINE shadows == [k \in 0 .. 0 |-> Synced(state)]
  <2>3. FollowedBy(Synced(state), start.ops, cap, shadows) /\ start.shadow = shadows[0]
    BY <2>2 DEF FollowedBy
  <2>4. Len(start.ops) = 0
    BY <2>2
  <2> HIDE DEF shadows
  <2>5. Fine(start, 0)
    BY <1>1, <2>3, <2>4
  <2> HIDE DEF Fine
  <2> QED
    BY <2>1, <2>5
<1>7. ASSUME NEW i \in Nat, i \in P
      PROVE  i + 1 \in P
  <2> SUFFICES ASSUME i + 1 <= n, NEW h \in loop[i + 1]
               PROVE  Fine(h, i + 1)
    OBVIOUS
  <2>1. loop[i + 1] = Longer(loop[i])
    <3>1. i + 1 \in 0 .. n /\ i + 1 # 0 /\ i + 1 - 1 = i
      OBVIOUS
    <3>2. loop[i + 1] = Longer(loop[i + 1 - 1])
      BY <1>a, <3>1
    <3> QED
      BY <3>1, <3>2
  <2>2. PICK f \in loop[i] : h \in Drawn(f, cap)
    BY <2>1 DEF Longer
  <2>3. Fine(f, i)
    BY <1>7
  <2>4. PICK shadows : FollowedBy(Synced(state), f.ops, cap, shadows) /\ f.shadow = shadows[i]
    BY <2>3
  <2>5. h \in Generation
    BY <2>2, <2>3, DrawnIs
  <2>6. PICK o \in Operation : h.ops = Append(f.ops, o) /\ h.shadow = Followed(f.shadow, o.op, o.key, cap)
    BY <2>2, <2>3, DrawnIs
  <2>7. f.ops \in Seq(Operation) /\ Len(f.ops) = i
    BY <2>3 DEF Generation
  <2> DEFINE more == [k \in 0 .. i + 1 |-> IF k = i + 1 THEN Followed(shadows[i], o.op, o.key, cap) ELSE shadows[k]]
  <2>8. FollowedBy(Synced(state), Append(f.ops, o), cap, more)
    <3>1. LET m == Len(f.ops)
              longer == [k \in 0 .. m + 1 |-> IF k = m + 1 THEN Followed(shadows[m], o.op, o.key, cap) ELSE shadows[k]]
          IN  FollowedBy(Synced(state), Append(f.ops, o), cap, longer)
      BY <2>4, <2>7, FollowOneMore
    <3> QED
      BY <2>7, <3>1
  <2>9. more[i + 1] = Followed(shadows[i], o.op, o.key, cap)
    OBVIOUS
  <2>10. Len(Append(f.ops, o)) = i + 1
    BY <2>7, AppendProperties
  <2> HIDE DEF more
  <2> QED
    BY <2>4, <2>5, <2>6, <2>8, <2>9, <2>10
<1> HIDE DEF P, Fine
<1>8. \A i \in Nat : i \in P
  BY <1>6, <1>7, SetInduction
<1>9. Fine(g, n)
  BY <1>5, <1>8 DEF P
<1> QED
  BY <1>9 DEF Fine, Generation
-----------------------------------------------------------------------------
(* The calls under way.                                                    *)

Tasks == {"executeOp", "bootSystem", "captures", "simulates", "exits", "clears", "stray"}

(* A call is a request that the server understands; when it is answered,   *)
(* there is a state for each thing that was asked.                         *)
Fits(call) ==
  /\ call = [task |-> call.task, request |-> call.request, answer |-> call.answer, locals |-> call.locals]
  /\ call.task \in Tasks /\ call.request \in Request
  /\ call.task \in {"captures", "exits"} => call.request.api = "state"
  /\ call.task = "captures" => call.locals.ops \in Nat
  /\ call.task = "simulates" => call.request.api = "batch" /\ call.request.ops \in Seq(Operation)
  /\ call.answer # NoAnswer =>
       /\ call.answer \in AnswerType
       /\ Len(call.answer.states) = IF call.request.api = "batch" THEN Len(call.request.ops) ELSE 1

(* A simulation is asked for when its history has begun.                   *)
CallsFit(cs, history) ==
  /\ IsSequence(cs)
  /\ \A i \in DOMAIN cs : Fits(cs[i]) /\ (cs[i].task = "simulates" => history # <<>>)

LEMMA FetchIs ==
  ASSUME NEW task, NEW request, NEW locals
  PROVE  LET call == Fetch(task, request, locals)
         IN  /\ call = [task |-> call.task, request |-> call.request, answer |-> call.answer, locals |-> call.locals]
             /\ call.task = task /\ call.request = request /\ call.answer = NoAnswer /\ call.locals = locals
  BY DEF Fetch

LEMMA AppendFits ==
  ASSUME NEW cs, NEW history, CallsFit(cs, history), NEW call, Fits(call),
         call.task = "simulates" => history # <<>>
  PROVE  CallsFit(Append(cs, call), history) /\ Len(Append(cs, call)) = Len(cs) + 1
<1> DEFINE r == Append(cs, call)
<1>1. IsSequence(cs) /\ Len(cs) \in Nat /\ DOMAIN cs = 1 .. Len(cs)
  BY SequenceDomain DEF CallsFit
<1>2. IsSequence(r) /\ Len(r) = Len(cs) + 1 /\ r[Len(r)] = call /\ \A i \in 1 .. Len(cs) : r[i] = cs[i]
  BY <1>1, SequenceAppend
<1>3. DOMAIN r = 1 .. Len(r)
  BY <1>2, SequenceDomain
<1> HIDE DEF r
<1>4. ASSUME NEW i \in DOMAIN r PROVE (i \in DOMAIN cs /\ r[i] = cs[i]) \/ r[i] = call
  BY <1>1, <1>2, <1>3
<1>5. CallsFit(r, history)
  BY <1>2, <1>4 DEF CallsFit
<1> QED
  BY <1>2, <1>5 DEF r

LEMMA RemoveFits ==
  ASSUME NEW cs, NEW history, CallsFit(cs, history), NEW i \in DOMAIN cs
  PROVE  CallsFit(RemoveAt(cs, i), history) /\ Len(RemoveAt(cs, i)) = Len(cs) - 1 /\ Len(cs) \in Nat \ {0}
<1> DEFINE r == RemoveAt(cs, i)
<1>1. IsSequence(cs) /\ Len(cs) \in Nat /\ DOMAIN cs = 1 .. Len(cs)
  BY SequenceDomain DEF CallsFit
<1>2. r = WithoutAt(cs, i)
  BY DEF RemoveAt, WithoutAt
<1> HIDE DEF r
<1>3. IsSequence(r) /\ Len(r) = Len(cs) - 1 /\ \A j \in DOMAIN r : \E k \in DOMAIN cs : r[j] = cs[k]
  <2>1. LET w == WithoutAt(cs, i)
        IN  /\ IsSequence(w) /\ Len(w) = Len(cs) - 1
            /\ \A j \in DOMAIN w : \E k \in DOMAIN cs : w[j] = cs[k]
    BY <1>1, SequenceWithout, ZenonT(60)
  <2> QED
    BY <1>2, <2>1
<1>4. CallsFit(r, history)
  BY <1>3 DEF CallsFit
<1> QED
  BY <1>1, <1>3, <1>4 DEF r

(* A call is taken for another.                                            *)
LEMMA ReplaceFits ==
  ASSUME NEW cs, NEW history, CallsFit(cs, history), NEW i \in DOMAIN cs, NEW call, Fits(call),
         call.task = "simulates" => history # <<>>
  PROVE  LET r == [cs EXCEPT ![i] = call]
         IN  CallsFit(r, history) /\ Len(r) = Len(cs)
<1> DEFINE r == [cs EXCEPT ![i] = call]
<1>1. IsSequence(cs) /\ Len(cs) \in Nat /\ DOMAIN cs = 1 .. Len(cs)
  BY SequenceDomain DEF CallsFit
<1>2. IsSequence(r) /\ Len(r) = Len(cs) /\ \A j \in DOMAIN cs : r[j] = IF j = i THEN call ELSE cs[j]
  BY <1>1, SequenceExcept
<1>3. DOMAIN r = DOMAIN cs
  BY <1>1, <1>2, SequenceDomain
<1> HIDE DEF r
<1>4. ASSUME NEW j \in DOMAIN r
      PROVE  Fits(r[j]) /\ (r[j].task = "simulates" => history # <<>>)
  <2>1. j \in DOMAIN cs /\ Fits(cs[j]) /\ (cs[j].task = "simulates" => history # <<>>)
    BY <1>3 DEF CallsFit
  <2>2. CASE j = i
    <3>1. r[j] = call
      BY <1>2, <2>1, <2>2
    <3> QED
      BY <3>1
  <2>3. CASE j # i
    <3>1. r[j] = cs[j]
      BY <1>2, <2>1, <2>3
    <3> QED
      BY <2>1, <3>1
  <2> QED
    BY <2>2, <2>3
<1>5. CallsFit(r, history)
  BY <1>2, <1>4 DEF CallsFit
<1> QED
  BY <1>2, <1>5 DEF r

(* A call that was handled, and its place.                                 *)
Answered(call, answer) ==
  [task |-> call.task, request |-> call.request, answer |-> answer, locals |-> call.locals]

LEMMA AnsweredFits ==
  ASSUME NEW call, Fits(call), NEW answer \in AnswerType,
         Len(answer.states) = IF call.request.api = "batch" THEN Len(call.request.ops) ELSE 1
  PROVE  /\ [call EXCEPT !.answer = answer] = Answered(call, answer)
         /\ Fits(Answered(call, answer))
<1>1. [call EXCEPT !.answer = answer] = Answered(call, answer)
  BY DEF Fits, Answered
<1> DEFINE a == Answered(call, answer)
<1>2. /\ a = [task |-> a.task, request |-> a.request, answer |-> a.answer, locals |-> a.locals]
      /\ a.task = call.task /\ a.request = call.request /\ a.answer = answer /\ a.locals = call.locals
  BY DEF Answered
<1> HIDE DEF a
<1>3. Fits(a)
  BY <1>2 DEF Fits
<1> QED
  BY <1>1, <1>3 DEF a

(* Whatever a call asks, the server answers it as it should.               *)
LEMMA HandledFits ==
  ASSUME NEW s \in Servers, NEW request \in Request, NEW result \in Handled(s, request)
  PROVE  /\ result[1] \in Servers /\ result[2] \in AnswerType
         /\ Len(result[2].states) = IF request.api = "batch" THEN Len(request.ops) ELSE 1
<1>1. result[1] \in Servers
  BY HandledIs
<1>2. CASE request.api = "batch"
  <2>1. request.ops \in Seq(Token)
    BY <1>2 DEF Request
  <2>2. LET n == Len(request.ops) IN result[2] \in AnswerType /\ Len(result[2].states) = n
    BY <1>2, <2>1, BatchIs
  <2> QED
    BY <1>1, <1>2, <2>2
<1>3. CASE request.api # "batch"
  BY <1>1, <1>3, OneStateIs
<1> QED
  BY <1>2, <1>3

LEMMA OperationsAreTokens == \A ops \in Seq(Operation) : ops \in Seq(Token)
<1> SUFFICES ASSUME NEW ops \in Seq(Operation) PROVE ops \in Seq(Token)
  OBVIOUS
<1>1. ops = [i \in 1 .. Len(ops) |-> ops[i]] /\ Len(ops) \in Nat
  BY LenProperties
<1>2. \A i \in 1 .. Len(ops) : ops[i] \in Token
  BY ElementOfSeq DEF Token
<1> QED
  BY <1>1, <1>2

-----------------------------------------------------------------------------
(* The type invariant.                                                     *)

IInv ==
  /\ server \in Servers
  /\ CallsFit(calls, simHistory) /\ IsSequence(simHistory)
  /\ overlay \in BOOLEAN /\ inSimulation \in BOOLEAN /\ playing \in BOOLEAN
  /\ simIndex \in Nat
  /\ issued \in 0 .. MaxCalls /\ Len(calls) <= issued
  /\ inSimulation \/ playing => simHistory # <<>>

LEMMA IInvType == IInv => TypeOK
  BY DEF IInv, TypeOK, CallsFit, Fits, Tasks

LEMMA InitIInv == Init => IInv
<1> SUFFICES ASSUME Init PROVE IInv
  OBVIOUS
<1>1. server \in Servers
  <2> DEFINE c == CacheOf(DefaultCapacity)
  <2>1. DefaultCapacity \in PositiveInts /\ DefaultCapacity \in Nat \ {0}
    BY PositiveIntsAre
  <2>2. c \in CachesOf({DefaultCapacity}) /\ c.entries = <<>>
    BY <2>1, NewIs
  <2>3. server = [cache |-> c, registry |-> NoStrings]
    BY DEF Init, NewServer
  <2> HIDE DEF c
  <2>4. Known(c, NoStrings) /\ Faithful(NoStrings)
    BY <2>2, EmptyKnown, EmptyRegistry
  <2> QED
    BY <2>1, <2>2, <2>3, <2>4, IsServer
<1>2. IsSequence(<<>>)
  BY EmptySeq DEF IsSequence
<1>3. CallsFit(<<>>, <<>>)
  BY <1>2 DEF CallsFit
<1>4. calls = <<>> /\ issued = 0 /\ simHistory = <<>> /\ simIndex = 0 /\ MaxCalls \in Nat
  BY DashboardAssumption DEF Init
<1>5. issued \in 0 .. MaxCalls /\ Len(calls) <= issued /\ simIndex \in Nat
  BY <1>4
<1>6. CallsFit(calls, simHistory) /\ IsSequence(simHistory)
  BY <1>2, <1>3, <1>4
<1> QED
  BY <1>1, <1>5, <1>6 DEF Init, IInv

(* A call of the user's.                                                   *)
LEMMA UserCallsIs ==
  ASSUME IInv, NEW call, Fits(call), call.task # "simulates", UserCalls(call)
  PROVE  /\ CallsFit(calls', simHistory)
         /\ issued' \in 0 .. MaxCalls /\ Len(calls') <= issued'
<1>1. CallsFit(calls, simHistory) /\ issued \in 0 .. MaxCalls /\ MaxCalls \in Nat /\ Len(calls) <= issued
  BY DashboardAssumption DEF IInv
<1>2. issued < MaxCalls /\ issued' = issued + 1 /\ calls' = Append(calls, call)
  BY DEF UserCalls
<1>3. CallsFit(calls', simHistory) /\ Len(calls') = Len(calls) + 1
  BY <1>1, <1>2, AppendFits
<1>4. Len(calls) \in Nat
  BY <1>1, SequenceDomain DEF CallsFit
<1> QED
  BY <1>1, <1>2, <1>3, <1>4

(* What a user may ask for.                                                *)
LEMMA UserFits ==
  ASSUME NEW locals
  PROVE  /\ \A request \in UserRequests : Fits(Fetch("executeOp", request, locals))
         /\ Fits(Fetch("exits", [api |-> "state"], locals))
         /\ locals.ops \in Nat => Fits(Fetch("captures", [api |-> "state"], locals))
<1>1. \A request \in UserRequests : request \in Request
  BY DashboardAssumption DEF Request
<1>2. [api |-> "state"] \in Request
  BY DEF Request
<1> QED
  BY <1>1, <1>2, FetchIs DEF Fits, Tasks

LEMMA ResetFits ==
  ASSUME NEW cap \in Int, NEW task \in {"bootSystem", "clears"}, NEW locals
  PROVE  Fits(Fetch(task, [api |-> "reset", capacity |-> cap], locals))
<1> DEFINE request == [api |-> "reset", capacity |-> cap]
           call == Fetch(task, request, locals)
<1>1. request \in Request /\ request.api = "reset"
  BY DEF Request
<1> HIDE DEF request
<1>2. /\ call = [task |-> call.task, request |-> call.request, answer |-> call.answer, locals |-> call.locals]
      /\ call.task = task /\ call.request = request /\ call.answer = NoAnswer
  BY FetchIs
<1> HIDE DEF call
<1>3. Fits(call)
  BY <1>1, <1>2 DEF Fits, Tasks
<1> QED
  BY <1>3 DEF call, request

LEMMA ClampedIs ==
  ASSUME NEW index \in Int, NEW len \in Nat \ {0}
  PROVE  Clamped(index, len) \in 0 .. len - 1
  BY DEF Clamped

(* One step in the history, which is there, and the screen follows.        *)
LEMMA stepSimStep ==
  ASSUME IInv, NEW dir \in {-1, 1}, stepSim(dir), simHistory # <<>>
  PROVE  IInv'
<1>1. Len(simHistory) \in Nat \ {0} /\ simIndex + dir \in Int
  BY SequenceDomain DEF IInv
<1>2. simIndex' \in Nat
  BY <1>1, ClampedIs DEF stepSim
<1>3. UNCHANGED <<server, calls, issued, overlay, inSimulation, simHistory, playing>>
  BY DEF stepSim
<1> QED
  BY <1>2, <1>3 DEF IInv

LEMMA UserStep ==
  ASSUME IInv, User
  PROVE  IInv'
<1>1. /\ server \in Servers /\ CallsFit(calls, simHistory) /\ IsSequence(simHistory)
      /\ overlay \in BOOLEAN /\ inSimulation \in BOOLEAN /\ playing \in BOOLEAN /\ simIndex \in Nat
      /\ inSimulation \/ playing => simHistory # <<>>
      /\ issued \in 0 .. MaxCalls /\ Len(calls) <= issued
  BY DEF IInv
<1>2. CASE executeOp
  <2>1. PICK call : Fits(call) /\ call.task # "simulates" /\ UserCalls(call)
    <3>1. CASE \E request \in UserRequests : UserCalls(reqApi("executeOp", request))
      <4> DEFINE locals == [prevHits |-> screen.hits]
      <4>1. PICK request \in UserRequests : UserCalls(Fetch("executeOp", request, locals))
        BY <3>1 DEF reqApi
      <4>2. Fits(Fetch("executeOp", request, locals)) /\ Fetch("executeOp", request, locals).task # "simulates"
        BY UserFits, FetchIs
      <4> QED
        BY <4>1, <4>2
    <3>2. CASE \E n \in SimOps : UserCalls(Fetch("captures", [api |-> "state"], [ops |-> n]))
      <4>1. PICK n \in SimOps : UserCalls(Fetch("captures", [api |-> "state"], [ops |-> n]))
        BY <3>2
      <4> DEFINE locals == [ops |-> n]
                 call == Fetch("captures", [api |-> "state"], locals)
      <4>2. locals.ops \in Nat
        BY DashboardAssumption
      <4> HIDE DEF locals
      <4>3. Fits(call) /\ call.task # "simulates"
        BY <4>2, UserFits, FetchIs
      <4> QED
        BY <4>1, <4>3 DEF locals
    <3> QED
      BY <1>2, <3>1, <3>2 DEF executeOp
  <2>2. CallsFit(calls', simHistory) /\ issued' \in 0 .. MaxCalls /\ Len(calls') <= issued'
    BY <2>1, UserCallsIs
  <2>3. UNCHANGED <<server, overlay, inSimulation, simHistory, simIndex, playing>>
    BY <1>2 DEF executeOp, page, playback
  <2> QED
    BY <1>1, <2>2, <2>3 DEF IInv
<1>3. CASE toggleAutoPlay
  <2>1. inSimulation /\ playing' = ~ playing /\ UNCHANGED <<server, calls, issued, overlay, inSimulation, simHistory, simIndex>>
    BY <1>3 DEF toggleAutoPlay, AtPlayback
  <2> QED
    BY <1>1, <2>1 DEF IInv
<1>4. CASE Step
  <2>1. simHistory # <<>> /\ (stepSim(1) \/ stepSim(-1))
    BY <1>1, <1>4 DEF Step, AtPlayback
  <2> QED
    BY <2>1, stepSimStep
<1>5. CASE exitSim
  <2> DEFINE locals == [none |-> 0]
             call == Fetch("exits", [api |-> "state"], locals)
  <2>1. /\ UserCalls(call) /\ playing' = FALSE /\ inSimulation' = FALSE
        /\ UNCHANGED <<server, overlay, simHistory, simIndex>>
    BY <1>5 DEF exitSim
  <2> HIDE DEF locals
  <2>2. Fits(call) /\ call.task # "simulates"
    BY UserFits, FetchIs
  <2>3. CallsFit(calls', simHistory) /\ issued' \in 0 .. MaxCalls /\ Len(calls') <= issued'
    BY <2>1, <2>2, UserCallsIs
  <2> QED
    BY <1>1, <2>1, <2>3 DEF IInv
<1>6. CASE bootSystem
  <2> DEFINE locals == [prevHits |-> screen.hits]
             call(cap) == Fetch("bootSystem", [api |-> "reset", capacity |-> cap], locals)
  <2>1. PICK cap \in BootCapacities : UserCalls(call(cap))
    BY <1>6 DEF bootSystem, reqApi
  <2>2. cap \in Int /\ overlay' = FALSE /\ UNCHANGED <<server, inSimulation, simHistory, simIndex, playing>>
    BY <1>6, DashboardAssumption DEF bootSystem, playback
  <2> HIDE DEF locals
  <2>3. Fits(call(cap)) /\ call(cap).task # "simulates"
    <3>1. call(cap).task = "bootSystem"
      BY FetchIs
    <3> QED
      BY <2>2, <3>1, ResetFits
  <2>4. CallsFit(calls', simHistory) /\ issued' \in 0 .. MaxCalls /\ Len(calls') <= issued'
    BY <2>1, <2>3, UserCallsIs
  <2> QED
    BY <1>1, <2>2, <2>4 DEF IInv
<1>7. CASE showBootScreen
  <2>1. overlay' = TRUE /\ inSimulation' = FALSE /\ UNCHANGED <<server, calls, issued, simHistory, simIndex, playing>>
    BY <1>7 DEF showBootScreen
  <2> QED
    BY <1>1, <2>1 DEF IInv
<1> QED
  BY <1>2, <1>3, <1>4, <1>5, <1>6, <1>7 DEF User

LEMMA TickStep ==
  ASSUME IInv, Tick
  PROVE  IInv'
<1>1. playing /\ simHistory # <<>>
  BY DEF IInv, Tick
<1>2. CASE stepSim(1)
  BY <1>1, <1>2, stepSimStep
<1>3. CASE ~ stepSim(1)
  <2>1. playing' = FALSE /\ UNCHANGED <<server, calls, issued, overlay, inSimulation, simHistory, simIndex>>
    BY <1>3 DEF Tick
  <2> QED
    BY <1>1, <2>1 DEF IInv
<1> QED
  BY <1>2, <1>3

(* What Handle does with the call i.                                       *)
LEMMA HandleIs ==
  ASSUME server \in Servers, NEW history, CallsFit(calls, history), NEW i \in DOMAIN calls, Handle(i)
  PROVE  \E result \in Handled(server, calls[i].request) :
           LET answered == Answered(calls[i], result[2])
           IN  /\ server' = result[1] /\ server' \in Servers
               /\ calls' = IF calls[i].task = "stray" THEN RemoveAt(calls, i)
                           ELSE Append(RemoveAt(calls, i), answered)
               /\ Fits(calls[i]) /\ Fits(answered) /\ answered.answer # NoAnswer
<1>1. PICK result \in Handled(server, calls[i].request) :
        /\ server' = result[1]
        /\ calls' = IF calls[i].task = "stray" THEN RemoveAt(calls, i)
                    ELSE Append(RemoveAt(calls, i), [calls[i] EXCEPT !.answer = result[2]])
  BY DEF Handle
<1>2. Fits(calls[i]) /\ calls[i].request \in Request
  BY DEF CallsFit, Fits
<1>3. /\ result[1] \in Servers /\ result[2] \in AnswerType
      /\ Len(result[2].states) = IF calls[i].request.api = "batch" THEN Len(calls[i].request.ops) ELSE 1
  BY <1>2, HandledFits
<1>4. /\ [calls[i] EXCEPT !.answer = result[2]] = Answered(calls[i], result[2])
      /\ Fits(Answered(calls[i], result[2]))
  BY <1>2, <1>3, AnsweredFits
<1>5. Answered(calls[i], result[2]).answer # NoAnswer
  BY <1>3, DashboardAssumption DEF Answered
<1> QED
  BY <1>1, <1>2, <1>3, <1>4, <1>5

LEMMA ServerStep ==
  ASSUME IInv, Handles \/ Fails \/ Late
  PROVE  IInv'
<1>1. CallsFit(calls, simHistory) /\ server \in Servers /\ issued \in 0 .. MaxCalls /\ Len(calls) <= issued
  BY DEF IInv
<1>2. CASE Handles
  <2>1. PICK i \in DOMAIN calls : Handle(i)
    BY <1>2 DEF Handles
  <2> DEFINE others == RemoveAt(calls, i)
  <2>2. PICK result \in Handled(server, calls[i].request) :
          LET answered == Answered(calls[i], result[2])
          IN  /\ server' = result[1] /\ server' \in Servers
              /\ calls' = IF calls[i].task = "stray" THEN others ELSE Append(others, answered)
              /\ Fits(answered)
    BY <1>1, <2>1, HandleIs
  <2> DEFINE answered == Answered(calls[i], result[2])
  <2>3. CallsFit(others, simHistory) /\ Len(others) = Len(calls) - 1 /\ Len(calls) \in Nat \ {0}
    BY <1>1, RemoveFits
  <2>4. answered.task = "simulates" => simHistory # <<>>
    BY <1>1 DEF CallsFit, Answered
  <2>5. CallsFit(calls', simHistory) /\ Len(calls') <= Len(calls)
    <3> HIDE DEF others, answered
    <3>1. CallsFit(Append(others, answered), simHistory) /\ Len(Append(others, answered)) = Len(others) + 1
      BY <2>2, <2>3, <2>4, AppendFits DEF answered
    <3> QED
      BY <2>2, <2>3, <3>1 DEF answered
  <2>6. UNCHANGED <<issued, overlay, inSimulation, simHistory, simIndex, playing>>
    BY <2>1 DEF Handle, page, playback
  <2>7. Len(calls') <= issued'
    <3>1. Len(calls') \in Nat
      BY <2>5, SequenceDomain DEF CallsFit
    <3> QED
      BY <1>1, <2>3, <2>5, <2>6, <3>1
  <2> QED
    BY <1>1, <2>2, <2>5, <2>6, <2>7 DEF IInv
<1>3. CASE Fails
  <2>1. PICK i \in DOMAIN calls : Fail(i)
    BY <1>3 DEF Fails
  <2>2. calls' = RemoveAt(calls, i) /\ UNCHANGED <<server, issued, overlay, inSimulation, simHistory, simIndex, playing>>
    BY <2>1 DEF Fail, page, playback
  <2>3. CallsFit(calls', simHistory) /\ Len(calls') = Len(calls) - 1 /\ Len(calls) \in Nat \ {0}
    BY <1>1, <2>2, RemoveFits
  <2>4. Len(calls') <= issued'
    BY <1>1, <2>2, <2>3
  <2> QED
    BY <1>1, <2>2, <2>3, <2>4 DEF IInv
<1>4. CASE Late
  <2>1. PICK i \in DOMAIN calls : Strays(i)
    BY <1>4 DEF Late
  <2> DEFINE locals == [none |-> 0]
             call == Fetch("stray", calls[i].request, locals)
  <2>2. /\ calls' = [calls EXCEPT ![i] = call]
        /\ UNCHANGED <<server, issued, overlay, inSimulation, simHistory, simIndex, playing>>
    BY <2>1 DEF Strays, page, playback
  <2>3. calls[i].request \in Request
    BY <1>1 DEF CallsFit, Fits
  <2> HIDE DEF locals
  <2>4. Fits(call) /\ call.task # "simulates"
    BY <2>3, FetchIs DEF Fits, Tasks
  <2> HIDE DEF call
  <2>5. CallsFit(calls', simHistory) /\ Len(calls') = Len(calls)
    BY <1>1, <2>2, <2>4, ReplaceFits
  <2> QED
    BY <1>1, <2>2, <2>5 DEF IInv
<1> QED
  BY <1>2, <1>3, <1>4

(* An answer comes in, and its handler goes on.                            *)
LEMMA AnswersStep ==
  ASSUME IInv, Answers
  PROVE  IInv'
<1>1. PICK i \in DOMAIN calls : Returns(i) \/ Captured(i) \/ Simulated(i) \/ Exited(i)
  BY DEF Answers, Continues
<1> DEFINE call == calls[i]
           others == RemoveAt(calls, i)
<1>2. /\ CallsFit(calls, simHistory) /\ server \in Servers /\ issued \in 0 .. MaxCalls /\ Len(calls) <= issued
      /\ MaxCalls \in Nat
  BY DashboardAssumption DEF IInv
<1>3. Fits(call) /\ call.answer # NoAnswer
  BY <1>1, <1>2 DEF CallsFit, Returns, Captured, Simulated, Exited, Arrives
<1>4. CallsFit(others, simHistory) /\ Len(others) = Len(calls) - 1 /\ Len(calls) \in Nat \ {0}
  BY <1>2, RemoveFits
<1>5. call.task \in {"captures", "exits"} => call.answer.states[1] \in StateType
  <2> SUFFICES ASSUME call.task \in {"captures", "exits"} PROVE call.answer.states[1] \in StateType
    OBVIOUS
  <2>1. call.answer \in AnswerType /\ Len(call.answer.states) = 1
    BY <1>3 DEF Fits
  <2>2. call.answer.states \in Seq(StateType) /\ 1 \in 1 .. Len(call.answer.states)
    BY <2>1 DEF AnswerType
  <2> QED
    BY <2>2, ElementOfSeq
<1>6. CASE Returns(i)
  <2>1. calls' = others /\ UNCHANGED <<server, issued, overlay, inSimulation, simHistory, simIndex, playing>>
    BY <1>6 DEF Returns, playback
  <2>2. Len(calls') <= issued'
    BY <1>2, <1>4, <2>1
  <2> QED
    BY <1>2, <1>4, <2>1, <2>2 DEF IInv
<1>7. CASE Captured(i)
  <2> DEFINE state == call.answer.states[1]
             entry == [state |-> state, claim |-> "captured", truth |-> "captured"]
  <2>1. call.task = "captures" /\ simHistory' = <<entry>>
    BY <1>7 DEF Captured, Arrives
  <2>2. PICK g \in Generated(state, call.locals.ops) :
          calls' = Append(others, Fetch("simulates", [api |-> "batch", ops |-> g.ops], [state |-> state, shadow |-> g.shadow]))
    BY <1>7 DEF Captured
  <2>3. state \in StateType /\ call.locals.ops \in Nat
    BY <1>3, <1>5, <2>1 DEF Fits
  <2>4. g.ops \in Seq(Operation)
    BY <2>2, <2>3, GeneratedIs
  <2> HIDE DEF state, entry
  <2> DEFINE batch == [api |-> "batch", ops |-> g.ops]
             locals == [state |-> state, shadow |-> g.shadow]
             next == Fetch("simulates", batch, locals)
  <2>5. batch \in Request /\ batch.api = "batch" /\ batch.ops = g.ops
    BY <2>4, OperationsAreTokens DEF Request
  <2>6. calls' = Append(others, next)
    BY <2>2
  <2> HIDE DEF batch, locals
  <2>7. Fits(next)
    BY <2>4, <2>5, FetchIs DEF Fits, Tasks
  <2>8. IsSequence(simHistory') /\ simHistory' # <<>>
    <3>1. simHistory' \in Seq({entry})
      BY <2>1
    <3> QED
      BY <2>1, <3>1 DEF IsSequence
  <2>9. CallsFit(others, simHistory')
    BY <1>4, <2>8 DEF CallsFit
  <2> HIDE DEF next, others
  <2>10. CallsFit(calls', simHistory') /\ Len(calls') = Len(others) + 1
    BY <2>6, <2>7, <2>8, <2>9, AppendFits
  <2>11. UNCHANGED <<server, issued, overlay, inSimulation, simIndex, playing>>
    BY <1>7 DEF Captured
  <2>12. Len(calls') <= issued'
    BY <1>2, <1>4, <2>10, <2>11
  <2> QED
    BY <1>2, <2>8, <2>10, <2>11, <2>12 DEF IInv
<1>8. CASE Simulated(i)
  <2>1. /\ call.task = "simulates" /\ calls' = others /\ simHistory' = simHistory \o Judged(call)
        /\ inSimulation' = TRUE /\ simIndex' = 0 /\ UNCHANGED <<server, issued, overlay, playing>>
    BY <1>8 DEF Simulated, Arrives
  <2>2. IsSequence(simHistory) /\ simHistory # <<>>
    BY <1>2, <2>1 DEF IInv, CallsFit
  <2>3. IsSequence(Judged(call))
    <3>1. call.request.ops \in Seq(Operation)
      BY <1>3, <2>1 DEF Fits
    <3>2. DOMAIN call.request.ops = 1 .. Len(call.request.ops) /\ Len(call.request.ops) \in Nat
      BY <3>1, LenProperties
    <3>3. PICK m \in Nat : DOMAIN Judged(call) = 1 .. m
      BY <3>2 DEF Judged
    <3>4. Judged(call) = [k \in DOMAIN Judged(call) |-> Judged(call)[k]]
      BY DEF Judged
    <3> DEFINE j == Judged(call)
               S == {j[k] : k \in 1 .. m}
    <3>5. j = [k \in 1 .. m |-> j[k]] /\ \A k \in 1 .. m : j[k] \in S
      BY <3>3, <3>4
    <3> HIDE DEF j, S
    <3>6. j \in Seq(S)
      BY <3>5
    <3> QED
      BY <3>6 DEF IsSequence, j
  <2>4. IsSequence(simHistory') /\ simHistory' # <<>>
    <3> DEFINE j == Judged(call)
    <3> HIDE DEF j
    <3>1. LET r == simHistory \o j IN IsSequence(r) /\ Len(r) = Len(simHistory) + Len(j)
      BY <2>2, <2>3, SequenceConcat DEF j
    <3>2. IsSequence(simHistory') /\ Len(simHistory') = Len(simHistory) + Len(j)
      BY <2>1, <3>1 DEF j
    <3>3. Len(simHistory) \in Nat \ {0} /\ Len(j) \in Nat
      BY <2>2, <2>3, SequenceDomain DEF j
    <3>4. Len(simHistory') > 0
      BY <3>2, <3>3
    <3> QED
      BY <3>2, <3>4, SequenceDomain
  <2>5. CallsFit(calls', simHistory')
    BY <1>4, <2>1, <2>4 DEF CallsFit
  <2>6. Len(calls') <= issued' /\ simIndex' \in Nat
    BY <1>2, <1>4, <2>1
  <2> QED
    BY <1>2, <2>1, <2>4, <2>5, <2>6 DEF IInv
<1>9. CASE Exited(i)
  <2> DEFINE cap == call.answer.states[1].capacity
             locals == [prevHits |-> screen.hits]
             next == Fetch("clears", [api |-> "reset", capacity |-> cap], locals)
  <2>1. call.task = "exits"
    BY <1>9 DEF Exited, Arrives
  <2>2. calls' = Append(others, next)
    BY <1>9 DEF Exited, reqApi
  <2>3. UNCHANGED <<server, issued, overlay, inSimulation, simHistory, simIndex, playing>>
    BY <1>9 DEF Exited, page, playback
  <2>4. cap \in Int
    BY <1>5, <2>1 DEF StateType
  <2> HIDE DEF cap, locals
  <2>5. Fits(next) /\ next.task # "simulates"
    <3>1. next.task = "clears"
      BY FetchIs
    <3> QED
      BY <2>4, <3>1, ResetFits
  <2> HIDE DEF next, others
  <2>6. CallsFit(calls', simHistory) /\ Len(calls') = Len(others) + 1
    BY <1>4, <2>2, <2>5, AppendFits
  <2>7. Len(calls') <= issued'
    BY <1>2, <1>4, <2>3, <2>6
  <2> QED
    BY <1>2, <2>3, <2>6, <2>7 DEF IInv
<1> QED
  BY <1>1, <1>6, <1>7, <1>8, <1>9

LEMMA NextIInv == IInv /\ [Next]_vars => IInv'
<1> SUFFICES ASSUME IInv, [Next]_vars PROVE IInv'
  OBVIOUS
<1>1. CASE UNCHANGED vars
  BY <1>1 DEF vars, page, playback, IInv
<1> QED
  BY <1>1, UserStep, TickStep, ServerStep, AnswersStep DEF Next

(* However calls overlap, fail and overtake each other, the playback has a *)
(* history when stepSim, the timer or applySimState looks one up           *)
(* (app.js:345-428).                                                       *)
THEOREM TypeCorrect == Spec => []TypeOK
<1> QED
  BY IInvType, InitIInv, NextIInv, PTL DEF Spec
-----------------------------------------------------------------------------
(* A patient user.                                                         *)

(* What a call is while no other comes between it and the server s.        *)
Proper(call, s) ==
  /\ call.task # "stray"
  /\ call.task = "executeOp" => call.request \in UserRequests
  /\ call.task = "bootSystem" => call.request.api = "reset"
  /\ call.task = "clears" => call.request = [api |-> "reset", capacity |-> s.cache.capacity]
  /\ call.answer # NoAnswer /\ call.task # "simulates" => call.answer.states[1] = json_state(s)

ScreenFollows == calls = <<>> /\ ~ inSimulation /\ ~ overlay => screen = json_state(server)

PInv ==
  /\ IInv
  /\ Len(calls) <= 1 /\ \A i \in DOMAIN calls : Proper(calls[i], server)
  /\ playing => inSimulation
  /\ inSimulation \/ overlay => calls = <<>>
  /\ ~ (inSimulation /\ overlay)
  /\ ScreenFollows

LEMMA OnlyCall ==
  ASSUME IInv, Len(calls) <= 1, NEW i \in DOMAIN calls
  PROVE  /\ i = 1 /\ Len(calls) = 1 /\ calls # <<>> /\ calls = <<calls[i]>>
         /\ Fits(calls[i]) /\ RemoveAt(calls, i) = <<>>
<1>1. IsSequence(calls) /\ Len(calls) \in Nat /\ DOMAIN calls = 1 .. Len(calls) /\ Fits(calls[i])
  BY SequenceDomain DEF IInv, CallsFit
<1>2. i = 1 /\ Len(calls) = 1 /\ calls # <<>>
  BY <1>1
<1>3. calls = <<calls[i]>>
  <2>1. PICK S : calls \in Seq(S)
    BY <1>1 DEF IsSequence
  <2> QED
    BY <1>2, <2>1
<1>4. RemoveAt(calls, i) = <<>>
  <2>1. RemoveAt(calls, i) = WithoutAt(calls, i)
    BY DEF RemoveAt, WithoutAt
  <2> DEFINE r == WithoutAt(calls, i)
  <2>2. IsSequence(r) /\ Len(r) = 0
    <3>1. LET q == WithoutAt(calls, i)
          IN  /\ IsSequence(q) /\ Len(q) = Len(calls) - 1
              /\ \A j \in DOMAIN q : \E k \in DOMAIN calls : q[j] = calls[k]
      BY <1>1, SequenceWithout, ZenonT(60)
    <3> QED
      BY <1>2, <3>1
  <2> HIDE DEF r
  <2>3. r = <<>>
    BY <2>2, SequenceDomain
  <2> QED
    BY <2>1, <2>3 DEF r
<1> QED
  BY <1>1, <1>2, <1>3, <1>4

(* The user asks for something when there is nothing to wait for.          *)
LEMMA PatientAsks ==
  ASSUME IInv', calls = <<>>, NEW call, UserCalls(call), Proper(call, server), server' = server,
         ~ playing', ~ inSimulation', ~ overlay'
  PROVE  PInv'
<1>1. calls' = <<call>> /\ Len(calls') = 1 /\ calls' # <<>>
  BY DEF UserCalls
<1>2. \A i \in DOMAIN calls' : calls'[i] = call
  BY <1>1
<1> QED
  BY <1>1, <1>2 DEF PInv, ScreenFollows

(* Nothing is asked, in a playback or on the boot screen.                  *)
LEMMA PatientLooks ==
  ASSUME IInv', calls = <<>>, UNCHANGED <<calls, server>>, inSimulation' \/ overlay', ~ (inSimulation' /\ overlay'),
         playing' => inSimulation'
  PROVE  PInv'
<1>1. Len(calls') = 0 /\ DOMAIN calls' = {}
  OBVIOUS
<1> QED
  BY <1>1 DEF PInv, ScreenFollows

LEMMA PatientUserStep ==
  ASSUME PInv, PatientUser, IInv'
  PROVE  PInv'
<1>1. /\ calls = <<>> /\ (playing => inSimulation) /\ ~ (inSimulation /\ overlay)
      /\ overlay \in BOOLEAN /\ inSimulation \in BOOLEAN /\ playing \in BOOLEAN
  BY DEF PInv, PatientUser, IInv
<1>2. CASE ~ inSimulation /\ executeOp
  <2>1. UNCHANGED <<server, overlay, inSimulation, playing>> /\ ~ overlay
    BY <1>2 DEF executeOp, page, playback
  <2>2. CASE \E request \in UserRequests : UserCalls(reqApi("executeOp", request))
    <3> DEFINE locals == [prevHits |-> screen.hits]
    <3>1. PICK request \in UserRequests : UserCalls(Fetch("executeOp", request, locals))
      BY <2>2 DEF reqApi
    <3> DEFINE call == Fetch("executeOp", request, locals)
    <3>2. Proper(call, server)
      BY FetchIs DEF Proper
    <3> HIDE DEF call
    <3> QED
      BY <1>1, <1>2, <2>1, <3>1, <3>2, PatientAsks DEF call
  <2>3. CASE \E n \in SimOps : UserCalls(Fetch("captures", [api |-> "state"], [ops |-> n]))
    <3>1. PICK n \in SimOps : UserCalls(Fetch("captures", [api |-> "state"], [ops |-> n]))
      BY <2>3
    <3> DEFINE call == Fetch("captures", [api |-> "state"], [ops |-> n])
    <3>2. Proper(call, server)
      BY FetchIs DEF Proper
    <3> HIDE DEF call
    <3> QED
      BY <1>1, <1>2, <2>1, <3>1, <3>2, PatientAsks DEF call
  <2> QED
    BY <1>2, <2>2, <2>3 DEF executeOp
<1>3. CASE toggleAutoPlay
  <2>1. inSimulation /\ ~ overlay /\ UNCHANGED <<server, calls, overlay, inSimulation>>
    BY <1>3 DEF toggleAutoPlay, AtPlayback
  <2> QED
    BY <1>1, <2>1, PatientLooks
<1>4. CASE Step
  <2>1. inSimulation /\ ~ overlay /\ UNCHANGED <<server, calls, overlay, inSimulation, playing>>
    BY <1>4 DEF Step, AtPlayback, stepSim
  <2> QED
    BY <1>1, <2>1, PatientLooks
<1>5. CASE exitSim
  <2> DEFINE call == Fetch("exits", [api |-> "state"], [none |-> 0])
  <2>1. ~ overlay /\ UserCalls(call) /\ playing' = FALSE /\ inSimulation' = FALSE /\ UNCHANGED <<server, overlay>>
    BY <1>5 DEF exitSim, AtPlayback
  <2>2. Proper(call, server)
    BY FetchIs DEF Proper
  <2> HIDE DEF call
  <2> QED
    BY <1>1, <2>1, <2>2, PatientAsks
<1>6. CASE bootSystem
  <2> DEFINE locals == [prevHits |-> screen.hits]
             request(cap) == [api |-> "reset", capacity |-> cap]
             call(cap) == Fetch("bootSystem", request(cap), locals)
  <2>1. PICK cap \in BootCapacities : UserCalls(call(cap))
    BY <1>6 DEF bootSystem, reqApi
  <2>2. overlay /\ overlay' = FALSE /\ UNCHANGED <<server, inSimulation, playing>>
    BY <1>6 DEF bootSystem, playback
  <2>3. request(cap).api = "reset"
    OBVIOUS
  <2> HIDE DEF locals, request
  <2>4. Proper(call(cap), server)
    BY <2>3, FetchIs DEF Proper
  <2> HIDE DEF call
  <2> QED
    BY <1>1, <2>1, <2>2, <2>4, PatientAsks
<1>7. CASE ~ playing /\ showBootScreen
  <2>1. overlay' = TRUE /\ inSimulation' = FALSE /\ UNCHANGED <<server, calls, playing>>
    BY <1>7 DEF showBootScreen
  <2> QED
    BY <1>1, <1>7, <2>1, PatientLooks
<1> QED
  BY <1>2, <1>3, <1>4, <1>5, <1>6, <1>7 DEF PatientUser

LEMMA PatientTick ==
  ASSUME PInv, Tick, IInv'
  PROVE  PInv'
<1>1. /\ playing /\ inSimulation /\ calls = <<>> /\ ~ overlay
      /\ overlay \in BOOLEAN /\ inSimulation \in BOOLEAN
  BY DEF PInv, IInv, Tick
<1>2. UNCHANGED <<server, calls, overlay, inSimulation>>
  BY DEF Tick, stepSim
<1> QED
  BY <1>1, <1>2, PatientLooks

(* The server answers the call.                                            *)
LEMMA AnsweredProper ==
  ASSUME NEW s \in Servers, NEW call, Fits(call), Proper(call, s), NEW result \in Handled(s, call.request)
  PROVE  Proper(Answered(call, result[2]), result[1])
<1> DEFINE answered == Answered(call, result[2])
<1>1. /\ answered.task = call.task /\ answered.request = call.request /\ answered.answer = result[2]
      /\ call.request \in Request
  BY DEF Answered, Fits
<1> HIDE DEF answered
<1>2. CASE call.task = "simulates"
  BY <1>1, <1>2 DEF Proper, answered
<1>3. CASE call.task # "simulates"
  <2>1. call.request.api # "batch"
    <3>1. CASE call.task \in {"executeOp"}
      BY <3>1, DashboardAssumption DEF Proper
    <3>2. CASE call.task = "bootSystem"
      BY <3>2 DEF Proper
    <3>3. CASE call.task = "clears"
      BY <3>3 DEF Proper
    <3>4. CASE call.task \in {"captures", "exits"}
      BY <3>4 DEF Fits
    <3> QED
      BY <1>3, <3>1, <3>2, <3>3, <3>4 DEF Fits, Tasks, Proper
  <2>2. result[2].states[1] = json_state(result[1])
    BY <1>1, <2>1, OneStateIs
  <2>3. ASSUME call.task = "clears"
        PROVE  call.request = [api |-> "reset", capacity |-> result[1].cache.capacity]
    <3>1. call.request = [api |-> "reset", capacity |-> s.cache.capacity] /\ call.request.api = "reset"
          /\ call.request.capacity = s.cache.capacity
      BY <2>3 DEF Proper
    <3>2. ResetCapacity(s.cache.capacity) = s.cache.capacity
      BY ServerIs, PositiveIntsAre
    <3> QED
      BY <1>1, <3>1, <3>2, HandledCapacity
  <2> QED
    BY <1>1, <2>2, <2>3 DEF Proper, answered
<1> QED
  BY <1>2, <1>3

LEMMA PatientHandles ==
  ASSUME PInv, Handles, IInv'
  PROVE  PInv'
<1>1. PICK i \in DOMAIN calls : Handle(i)
  BY DEF Handles
<1>2. /\ RemoveAt(calls, i) = <<>> /\ calls # <<>> /\ server \in Servers
      /\ Proper(calls[i], server) /\ CallsFit(calls, simHistory)
  BY OnlyCall DEF PInv, IInv
<1>3. PICK result \in Handled(server, calls[i].request) :
        LET answered == Answered(calls[i], result[2])
        IN  /\ server' = result[1] /\ calls' = Append(<<>>, answered) /\ Fits(calls[i])
  BY <1>1, <1>2, HandleIs DEF Proper
<1> DEFINE answered == Answered(calls[i], result[2])
<1>4. Proper(answered, server')
  BY <1>2, <1>3, AnsweredProper
<1>5. calls' = <<answered>>
  BY <1>3
<1> HIDE DEF answered
<1>6. Len(calls') = 1 /\ calls' # <<>> /\ \A j \in DOMAIN calls' : calls'[j] = answered
  BY <1>5
<1>7. UNCHANGED <<overlay, inSimulation, playing>> /\ ~ overlay /\ ~ inSimulation /\ ~ playing
  BY <1>1, <1>2 DEF Handle, page, playback, PInv
<1> QED
  BY <1>4, <1>6, <1>7 DEF PInv, ScreenFollows

LEMMA PatientAnswers ==
  ASSUME PInv, Answers, IInv'
  PROVE  PInv'
<1>1. PICK i \in DOMAIN calls : Returns(i) \/ Captured(i) \/ Simulated(i) \/ Exited(i)
  BY DEF Answers, Continues
<1> DEFINE call == calls[i]
<1>2. /\ i = 1 /\ RemoveAt(calls, i) = <<>> /\ Fits(call) /\ calls # <<>> /\ server \in Servers
      /\ Proper(call, server) /\ ~ overlay /\ ~ inSimulation /\ ~ playing
  BY OnlyCall DEF PInv, IInv
<1>3. call.answer # NoAnswer
  BY <1>1 DEF Returns, Captured, Simulated, Exited, Arrives
<1>4. CASE Returns(i)
  <2>1. /\ call.task \in {"executeOp", "bootSystem", "clears"} /\ calls' = <<>>
        /\ screen' = call.answer.states[1] /\ UNCHANGED <<server, overlay, inSimulation, playing>>
    BY <1>2, <1>4 DEF Returns, Arrives, playback
  <2>2. screen' = json_state(server)
    BY <1>2, <1>3, <2>1 DEF Proper
  <2>3. ScreenFollows'
    BY <2>1, <2>2 DEF ScreenFollows
  <2> QED
    BY <1>2, <2>1, <2>3 DEF PInv
<1>5. CASE Captured(i)
  <2> DEFINE state == call.answer.states[1]
             Asked(g) == Fetch("simulates", [api |-> "batch", ops |-> g.ops], [state |-> state, shadow |-> g.shadow])
  <2>1. PICK g \in Generated(state, call.locals.ops) : calls' = Append(<<>>, Asked(g))
    BY <1>2, <1>5 DEF Captured
  <2>2. UNCHANGED <<server, overlay, inSimulation, playing>>
    BY <1>5 DEF Captured
  <2>3. Proper(Asked(g), server)
    BY FetchIs DEF Proper
  <2> HIDE DEF Asked
  <2>4. Len(calls') = 1 /\ calls' # <<>> /\ \A j \in DOMAIN calls' : calls'[j] = Asked(g)
    BY <2>1
  <2> QED
    BY <1>2, <2>2, <2>3, <2>4 DEF PInv, ScreenFollows
<1>6. CASE Simulated(i)
  <2>1. calls' = <<>> /\ inSimulation' = TRUE /\ UNCHANGED <<server, overlay, playing>>
    BY <1>2, <1>6 DEF Simulated
  <2> QED
    BY <1>2, <2>1 DEF PInv, ScreenFollows
<1>7. CASE Exited(i)
  <2> DEFINE cap == call.answer.states[1].capacity
             locals == [prevHits |-> screen.hits]
             next == Fetch("clears", [api |-> "reset", capacity |-> cap], locals)
  <2>1. call.task = "exits" /\ calls' = Append(<<>>, next) /\ UNCHANGED <<server, overlay, inSimulation, playing>>
    BY <1>2, <1>7 DEF Exited, Arrives, reqApi, page, playback
  <2>2. cap = server.cache.capacity
    BY <1>2, <1>3, <2>1, StateIs DEF Proper
  <2> HIDE DEF cap, locals
  <2>3. Proper(next, server)
    BY <2>2, FetchIs DEF Proper
  <2> HIDE DEF next
  <2>4. Len(calls') = 1 /\ calls' # <<>> /\ \A j \in DOMAIN calls' : calls'[j] = next
    BY <2>1
  <2> QED
    BY <1>2, <2>1, <2>3, <2>4 DEF PInv, ScreenFollows
<1> QED
  BY <1>1, <1>4, <1>5, <1>6, <1>7

LEMMA PatientIsUser == PatientNext => Next
  BY DEF PatientNext, PatientUser, Next, User

LEMMA InitPInv == Init => PInv
<1> SUFFICES ASSUME Init PROVE PInv
  OBVIOUS
<1>1. calls = <<>> /\ overlay /\ ~ inSimulation /\ ~ playing /\ IInv
  BY InitIInv DEF Init
<1>2. Len(calls) = 0 /\ DOMAIN calls = {}
  BY <1>1
<1> QED
  BY <1>1, <1>2 DEF PInv, ScreenFollows

LEMMA NextPInv == PInv /\ [PatientNext]_vars => PInv'
<1> SUFFICES ASSUME PInv, [PatientNext]_vars PROVE PInv'
  OBVIOUS
<1>1. IInv'
  BY PatientIsUser, NextIInv DEF PInv
<1>2. CASE UNCHANGED vars
  BY <1>1, <1>2 DEF vars, page, playback, PInv, ScreenFollows
<1> QED
  BY <1>1, <1>2, PatientUserStep, PatientTick, PatientHandles, PatientAnswers DEF PatientNext

-----------------------------------------------------------------------------
(* Calls that overlap.  Where those that are under way come from.          *)

LEMMA AppendSet ==
  ASSUME NEW cs, IsSequence(cs), NEW call
  PROVE  ToSet(Append(cs, call)) = ToSet(cs) \cup {call}
<1> DEFINE r == Append(cs, call)
<1>1. Len(cs) \in Nat /\ DOMAIN cs = 1 .. Len(cs)
  BY SequenceDomain
<1>2. IsSequence(r) /\ Len(r) = Len(cs) + 1 /\ r[Len(r)] = call /\ \A i \in 1 .. Len(cs) : r[i] = cs[i]
  BY SequenceAppend
<1>3. DOMAIN r = 1 .. Len(cs) + 1
  BY <1>2, SequenceDomain
<1> HIDE DEF r
<1>4. \A c : c \in ToSet(r) <=> c \in ToSet(cs) \cup {call}
  <2>1. ASSUME NEW i \in DOMAIN r PROVE r[i] \in ToSet(cs) \cup {call}
    <3>1. i \in DOMAIN cs \/ i = Len(r)
      BY <1>1, <1>2, <1>3
    <3> QED
      BY <1>1, <1>2, <3>1 DEF ToSet
  <2>2. ASSUME NEW i \in DOMAIN cs PROVE i \in DOMAIN r /\ r[i] = cs[i]
    BY <1>1, <1>2, <1>3
  <2>3. Len(r) \in DOMAIN r
    BY <1>1, <1>2, <1>3
  <2> QED
    BY <1>2, <2>1, <2>2, <2>3 DEF ToSet
<1>5. ToSet(r) = ToSet(cs) \cup {call}
  BY <1>4
<1> QED
  BY <1>5 DEF r

(* A call goes, the others move up.                                        *)
LEMMA RemoveAtIs ==
  ASSUME NEW cs, IsSequence(cs), NEW k \in DOMAIN cs
  PROVE  LET r == RemoveAt(cs, k)
         IN  /\ IsSequence(r) /\ DOMAIN r = 1 .. Len(cs) - 1 /\ Len(cs) \in Nat
             /\ \A i \in DOMAIN r : r[i] = IF i < k THEN cs[i] ELSE cs[i + 1]
             /\ ToSet(r) \subseteq ToSet(cs) /\ ToSet(cs) \subseteq ToSet(r) \cup {cs[k]}
<1> DEFINE r == RemoveAt(cs, k)
<1>1. Len(cs) \in Nat /\ DOMAIN cs = 1 .. Len(cs)
  BY SequenceDomain
<1>2. PICK S : cs \in Seq(S)
  BY DEF IsSequence
<1>3. /\ r \in Seq(S) /\ Len(r) = Len(cs) - 1
      /\ \A i \in 1 .. Len(cs) - 1 : r[i] = IF i < k THEN cs[i] ELSE cs[i + 1]
  <2>1. r = WithoutAt(cs, k)
    BY DEF RemoveAt, WithoutAt
  <2> HIDE DEF r
  <2> QED
    BY <1>1, <1>2, <2>1, WithoutAtIs
<1> HIDE DEF r
<1>4. IsSequence(r) /\ DOMAIN r = 1 .. Len(cs) - 1
  BY <1>3, SequenceDomain DEF IsSequence
<1>5. \A i \in DOMAIN r : r[i] = IF i < k THEN cs[i] ELSE cs[i + 1]
  BY <1>3, <1>4
<1>6. ASSUME NEW i \in DOMAIN r PROVE r[i] \in ToSet(cs)
  <2>1. i \in DOMAIN cs /\ i + 1 \in DOMAIN cs
    BY <1>1, <1>4
  <2> QED
    BY <1>4, <1>5, <2>1 DEF ToSet
<1>7. ASSUME NEW i \in DOMAIN cs, i # k PROVE \E m \in DOMAIN r : r[m] = cs[i]
  <2>1. CASE i < k
    <3>1. i \in DOMAIN r
      BY <1>1, <1>4, <2>1
    <3> QED
      BY <1>4, <1>5, <2>1, <3>1
  <2>2. CASE ~ i < k
    <3>1. i - 1 \in DOMAIN r /\ ~ i - 1 < k /\ (i - 1) + 1 = i
      BY <1>1, <1>4, <1>7, <2>2
    <3> QED
      BY <1>4, <1>5, <3>1
  <2> QED
    BY <2>1, <2>2
<1>8. ToSet(r) \subseteq ToSet(cs) /\ ToSet(cs) \subseteq ToSet(r) \cup {cs[k]}
  BY <1>6, <1>7 DEF ToSet
<1> QED
  BY <1>1, <1>4, <1>5, <1>8 DEF r

(* What is asked for by whom.                                              *)
Plain(call) ==
  /\ call.task # "stray"
  /\ call.task = "executeOp" => call.request \in UserRequests
  /\ call.task \in {"bootSystem", "clears"} => call.request.api = "reset"

(* A call that has just been made.                                         *)
Made(call, tasks) == call.task \in tasks /\ call.answer = NoAnswer /\ Plain(call)

LEMMA ExecutesIs ==
  ASSUME executeOp
  PROVE  /\ \E call : Made(call, {"executeOp", "captures"}) /\ calls' = Append(calls, call)
         /\ UNCHANGED <<server, page>>
<1>1. UNCHANGED <<server, page>>
  BY DEF executeOp
<1>2. CASE \E request \in UserRequests : UserCalls(reqApi("executeOp", request))
  <2> DEFINE locals == [prevHits |-> screen.hits]
             call(request) == Fetch("executeOp", request, locals)
  <2>1. PICK request \in UserRequests : UserCalls(call(request))
    BY <1>2 DEF reqApi
  <2> HIDE DEF locals
  <2>2. Made(call(request), {"executeOp", "captures"})
    BY FetchIs DEF Made, Plain
  <2> QED
    BY <1>1, <2>1, <2>2 DEF UserCalls
<1>3. CASE \E n \in SimOps : UserCalls(Fetch("captures", [api |-> "state"], [ops |-> n]))
  <2> DEFINE call(n) == Fetch("captures", [api |-> "state"], [ops |-> n])
  <2>1. PICK n \in SimOps : UserCalls(call(n))
    BY <1>3
  <2>2. Made(call(n), {"executeOp", "captures"})
    BY FetchIs DEF Made, Plain
  <2> QED
    BY <1>1, <2>1, <2>2 DEF UserCalls
<1> QED
  BY <1>2, <1>3 DEF executeOp

LEMMA ExitsIs ==
  ASSUME exitSim
  PROVE  /\ \E call : Made(call, {"exits"}) /\ calls' = Append(calls, call)
         /\ UNCHANGED <<server, overlay, screen>> /\ playing' = FALSE
<1> DEFINE call == Fetch("exits", [api |-> "state"], [none |-> 0])
<1>1. UserCalls(call) /\ UNCHANGED <<server, overlay, screen>> /\ playing' = FALSE
  BY DEF exitSim
<1>2. Made(call, {"exits"})
  BY FetchIs DEF Made, Plain
<1> QED
  BY <1>1, <1>2 DEF UserCalls

LEMMA BootsIs ==
  ASSUME bootSystem
  PROVE  /\ \E call : Made(call, {"bootSystem"}) /\ calls' = Append(calls, call)
         /\ UNCHANGED <<server, playing, inSimulation, screen>>
<1> DEFINE locals == [prevHits |-> screen.hits]
           request(cap) == [api |-> "reset", capacity |-> cap]
           call(cap) == Fetch("bootSystem", request(cap), locals)
<1>1. PICK cap \in BootCapacities : UserCalls(call(cap))
  BY DEF bootSystem, reqApi
<1>2. request(cap).api = "reset"
  OBVIOUS
<1>3. UNCHANGED <<server, playing, inSimulation, screen>>
  BY DEF bootSystem, playback
<1> HIDE DEF locals, request
<1>4. Made(call(cap), {"bootSystem"})
  BY <1>2, FetchIs DEF Made, Plain
<1> QED
  BY <1>1, <1>3, <1>4 DEF UserCalls

(* The next call of a simulation, and of an exit.                          *)
LEMMA CapturedIs ==
  ASSUME NEW i \in DOMAIN calls, Captured(i)
  PROVE  /\ \E call : Made(call, {"simulates"}) /\ calls' = Append(RemoveAt(calls, i), call)
         /\ UNCHANGED <<server, overlay, inSimulation, playing, screen>>
<1> DEFINE state == calls[i].answer.states[1]
           call(g) == Fetch("simulates", [api |-> "batch", ops |-> g.ops], [state |-> state, shadow |-> g.shadow])
<1>1. PICK g \in Generated(state, calls[i].locals.ops) : calls' = Append(RemoveAt(calls, i), call(g))
  BY DEF Captured
<1>2. UNCHANGED <<server, overlay, inSimulation, playing, screen>>
  BY DEF Captured
<1>3. Made(call(g), {"simulates"})
  BY FetchIs DEF Made, Plain
<1> QED
  BY <1>1, <1>2, <1>3

LEMMA ExitedIs ==
  ASSUME NEW i \in DOMAIN calls, Exited(i)
  PROVE  /\ calls[i].task = "exits" /\ calls[i].answer # NoAnswer
         /\ \E call : /\ Made(call, {"clears"}) /\ calls' = Append(RemoveAt(calls, i), call)
                      /\ call.request = [api |-> "reset", capacity |-> calls[i].answer.states[1].capacity]
         /\ UNCHANGED <<server, overlay, inSimulation, playing, screen>>
<1> DEFINE cap == calls[i].answer.states[1].capacity
           request == [api |-> "reset", capacity |-> cap]
           locals == [prevHits |-> screen.hits]
           call == Fetch("clears", request, locals)
<1>1. /\ calls[i].task = "exits" /\ calls[i].answer # NoAnswer
      /\ calls' = Append(RemoveAt(calls, i), call)
  BY DEF Exited, Arrives, reqApi
<1>2. UNCHANGED <<server, overlay, inSimulation, playing, screen>>
  BY DEF Exited, page, playback
<1>3. request.api = "reset"
  OBVIOUS
<1> HIDE DEF locals, cap
<1>4. Made(call, {"clears"}) /\ call.request = request
  BY <1>3, FetchIs DEF Made, Plain
<1> QED
  BY <1>1, <1>2, <1>4 DEF cap

(* What the server makes of a call that was asked for like this.           *)
LEMMA PlainHandled ==
  ASSUME NEW s \in Servers, NEW call, Fits(call), Plain(call), NEW result \in Handled(s, call.request)
  PROVE  /\ call.task # "simulates" => result[2].states[1] = json_state(result[1])
         /\ call.task \in {"captures", "exits"} => result[1] = s
         /\ call.task \notin {"bootSystem", "clears"} => result[1].cache.capacity = s.cache.capacity
         /\ Plain(Answered(call, result[2]))
<1>1. call.request \in Request /\ call.task \in Tasks
  BY DEF Fits
<1>2. call.task = "executeOp" => call.request.api \in {"put", "get", "remove"}
  BY DashboardAssumption DEF Plain
<1>3. call.task \in {"captures", "exits"} => call.request.api = "state"
  BY DEF Fits
<1>4. call.task = "simulates" => call.request.api = "batch"
  BY DEF Fits
<1>5. call.task # "simulates" => call.request.api # "batch"
  BY <1>1, <1>2, <1>3 DEF Plain, Tasks
<1>6. call.task \notin {"bootSystem", "clears"} => call.request.api # "reset"
  BY <1>1, <1>2, <1>3, <1>4 DEF Plain, Tasks
<1>7. call.task # "simulates" => result[2].states[1] = json_state(result[1])
  BY <1>1, <1>5, OneStateIs
<1>8. call.request.api = "state" => result[1] = s
  BY DEF Handled
<1>9. call.task \notin {"bootSystem", "clears"} => result[1].cache.capacity = s.cache.capacity
  BY <1>1, <1>6, HandledCapacity
<1>10. Plain(Answered(call, result[2]))
  BY DEF Plain, Answered
<1> QED
  BY <1>3, <1>7, <1>8, <1>9, <1>10

-----------------------------------------------------------------------------
(* A busy user.                                                            *)

(* The second call of an exit asks for the capacity cap that the server    *)
(* has, and the answer to the first names it.                              *)
Keeping(call, cap) ==
  /\ Plain(call)
  /\ call.task = "clears" => call.request = [api |-> "reset", capacity |-> cap]
  /\ call.task = "exits" /\ call.answer # NoAnswer => call.answer.states[1].capacity = cap

(* No boot is under way together with an exit.                             *)
Apart(cs) ==
  \/ \A c \in cs : c.task # "bootSystem"
  \/ \A c \in cs : c.task \notin {"exits", "clears"}

BInv ==
  /\ IInv
  /\ \A c \in ToSet(calls) : Keeping(c, server.cache.capacity)
  /\ Apart(ToSet(calls))

(* A new call that keeps the capacity, and does not meet one of the other  *)
(* kind, may join some of those that are under way.                        *)
LEMMA JoinKept ==
  ASSUME BInv, server' = server, NEW cs, IsSequence(cs), ToSet(cs) \subseteq ToSet(calls),
         NEW call, calls' = Append(cs, call), Keeping(call, server.cache.capacity),
         Apart(ToSet(cs) \cup {call}), IInv'
  PROVE  BInv'
<1>1. ToSet(calls') = ToSet(cs) \cup {call}
  BY AppendSet
<1> QED
  BY <1>1 DEF BInv

LEMMA FewerKept ==
  ASSUME BInv, server' = server, ToSet(calls') \subseteq ToSet(calls), IInv'
  PROVE  BInv'
BY DEF BInv, Apart

LEMMA BusyUserStep ==
  ASSUME BInv, BusyUser, IInv'
  PROVE  BInv' /\ server' = server
<1>1. IsSequence(calls) /\ \A tasks : UnderWay(tasks) <=> \E c \in ToSet(calls) : c.task \in tasks
  BY DEF BInv, IInv, CallsFit, UnderWay, ToSet
<1>2. CASE executeOp
  <2>1. PICK call : Made(call, {"executeOp", "captures"}) /\ calls' = Append(calls, call)
    BY <1>2, ExecutesIs
  <2>2. server' = server
    BY <1>2, ExecutesIs
  <2>3. Keeping(call, server.cache.capacity) /\ Apart(ToSet(calls) \cup {call})
    BY <2>1 DEF Made, Keeping, BInv, Apart
  <2> QED
    BY <1>1, <2>1, <2>2, <2>3, JoinKept
<1>3. CASE showBootScreen
  BY <1>3, FewerKept DEF showBootScreen
<1>4. CASE exitSim /\ ~ UnderWay({"bootSystem"})
  <2>1. PICK call : Made(call, {"exits"}) /\ calls' = Append(calls, call)
    BY <1>4, ExitsIs
  <2>2. server' = server
    BY <1>4, ExitsIs
  <2>3. Keeping(call, server.cache.capacity)
    BY <2>1 DEF Made, Keeping
  <2>4. Apart(ToSet(calls) \cup {call})
    BY <1>1, <1>4, <2>1 DEF Made, Apart
  <2> QED
    BY <1>1, <2>1, <2>2, <2>3, <2>4, JoinKept
<1>5. CASE bootSystem /\ ~ UnderWay({"exits", "clears"})
  <2>1. PICK call : Made(call, {"bootSystem"}) /\ calls' = Append(calls, call)
    BY <1>5, BootsIs
  <2>2. server' = server
    BY <1>5, BootsIs
  <2>3. Keeping(call, server.cache.capacity)
    BY <2>1 DEF Made, Keeping
  <2>4. Apart(ToSet(calls) \cup {call})
    BY <1>1, <1>5, <2>1 DEF Made, Apart
  <2> QED
    BY <1>1, <2>1, <2>2, <2>3, <2>4, JoinKept
<1> QED
  BY <1>2, <1>3, <1>4, <1>5 DEF BusyUser

LEMMA BusyAnswers ==
  ASSUME BInv, Answers, IInv'
  PROVE  BInv' /\ server' = server
<1>1. PICK i \in DOMAIN calls : Returns(i) \/ Captured(i) \/ Simulated(i) \/ Exited(i)
  BY DEF Answers, Continues
<1> DEFINE others == RemoveAt(calls, i)
<1>2. calls[i] \in ToSet(calls) /\ IsSequence(calls)
  BY DEF ToSet, BInv, IInv, CallsFit
<1>3. IsSequence(others) /\ ToSet(others) \subseteq ToSet(calls)
  BY <1>2, RemoveAtIs
<1>4. Apart(ToSet(others))
  BY <1>3 DEF BInv, Apart
<1>5. CASE Returns(i) \/ Simulated(i)
  <2>1. server' = server /\ calls' = others
    BY <1>5 DEF Returns, Simulated
  <2> QED
    BY <1>3, <2>1, FewerKept
<1>6. CASE Captured(i)
  <2>1. PICK call : Made(call, {"simulates"}) /\ calls' = Append(others, call)
    BY <1>6, CapturedIs
  <2>2. server' = server
    BY <1>6, CapturedIs
  <2> HIDE DEF others
  <2>3. Keeping(call, server.cache.capacity) /\ Apart(ToSet(others) \cup {call})
    BY <1>4, <2>1 DEF Made, Keeping, Apart
  <2> QED
    BY <1>3, <2>1, <2>2, <2>3, JoinKept
<1>7. CASE Exited(i)
  <2>1. PICK call : /\ Made(call, {"clears"}) /\ calls' = Append(others, call)
                    /\ call.request = [api |-> "reset", capacity |-> calls[i].answer.states[1].capacity]
    BY <1>7, ExitedIs
  <2>2. server' = server /\ calls[i].task = "exits" /\ calls[i].answer # NoAnswer
    BY <1>7, ExitedIs
  <2> HIDE DEF others
  <2>3. calls[i].answer.states[1].capacity = server.cache.capacity
    BY <1>2, <2>2 DEF BInv, Keeping
  <2>4. Keeping(call, server.cache.capacity)
    BY <2>1, <2>3 DEF Made, Keeping
  <2>5. \A c \in ToSet(others) : c.task # "bootSystem"
    BY <1>2, <1>3, <2>2 DEF BInv, Apart
  <2>6. Apart(ToSet(others) \cup {call})
    BY <2>1, <2>5 DEF Made, Apart
  <2> QED
    BY <1>3, <2>1, <2>2, <2>4, <2>6, JoinKept
<1> QED
  BY <1>1, <1>5, <1>6, <1>7

(* Only what the boot screen asked for changes the capacity.               *)
LEMMA BusyHandles ==
  ASSUME BInv, NEW i \in DOMAIN calls, Handle(i), IInv'
  PROVE  /\ BInv'
         /\ server'.cache.capacity # server.cache.capacity => calls[i].task = "bootSystem"
<1> DEFINE call == calls[i]
           others == RemoveAt(calls, i)
           cap == server.cache.capacity
<1>1. /\ call \in ToSet(calls) /\ IsSequence(calls) /\ server \in Servers /\ CallsFit(calls, simHistory)
      /\ Keeping(call, cap)
  BY DEF ToSet, BInv, IInv, CallsFit
<1>2. PICK result \in Handled(server, call.request) :
        LET answered == Answered(call, result[2])
        IN  /\ server' = result[1] /\ server' \in Servers /\ calls' = Append(others, answered)
            /\ Fits(call) /\ answered.answer # NoAnswer
  BY <1>1, HandleIs DEF Keeping, Plain
<1> DEFINE answered == Answered(call, result[2])
<1>3. IsSequence(others) /\ ToSet(others) \subseteq ToSet(calls)
  BY <1>1, RemoveAtIs
<1>4. /\ call.task # "simulates" => result[2].states[1] = json_state(server')
      /\ call.task \notin {"bootSystem", "clears"} => server'.cache.capacity = cap
      /\ Plain(answered)
  BY <1>1, <1>2, PlainHandled DEF Keeping
<1>5. call.task = "clears" => server'.cache.capacity = cap
  <2> SUFFICES ASSUME call.task = "clears" PROVE server'.cache.capacity = cap
    OBVIOUS
  <2>1. call.request.api = "reset" /\ call.request.capacity = cap /\ call.request \in Request
    BY <1>1, <1>2 DEF Keeping, Fits
  <2>2. ResetCapacity(cap) = cap
    BY <1>1, ServerIs, PositiveIntsAre
  <2> QED
    BY <1>1, <1>2, <2>1, <2>2, HandledCapacity
<1>6. /\ answered.task = call.task /\ answered.request = call.request /\ answered.answer = result[2]
      /\ calls' = Append(others, answered)
  BY <1>2 DEF Answered
<1> HIDE DEF answered, others
<1>7. ToSet(calls') = ToSet(others) \cup {answered}
  BY <1>3, <1>6, AppendSet
<1>8. Apart(ToSet(calls'))
  BY <1>1, <1>3, <1>6, <1>7 DEF BInv, Apart
<1>9. ASSUME NEW c \in ToSet(calls') PROVE Keeping(c, server'.cache.capacity)
  <2>1. CASE call.task = "bootSystem"
    <3>1. \A d \in ToSet(calls) : d.task \notin {"exits", "clears"}
      BY <1>1, <2>1 DEF BInv, Apart
    <3>2. Plain(c) /\ c.task \notin {"exits", "clears"}
      BY <1>1, <1>3, <1>4, <1>6, <1>7, <3>1 DEF BInv, Keeping
    <3> QED
      BY <3>2 DEF Keeping
  <2>2. CASE call.task # "bootSystem"
    <3>1. server'.cache.capacity = cap
      BY <1>4, <1>5, <2>2
    <3>2. CASE c = answered
      <4>1. call.task = "exits" => result[2].states[1].capacity = cap
        BY <1>2, <1>4, <3>1, StateIs
      <4> QED
        BY <1>1, <1>4, <1>6, <3>1, <3>2, <4>1 DEF Keeping
    <3>3. CASE c \in ToSet(calls)
      BY <3>1, <3>3 DEF BInv
    <3> QED
      BY <1>3, <1>7, <3>2, <3>3
  <2> QED
    BY <2>1, <2>2
<1>10. BInv'
  BY <1>8, <1>9 DEF BInv
<1> QED
  BY <1>4, <1>5, <1>10

LEMMA BusyIsUse == BusyNext => Next
  BY DEF BusyNext, BusyUser, Next, User

LEMMA InitBInv == Init => BInv
<1> SUFFICES ASSUME Init PROVE BInv
  OBVIOUS
<1>1. calls = <<>> /\ IInv
  BY InitIInv DEF Init
<1>2. ToSet(calls) = {}
  BY <1>1 DEF ToSet
<1> QED
  BY <1>1, <1>2 DEF BInv, Apart

LEMMA BusyStep ==
  ASSUME BInv, BusyNext
  PROVE  /\ BInv'
         /\ server'.cache.capacity # server.cache.capacity =>
              \E i \in DOMAIN calls : calls[i].task = "bootSystem" /\ calls[i].answer = NoAnswer
<1>1. IInv'
  BY BusyIsUse, NextIInv DEF BInv
<1>2. CASE BusyUser
  BY <1>1, <1>2, BusyUserStep
<1>3. CASE Answers
  BY <1>1, <1>3, BusyAnswers
<1>4. CASE Fails
  <2>1. PICK i \in DOMAIN calls : calls' = RemoveAt(calls, i)
    BY <1>4 DEF Fails, Fail
  <2>2. server' = server
    BY <1>4 DEF Fails, Fail
  <2>3. ToSet(calls') \subseteq ToSet(calls)
    BY <2>1, RemoveAtIs DEF BInv, IInv, CallsFit
  <2> QED
    BY <1>1, <2>2, <2>3, FewerKept
<1>5. CASE Handles
  <2>1. PICK i \in DOMAIN calls : Handle(i)
    BY <1>5 DEF Handles
  <2>2. calls[i].answer = NoAnswer
    BY <2>1 DEF Handle
  <2> QED
    BY <1>1, <2>1, <2>2, BusyHandles
<1> QED
  BY <1>2, <1>3, <1>4, <1>5 DEF BusyNext

(* A step that changes the capacity is one in which the server handles     *)
(* what the boot screen asked for: whatever operations and simulations a   *)
(* busy user runs, and however calls overtake each other or fail, between  *)
(* the two calls of exitSim, the second asks for the capacity that the     *)
(* server still has (app.js:431-442).                                      *)
THEOREM ExitKeeps == UsersSpec => ExitKeepsCapacity
<1> DEFINE Inv == user = "busy" => BInv
           Keeps == user = "busy" /\ server'.cache.capacity # server.cache.capacity =>
                      \E i \in DOMAIN calls : calls[i].task = "bootSystem" /\ calls[i].answer = NoAnswer
<1>1. ASSUME Inv, [UsersNext]_uses PROVE Inv' /\ [Keeps]_uses
  <2>1. CASE user = "busy" /\ BusyNext /\ UNCHANGED user
    BY <1>1, <2>1, BusyStep
  <2>2. CASE user # "busy" /\ UNCHANGED user
    BY <2>2
  <2>3. CASE UNCHANGED uses
    BY <1>1, <2>3 DEF uses, vars, page, playback, BInv, IInv
  <2> QED
    BY <1>1, <2>1, <2>2, <2>3 DEF UsersNext
<1>2. UsersInit => Inv
  BY InitBInv DEF UsersInit
<1> QED
  BY <1>1, <1>2, PTL DEF UsersSpec, ExitKeepsCapacity

-----------------------------------------------------------------------------
(* An orderly user.                                                        *)

(* The answer to this call will be rendered.                               *)
Writes(call) ==
  call.answer # NoAnswer /\ call.task \in {"executeOp", "bootSystem", "clears", "simulates"}

(* Of those, the one that the server gave last.                            *)
Newest(cs, i) == Writes(cs[i]) /\ \A j \in DOMAIN cs : j > i => ~ Writes(cs[j])

(* It is the state of the server, unless it is that of a playback.         *)
Shown(cs, s) ==
  \A i \in DOMAIN cs :
    Newest(cs, i) /\ cs[i].task # "simulates" => cs[i].answer.states[1] = json_state(s)

(* An answer that is awaited will yet bring the screen up to date.         *)
Awaited(call) == Writes(call) \/ call.task \in {"exits", "clears", "bootSystem"}

OInv ==
  /\ IInv
  /\ \A c \in ToSet(calls) : Plain(c)
  /\ playing => inSimulation
  /\ Shown(calls, server)
  /\ \/ \E c \in ToSet(calls) : Awaited(c)
     \/ inSimulation \/ overlay \/ screen = json_state(server)

LEMMA ShownAppend ==
  ASSUME NEW cs, IsSequence(cs), NEW s, Shown(cs, s), NEW call, ~ Writes(call)
  PROVE  Shown(Append(cs, call), s)
<1> DEFINE r == Append(cs, call)
<1>1. Len(cs) \in Nat /\ DOMAIN cs = 1 .. Len(cs)
  BY SequenceDomain
<1>2. IsSequence(r) /\ Len(r) = Len(cs) + 1 /\ r[Len(r)] = call /\ \A i \in 1 .. Len(cs) : r[i] = cs[i]
  BY SequenceAppend
<1>3. DOMAIN r = 1 .. Len(cs) + 1
  BY <1>2, SequenceDomain
<1> HIDE DEF r
<1>4. ASSUME NEW i \in DOMAIN r, Newest(r, i)
      PROVE  i \in DOMAIN cs /\ r[i] = cs[i] /\ Newest(cs, i)
  <2>1. i # Len(r)
    BY <1>2, <1>4 DEF Newest
  <2>2. i \in DOMAIN cs /\ r[i] = cs[i]
    BY <1>1, <1>2, <1>3, <2>1
  <2>3. \A j \in DOMAIN cs : j \in DOMAIN r /\ r[j] = cs[j]
    BY <1>1, <1>2, <1>3
  <2> QED
    BY <1>4, <2>2, <2>3 DEF Newest
<1>5. Shown(r, s)
  BY <1>4 DEF Shown
<1> QED
  BY <1>5 DEF r

(* The server has given another answer.                                    *)
LEMMA ShownAnswer ==
  ASSUME NEW cs, IsSequence(cs), NEW s, NEW call, Writes(call),
         call.task # "simulates" => call.answer.states[1] = json_state(s)
  PROVE  Shown(Append(cs, call), s)
<1> DEFINE r == Append(cs, call)
<1>1. Len(cs) \in Nat
  BY SequenceDomain
<1>2. IsSequence(r) /\ Len(r) = Len(cs) + 1 /\ r[Len(r)] = call
  BY SequenceAppend
<1>3. DOMAIN r = 1 .. Len(cs) + 1
  BY <1>2, SequenceDomain
<1> HIDE DEF r
<1>4. ASSUME NEW i \in DOMAIN r, Newest(r, i) PROVE r[i] = call
  <2>1. Len(r) \in DOMAIN r /\ Writes(r[Len(r)])
    BY <1>1, <1>2, <1>3
  <2>2. ~ Len(r) > i
    BY <1>4, <2>1 DEF Newest
  <2>3. i = Len(r)
    BY <1>1, <1>2, <1>3, <2>2
  <2> QED
    BY <1>2, <2>3
<1>5. Shown(r, s)
  BY <1>4 DEF Shown
<1> QED
  BY <1>5 DEF r

(* What is newest afterwards was so before, if the call that goes has no   *)
(* answer that matters or is the first that has one.                       *)
LEMMA ShownRemove ==
  ASSUME NEW cs, IsSequence(cs), NEW s, Shown(cs, s), NEW k \in DOMAIN cs,
         ~ Writes(cs[k]) \/ \A j \in 1 .. k - 1 : ~ Writes(cs[j])
  PROVE  Shown(RemoveAt(cs, k), s)
<1> DEFINE r == RemoveAt(cs, k)
<1>1. Len(cs) \in Nat /\ DOMAIN cs = 1 .. Len(cs)
  BY SequenceDomain
<1>2. /\ DOMAIN r = 1 .. Len(cs) - 1
      /\ \A i \in DOMAIN r : r[i] = IF i < k THEN cs[i] ELSE cs[i + 1]
  BY RemoveAtIs
<1> HIDE DEF r
<1>3. ASSUME NEW i \in DOMAIN r, Newest(r, i)
      PROVE  \E m \in DOMAIN cs : r[i] = cs[m] /\ Newest(cs, m)
  <2>1. CASE i < k
    <3>1. r[i] = cs[i] /\ i \in DOMAIN cs /\ Writes(cs[i]) /\ i \in 1 .. k - 1
      BY <1>1, <1>2, <1>3, <2>1 DEF Newest
    <3>2. ASSUME NEW j \in DOMAIN cs, j > i PROVE ~ Writes(cs[j])
      <4>1. CASE j = k
        BY <3>1, <4>1
      <4>2. CASE j < k
        <5>1. j \in DOMAIN r /\ r[j] = cs[j]
          BY <1>1, <1>2, <4>2
        <5> QED
          BY <1>3, <3>2, <5>1 DEF Newest
      <4>3. CASE j > k
        <5>1. j - 1 \in DOMAIN r /\ ~ j - 1 < k /\ (j - 1) + 1 = j /\ j - 1 > i
          BY <1>1, <1>2, <2>1, <4>3
        <5>2. r[j - 1] = cs[j]
          BY <1>2, <5>1
        <5> QED
          BY <1>3, <5>1, <5>2 DEF Newest
      <4> QED
        BY <1>1, <4>1, <4>2, <4>3
    <3> QED
      BY <3>1, <3>2 DEF Newest
  <2>2. CASE ~ i < k
    <3>1. r[i] = cs[i + 1] /\ i + 1 \in DOMAIN cs /\ Writes(cs[i + 1])
      BY <1>1, <1>2, <1>3, <2>2 DEF Newest
    <3>2. ASSUME NEW j \in DOMAIN cs, j > i + 1 PROVE ~ Writes(cs[j])
      <4>1. j - 1 \in DOMAIN r /\ ~ j - 1 < k /\ (j - 1) + 1 = j /\ j - 1 > i
        BY <1>1, <1>2, <2>2, <3>2
      <4>2. r[j - 1] = cs[j]
        BY <1>2, <4>1
      <4> QED
        BY <1>3, <4>1, <4>2 DEF Newest
    <3> QED
      BY <3>1, <3>2 DEF Newest
  <2> QED
    BY <2>1, <2>2
<1>4. Shown(r, s)
  BY <1>3 DEF Shown
<1> QED
  BY <1>4 DEF r

LEMMA NewestLeft ==
  ASSUME NEW cs, IsSequence(cs), NEW k \in DOMAIN cs, Writes(cs[k]),
         \A c \in ToSet(RemoveAt(cs, k)) : ~ Writes(c)
  PROVE  Newest(cs, k)
<1> DEFINE r == RemoveAt(cs, k)
<1>1. Len(cs) \in Nat /\ DOMAIN cs = 1 .. Len(cs)
  BY SequenceDomain
<1>2. /\ DOMAIN r = 1 .. Len(cs) - 1
      /\ \A i \in DOMAIN r : r[i] = IF i < k THEN cs[i] ELSE cs[i + 1]
  BY RemoveAtIs
<1>3. \A i \in DOMAIN r : ~ Writes(r[i])
  BY DEF ToSet
<1> HIDE DEF r
<1>4. ASSUME NEW j \in DOMAIN cs, j > k PROVE ~ Writes(cs[j])
  <2>1. j - 1 \in DOMAIN r /\ ~ j - 1 < k /\ (j - 1) + 1 = j
    BY <1>1, <1>2, <1>4
  <2> QED
    BY <1>2, <1>3, <2>1
<1> QED
  BY <1>4 DEF Newest

(* A new call joins some of those that are under way, and those that       *)
(* matter stay.                                                            *)
LEMMA JoinOrderly ==
  ASSUME OInv, IInv', server' = server, playing' => inSimulation',
         NEW cs, IsSequence(cs), ToSet(cs) \subseteq ToSet(calls), Shown(cs, server),
         NEW tasks, NEW call, Made(call, tasks), calls' = Append(cs, call),
         \/ Awaited(call)
         \/ /\ \A c \in ToSet(calls) : Awaited(c) => c \in ToSet(cs)
            /\ UNCHANGED <<inSimulation, overlay, screen>>
  PROVE  OInv'
<1>1. ToSet(calls') = ToSet(cs) \cup {call}
  BY AppendSet
<1>2. ~ Writes(call) /\ Plain(call)
  BY DEF Made, Writes
<1>3. Shown(calls', server')
  BY <1>2, ShownAppend
<1>4. \A c \in ToSet(calls') : Plain(c)
  BY <1>1, <1>2 DEF OInv
<1>5. \/ \E c \in ToSet(calls') : Awaited(c)
      \/ inSimulation' \/ overlay' \/ screen' = json_state(server')
  BY <1>1 DEF OInv
<1> QED
  BY <1>3, <1>4, <1>5 DEF OInv

LEMMA OrderlyUserStep ==
  ASSUME OInv, OrderlyUser \/ Tick, IInv'
  PROVE  OInv'
<1>1. IsSequence(calls) /\ Shown(calls, server)
  BY DEF OInv, IInv, CallsFit
<1>2. CASE executeOp
  <2>1. PICK call : Made(call, {"executeOp", "captures"}) /\ calls' = Append(calls, call)
    BY <1>2, ExecutesIs
  <2>2. UNCHANGED <<server, playing, inSimulation, overlay, screen>>
    BY <1>2, ExecutesIs DEF page, playback
  <2>3. playing' => inSimulation'
    BY <2>2 DEF OInv
  <2> QED
    BY <1>1, <2>1, <2>2, <2>3, JoinOrderly
<1>3. CASE exitSim
  <2>1. PICK call : Made(call, {"exits"}) /\ calls' = Append(calls, call)
    BY <1>3, ExitsIs
  <2>2. server' = server /\ ~ playing'
    BY <1>3, ExitsIs
  <2>3. Awaited(call)
    BY <2>1 DEF Made, Awaited
  <2> QED
    BY <1>1, <2>1, <2>2, <2>3, JoinOrderly
<1>4. CASE bootSystem
  <2>1. PICK call : Made(call, {"bootSystem"}) /\ calls' = Append(calls, call)
    BY <1>4, BootsIs
  <2>2. server' = server /\ (playing' => inSimulation')
    BY <1>4, BootsIs DEF OInv
  <2>3. Awaited(call)
    BY <2>1 DEF Made, Awaited
  <2> QED
    BY <1>1, <2>1, <2>2, <2>3, JoinOrderly
<1>5. CASE ~ playing /\ showBootScreen
  <2>1. UNCHANGED <<server, calls, playing>> /\ overlay'
    BY <1>5 DEF showBootScreen
  <2> QED
    BY <1>5, <2>1 DEF OInv
<1>6. CASE toggleAutoPlay \/ Step
  <2>1. UNCHANGED <<server, calls, inSimulation>> /\ inSimulation
    BY <1>6 DEF toggleAutoPlay, Step, AtPlayback, stepSim
  <2> QED
    BY <2>1 DEF OInv
<1>7. CASE Tick
  <2>1. UNCHANGED <<server, calls, inSimulation>> /\ playing
    BY <1>7 DEF Tick, stepSim
  <2>2. inSimulation
    BY <2>1 DEF OInv
  <2> QED
    BY <2>1, <2>2 DEF OInv
<1> QED
  BY <1>2, <1>3, <1>4, <1>5, <1>6, <1>7 DEF OrderlyUser

LEMMA OrderlyHandles ==
  ASSUME OInv, NEW i \in DOMAIN calls, Handle(i), IInv'
  PROVE  OInv'
<1> DEFINE call == calls[i]
           others == RemoveAt(calls, i)
<1>1. /\ call \in ToSet(calls) /\ IsSequence(calls) /\ server \in Servers /\ CallsFit(calls, simHistory)
      /\ Plain(call) /\ Shown(calls, server)
  BY DEF ToSet, OInv, IInv, CallsFit
<1>2. PICK result \in Handled(server, call.request) :
        LET answered == Answered(call, result[2])
        IN  /\ server' = result[1] /\ server' \in Servers /\ calls' = Append(others, answered)
            /\ Fits(call) /\ answered.answer # NoAnswer
  BY <1>1, HandleIs DEF Plain
<1> DEFINE answered == Answered(call, result[2])
<1>3. /\ IsSequence(others) /\ ToSet(others) \subseteq ToSet(calls)
      /\ ToSet(calls) \subseteq ToSet(others) \cup {call}
  BY <1>1, RemoveAtIs
<1>4. /\ call.task # "simulates" => result[2].states[1] = json_state(server')
      /\ call.task \in {"captures", "exits"} => server' = server
      /\ Plain(answered)
  BY <1>1, <1>2, PlainHandled
<1>5. /\ answered.task = call.task /\ answered.answer = result[2] /\ answered.answer # NoAnswer
      /\ calls' = Append(others, answered)
  BY <1>2 DEF Answered
<1>6. call.answer = NoAnswer /\ UNCHANGED <<playing, inSimulation, overlay, screen>>
  BY DEF Handle, page, playback
<1> HIDE DEF answered
<1>7. Shown(others, server)
  BY <1>1, <1>6, ShownRemove DEF Writes
<1> HIDE DEF others
<1>8. ToSet(calls') = ToSet(others) \cup {answered}
  BY <1>3, <1>5, AppendSet
<1>9. \A c \in ToSet(calls') : Plain(c)
  BY <1>3, <1>4, <1>8 DEF OInv
<1>10. call.task \in Tasks /\ call.task # "stray"
  BY <1>1, <1>2 DEF Fits, Plain
<1>11. CASE Writes(answered)
  <2>1. Shown(calls', server')
    BY <1>3, <1>4, <1>5, <1>11, ShownAnswer
  <2>2. \E c \in ToSet(calls') : Awaited(c)
    BY <1>8, <1>11 DEF Awaited
  <2> QED
    BY <1>6, <1>9, <2>1, <2>2 DEF OInv
<1>12. CASE ~ Writes(answered)
  <2>1. call.task \in {"captures", "exits"}
    BY <1>5, <1>10, <1>12 DEF Writes, Tasks
  <2>2. server' = server
    BY <1>4, <2>1
  <2>3. Shown(calls', server')
    BY <1>3, <1>5, <1>7, <1>12, <2>2, ShownAppend
  <2>4. Awaited(call) => Awaited(answered)
    BY <1>5, <1>6 DEF Awaited, Writes
  <2>5. \/ \E c \in ToSet(calls') : Awaited(c)
        \/ inSimulation' \/ overlay' \/ screen' = json_state(server')
    BY <1>3, <1>6, <1>8, <2>2, <2>4 DEF OInv
  <2> QED
    BY <1>6, <1>9, <2>3, <2>5 DEF OInv
<1> QED
  BY <1>11, <1>12

(* The answer that the page takes is the oldest, so that when no other is  *)
(* left to be rendered it is also the newest, and shows the server.        *)
LEMMA OrderlyAnswer ==
  ASSUME OInv, NEW i \in DOMAIN calls, InOrder(i), Continues(i), IInv'
  PROVE  OInv'
<1> DEFINE call == calls[i]
           others == RemoveAt(calls, i)
<1>1. IsSequence(calls) /\ Shown(calls, server) /\ call \in ToSet(calls)
  BY DEF OInv, IInv, CallsFit, ToSet
<1>2. /\ IsSequence(others) /\ ToSet(others) \subseteq ToSet(calls)
      /\ ToSet(calls) \subseteq ToSet(others) \cup {call}
  BY <1>1, RemoveAtIs
<1>3. Shown(others, server)
  BY <1>1, ShownRemove DEF InOrder, Writes
<1>4. \A c \in ToSet(others) : Plain(c)
  BY <1>2 DEF OInv
<1>5. CASE Returns(i)
  <2>1. /\ calls' = others /\ UNCHANGED <<server, overlay, inSimulation, playing>>
        /\ screen' = call.answer.states[1]
    BY <1>5 DEF Returns, playback
  <2>2. Writes(call) /\ call.task # "simulates"
    BY <1>5 DEF Returns, Arrives, Writes
  <2>3. CASE \E c \in ToSet(others) : Awaited(c)
    BY <1>3, <1>4, <2>1, <2>3 DEF OInv
  <2>4. CASE \A c \in ToSet(others) : ~ Writes(c)
    <3>1. Newest(calls, i)
      BY <1>1, <2>2, <2>4, NewestLeft
    <3>2. screen' = json_state(server')
      BY <1>1, <2>1, <2>2, <3>1 DEF Shown
    <3> QED
      BY <1>3, <1>4, <2>1, <3>2 DEF OInv
  <2> QED
    BY <2>3, <2>4 DEF Awaited
<1>6. CASE Simulated(i)
  <2>1. calls' = others /\ server' = server /\ inSimulation'
    BY <1>6 DEF Simulated
  <2> QED
    BY <1>3, <1>4, <2>1 DEF OInv
<1>7. CASE Captured(i)
  <2>1. PICK next : Made(next, {"simulates"}) /\ calls' = Append(others, next)
    BY <1>7, CapturedIs
  <2>2. UNCHANGED <<server, overlay, inSimulation, playing, screen>>
    BY <1>7, CapturedIs
  <2>3. ~ Awaited(call)
    BY <1>7 DEF Captured, Arrives, Awaited, Writes
  <2> HIDE DEF others
  <2>4. \A c \in ToSet(calls) : Awaited(c) => c \in ToSet(others)
    BY <1>2, <2>3
  <2>5. playing' => inSimulation'
    BY <2>2 DEF OInv
  <2> QED
    BY <1>2, <1>3, <2>1, <2>2, <2>4, <2>5, JoinOrderly
<1>8. CASE Exited(i)
  <2>1. PICK next : Made(next, {"clears"}) /\ calls' = Append(others, next)
    BY <1>8, ExitedIs
  <2>2. UNCHANGED <<server, inSimulation, playing>>
    BY <1>8, ExitedIs
  <2> HIDE DEF others
  <2>3. Awaited(next) /\ (playing' => inSimulation')
    BY <2>1, <2>2 DEF Made, Awaited, OInv
  <2> QED
    BY <1>2, <1>3, <2>1, <2>2, <2>3, JoinOrderly
<1> QED
  BY <1>5, <1>6, <1>7, <1>8 DEF Continues

LEMMA OrderlyIsUse == OrderlyNext => Next
  BY DEF OrderlyNext, OrderlyUser, OrderlyAnswers, Next, User, Answers

LEMMA InitOInv == Init => OInv
<1> SUFFICES ASSUME Init PROVE OInv
  OBVIOUS
<1>1. calls = <<>> /\ overlay /\ ~ playing /\ IInv
  BY InitIInv DEF Init
<1>2. ToSet(calls) = {} /\ DOMAIN calls = {}
  BY <1>1 DEF ToSet
<1> QED
  BY <1>1, <1>2 DEF OInv, Shown

LEMMA OrderlyStep ==
  ASSUME OInv, OrderlyNext
  PROVE  OInv'
<1>1. IInv'
  BY OrderlyIsUse, NextIInv DEF OInv
<1>2. CASE OrderlyUser \/ Tick
  BY <1>1, <1>2, OrderlyUserStep
<1>3. CASE Handles
  BY <1>1, <1>3, OrderlyHandles DEF Handles
<1>4. CASE OrderlyAnswers
  BY <1>1, <1>4, OrderlyAnswer DEF OrderlyAnswers
<1> QED
  BY <1>2, <1>3, <1>4 DEF OrderlyNext

(* However an orderly user's operations, simulations, exits and boots      *)
(* overlap, when no call is under way and no playback is shown, the screen *)
(* shows the server's cache (app.js:137, 372-390, 431-467).                *)
THEOREM ScreenIsTrue == UsersSpec => []ScreenIsServer
<1> DEFINE Inv == user = "orderly" => OInv
<1>1. ASSUME Inv, [UsersNext]_uses PROVE Inv'
  <2>1. CASE user = "orderly" /\ OrderlyNext /\ UNCHANGED user
    BY <1>1, <2>1, OrderlyStep
  <2>2. CASE user # "orderly" /\ UNCHANGED user
    BY <2>2
  <2>3. CASE UNCHANGED uses
    BY <1>1, <2>3 DEF uses, vars, page, playback, OInv, IInv
  <2> QED
    BY <1>1, <2>1, <2>2, <2>3 DEF UsersNext
<1>2. Inv => ScreenIsServer
  BY DEF OInv, ScreenIsServer, ToSet
<1>3. UsersInit => Inv
  BY InitOInv DEF UsersInit
<1> QED
  BY <1>1, <1>2, <1>3, PTL DEF UsersSpec

-----------------------------------------------------------------------------
(* Hits.  An operation counts at most one.                                 *)

LEMMA ApplyHits ==
  ASSUME NEW s \in Servers, NEW o \in Operation, NEW t \in Apply(s, o)
  PROVE  /\ t.cache.hits \in Nat /\ s.cache.hits \in Nat
         /\ t.cache.hits = IF o.op = "get" /\ Holds(s.cache, o.key) THEN (s.cache.hits + 1) % CounterMod
                                                                     ELSE s.cache.hits
         /\ t.cache.hits <= s.cache.hits + 1
<1> DEFINE c == s.cache
           h == c.hits
<1>1. /\ c = [capacity |-> c.capacity, entries |-> c.entries, hits |-> h,
              misses |-> c.misses, evictions |-> c.evictions]
      /\ h \in Counter
  BY ServerIs, CacheFields
<1>2. t.cache.hits = IF o.op = "get" /\ Holds(s.cache, o.key) THEN (h + 1) % CounterMod ELSE h
  <2>1. CASE o.op = "put"
    <3>1. t.cache = LRU!put(c, Number[o.key], Number[o.value])
      BY <2>1 DEF Apply, put
    <3>2. LRU!put(c, Number[o.key], Number[o.value]).hits = h
      BY <1>1 DEF LRU!put
    <3> QED
      BY <2>1, <3>1, <3>2
  <2>2. CASE o.op = "get"
    <3>1. t.cache = LRU!get(c, Number[o.key])
      BY <2>2 DEF Apply, get
    <3>2. LRU!get(c, Number[o.key]).hits = IF LRU!Has(c, Number[o.key]) THEN (h + 1) % CounterMod ELSE h
      BY <1>1 DEF LRU!get, LRU!Increment
    <3> QED
      BY <2>2, <3>1, <3>2 DEF Holds
  <2>3. CASE o.op = "remove"
    <3>1. t.cache = LRU!remove(c, Number[o.key])
      BY <2>3 DEF Apply, remove
    <3>2. LRU!remove(c, Number[o.key]).hits = h
      BY <1>1 DEF LRU!remove
    <3> QED
      BY <2>3, <3>1, <3>2
  <2> QED
    BY <2>1, <2>2, <2>3 DEF Operation
<1> HIDE DEF h
<1>3. h \in Nat /\ CounterMod \in Nat \ {0}
  BY <1>1, StringsAssumption DEF Counter
<1>4. (h + 1) % CounterMod \in Nat /\ (h + 1) % CounterMod <= h + 1
  BY <1>3
<1> QED
  BY <1>2, <1>3, <1>4 DEF h

LEMMA RunHits ==
  ASSUME NEW s \in Servers, NEW ops \in Seq(Operation), NEW r, IsRun(r, s, ops), NEW k \in 0 .. Len(ops)
  PROVE  r[k + 1].cache.hits \in Nat /\ r[k + 1].cache.hits <= s.cache.hits + k
<1> DEFINE n == Len(ops)
           h(i) == r[i + 1].cache.hits
           before == s.cache.hits
           P == {i \in Nat : i <= n => h(i) \in Nat /\ h(i) <= before + i}
<1>1. n \in Nat /\ r \in Seq(Servers) /\ Len(r) = n + 1 /\ r[1] = s
      /\ \A i \in 1 .. n : r[i + 1] \in Apply(r[i], ops[i]) /\ ops[i] \in Operation
  BY LenProperties, ElementOfSeq DEF IsRun
<1>2. \A i \in 1 .. n + 1 : r[i] \in Servers
  BY <1>1, ElementOfSeq
<1>3. before \in Nat
  BY ServerIs, CacheFields, StringsAssumption DEF Counter
<1>4. 0 \in P
  BY <1>1, <1>3
<1>5. ASSUME NEW i \in Nat, i \in P PROVE i + 1 \in P
  <2> SUFFICES ASSUME i + 1 <= n PROVE h(i + 1) \in Nat /\ h(i + 1) <= before + (i + 1)
    OBVIOUS
  <2>1. i + 1 \in 1 .. n /\ i + 1 \in 1 .. n + 1
    BY <1>1
  <2>2. h(i) \in Nat /\ h(i) <= before + i
    BY <1>1, <1>5
  <2>3. r[i + 1] \in Servers /\ ops[i + 1] \in Operation /\ r[i + 1 + 1] \in Apply(r[i + 1], ops[i + 1])
    BY <1>1, <1>2, <2>1
  <2>4. h(i + 1) \in Nat /\ h(i + 1) <= h(i) + 1
    BY <2>3, ApplyHits
  <2> HIDE DEF h, before
  <2> QED
    BY <1>3, <2>2, <2>4
<1> HIDE DEF P
<1>6. \A i \in Nat : i \in P
  BY <1>4, <1>5, SetInduction
<1>7. k \in Nat /\ k <= n
  BY <1>1
<1> QED
  BY <1>6, <1>7 DEF P

(* The operations that a request asks for.                                 *)
Work(request) ==
  CASE request.api = "batch" -> Len(request.ops)
    [] request.api \in {"put", "get", "remove"} -> 1
    [] OTHER -> 0

LEMMA HandledHits ==
  ASSUME NEW s \in Servers, NEW request \in Request, NEW result \in Handled(s, request),
         request.api = "batch" => request.ops \in Seq(Operation)
  PROVE  /\ result[1].cache.hits \in Nat /\ s.cache.hits \in Nat /\ Work(request) \in Nat
         /\ result[1].cache.hits <= s.cache.hits + Work(request)
         /\ request.api = "state" => result[1] = s
<1>1. request.api \in {"state", "put", "get", "remove", "reset", "batch"}
  BY DEF Request
<1>2. s.cache.hits \in Nat
  BY ServerIs, CacheFields, StringsAssumption DEF Counter
<1>3. CASE request.api = "state"
  BY <1>2, <1>3 DEF Handled, Work
<1>4. CASE request.api \in {"put", "get", "remove"}
  <2>1. CASE HasEmpty(request)
    <3>1. result[1] = s
      BY <1>4, <2>1 DEF Handled
    <3>2. Work(request) = 1
      BY <1>4 DEF Work
    <3> QED
      BY <1>2, <1>4, <3>1, <3>2
  <2>2. CASE ~ HasEmpty(request)
    <3> DEFINE o == AsOperation(request)
    <3>1. o \in Operation
      BY <1>4, <2>2, AsOperationIs
    <3>2. PICK t \in Apply(s, o) : result = <<t, Answer(<<json_state(t)>>, <<Effect(s, o)>>)>>
      BY <1>4, <2>2 DEF Handled
    <3>3. result[1] = t
      BY <3>2
    <3>4. Work(request) = 1
      BY <1>4 DEF Work
    <3> HIDE DEF o
    <3> QED
      BY <1>4, <3>1, <3>3, <3>4, ApplyHits
  <2> QED
    BY <2>1, <2>2
<1>5. CASE request.api = "reset"
  <2> DEFINE c == CacheOf(ResetCapacity(request.capacity))
  <2>1. result[1] = [s EXCEPT !.cache = c]
    BY <1>5 DEF Handled
  <2>2. c.hits = 0
    BY DEF CacheOf, LRU!NewLru
  <2> HIDE DEF c
  <2>3. result[1].cache = c
    BY <2>1, ServerIs
  <2>4. Work(request) = 0
    BY <1>5 DEF Work
  <2> QED
    BY <1>2, <1>5, <2>2, <2>3, <2>4
<1>6. CASE request.api = "batch"
  <2> DEFINE n == Len(request.ops)
  <2>1. request.ops \in Seq(Operation) /\ request.ops \in Seq(Token) /\ n \in Nat
    BY <1>6, LenProperties, OperationsAreTokens
  <2>2. PICK r : IsRun(r, s, request.ops) /\ result[1] = r[n + 1]
    BY <1>6, <2>1, BatchIs
  <2>3. n \in 0 .. n
    BY <2>1
  <2>4. Work(request) = n
    BY <1>6 DEF Work
  <2> QED
    BY <1>2, <1>6, <2>1, <2>2, <2>3, <2>4, RunHits
<1> QED
  BY <1>1, <1>3, <1>4, <1>5, <1>6

(* A get that is told from the hits before it is told truly.               *)
LEMMA HitIsHeld ==
  ASSUME NEW s \in Servers, NEW o \in Operation, o.op = "get", NEW t \in Apply(s, o),
         s.cache.hits + 1 < CounterMod
  PROVE  HitOrMiss(t.cache.hits, s.cache.hits) = Effect(s, o)
<1> DEFINE h == s.cache.hits
           q == t.cache.hits
<1>1. h \in Nat /\ CounterMod \in Nat \ {0} /\ h + 1 < CounterMod
      /\ q = IF Holds(s.cache, o.key) THEN (h + 1) % CounterMod ELSE h
  BY ApplyHits, StringsAssumption
<1> HIDE DEF h, q
<1>2. (h + 1) % CounterMod = h + 1
  BY <1>1
<1>3. q > h <=> Holds(s.cache, o.key)
  BY <1>1, <1>2
<1>4. Effect(s, o) = IF Holds(s.cache, o.key) THEN "HIT" ELSE "MISS"
  BY DEF Effect
<1>5. HitOrMiss(q, h) = IF q > h THEN "HIT" ELSE "MISS"
  BY DEF HitOrMiss
<1> QED
  BY <1>3, <1>4, <1>5 DEF h, q

(* The same of a request.                                                  *)
LEMMA HandledGet ==
  ASSUME NEW s \in Servers, NEW request \in Request, request.api = "get", ~ HasEmpty(request),
         s.cache.hits + 1 < CounterMod, NEW result \in Handled(s, request)
  PROVE  HitOrMiss(result[2].states[1].hits, s.cache.hits) = result[2].effects[1]
<1> DEFINE o == AsOperation(request)
<1>1. o \in Operation /\ o.op = "get"
  BY AsOperationIs DEF AsOperation
<1>2. PICK t \in Apply(s, o) : result = <<t, Answer(<<json_state(t)>>, <<Effect(s, o)>>)>>
  BY DEF Handled
<1>3. result[2] = Answer(<<json_state(t)>>, <<Effect(s, o)>>)
  BY <1>2
<1>4. result[2].states[1] = json_state(t) /\ result[2].effects[1] = Effect(s, o)
  BY <1>3 DEF Answer
<1> HIDE DEF o
<1>5. t \in Servers
  BY <1>1, ApplyIs DEF Token
<1>6. json_state(t).hits = t.cache.hits
  BY <1>5, StateIs
<1> QED
  BY <1>1, <1>4, <1>6, HitIsHeld
-----------------------------------------------------------------------------
(* What a patient user does.                                               *)

(* What is asked for when nothing is under way and the server is s.        *)
AsksFor(call, s) ==
  /\ call.answer = NoAnswer /\ call.task # "simulates"
  /\ call.request.api = "get" =>
       call.task = "executeOp" /\ call.request \in UserRequests /\ call.locals.prevHits = s.cache.hits
  /\ call.task = "captures" => call.locals.ops \in SimOps

LEMMA WhatIsAsked ==
  ASSUME PInv, PatientUser \/ Tick
  PROVE  /\ calls = <<>> /\ UNCHANGED <<server, told, simHistory>>
         /\ \/ UNCHANGED <<calls, issued>>
            \/ \E call : UserCalls(call) /\ AsksFor(call, server)
<1>1. /\ calls = <<>> /\ server \in Servers
  BY DEF PInv, PatientUser, IInv, Tick
<1>2. CASE Tick
  BY <1>1, <1>2 DEF Tick, stepSim
<1>3. CASE ~ inSimulation /\ executeOp
  <2>1. UNCHANGED <<server, told, simHistory>> /\ ~ overlay
    BY <1>3 DEF executeOp, page, playback
  <2>2. CASE \E request \in UserRequests : UserCalls(reqApi("executeOp", request))
    <3> DEFINE locals == [prevHits |-> screen.hits]
    <3>1. PICK request \in UserRequests : UserCalls(Fetch("executeOp", request, locals))
      BY <2>2 DEF reqApi
    <3> DEFINE call == Fetch("executeOp", request, locals)
    <3>2. locals.prevHits = server.cache.hits
      BY <1>1, <1>3, <2>1, StateIs DEF PInv, ScreenFollows
    <3> HIDE DEF locals
    <3>3. AsksFor(call, server)
      BY <3>2, FetchIs DEF AsksFor
    <3> QED
      BY <1>1, <2>1, <3>1, <3>3
  <2>3. CASE \E n \in SimOps : UserCalls(Fetch("captures", [api |-> "state"], [ops |-> n]))
    <3>1. PICK n \in SimOps : UserCalls(Fetch("captures", [api |-> "state"], [ops |-> n]))
      BY <2>3
    <3> DEFINE request == [api |-> "state"]
               locals == [ops |-> n]
               call == Fetch("captures", request, locals)
    <3>2. locals.ops \in SimOps /\ request.api = "state"
      OBVIOUS
    <3> HIDE DEF locals, request
    <3>3. AsksFor(call, server)
      BY <3>2, FetchIs DEF AsksFor
    <3> QED
      BY <1>1, <2>1, <3>1, <3>3 DEF locals, request
  <2> QED
    BY <1>3, <2>2, <2>3 DEF executeOp
<1>4. CASE toggleAutoPlay \/ Step \/ (~ playing /\ showBootScreen)
  BY <1>1, <1>4 DEF toggleAutoPlay, Step, stepSim, showBootScreen
<1>5. CASE exitSim
  <2> DEFINE request == [api |-> "state"]
             locals == [none |-> 0]
             call == Fetch("exits", request, locals)
  <2>1. UserCalls(call) /\ UNCHANGED <<server, told, simHistory>>
    BY <1>5 DEF exitSim
  <2>2. request.api = "state"
    OBVIOUS
  <2> HIDE DEF locals, request
  <2>3. AsksFor(call, server)
    BY <2>2, FetchIs DEF AsksFor
  <2> QED
    BY <1>1, <2>1, <2>3
<1>6. CASE bootSystem
  <2> DEFINE locals == [prevHits |-> screen.hits]
             request(cap) == [api |-> "reset", capacity |-> cap]
             call(cap) == Fetch("bootSystem", request(cap), locals)
  <2>1. PICK cap \in BootCapacities : UserCalls(call(cap))
    BY <1>6 DEF bootSystem, reqApi
  <2>2. UNCHANGED <<server, told, simHistory>>
    BY <1>6 DEF bootSystem, playback
  <2>3. request(cap).api = "reset"
    OBVIOUS
  <2> HIDE DEF locals, request
  <2>4. AsksFor(call(cap), server)
    BY <2>3, FetchIs DEF AsksFor
  <2> QED
    BY <1>1, <2>1, <2>2, <2>4
<1> QED
  BY <1>2, <1>3, <1>4, <1>5, <1>6 DEF PatientUser

(* The answer that goes to a patient user's only call.                     *)
LEMMA WhatIsAnswered ==
  ASSUME PInv, Handles
  PROVE  \E call, result :
           /\ calls = <<call>> /\ Fits(call) /\ Proper(call, server) /\ call.answer = NoAnswer
           /\ call.request \in Request /\ server \in Servers
           /\ result \in Handled(server, call.request) /\ server' = result[1]
           /\ calls' = <<Answered(call, result[2])>>
           /\ UNCHANGED <<issued, told, simHistory>>
<1>1. PICK i \in DOMAIN calls : Handle(i)
  BY DEF Handles
<1>2. /\ RemoveAt(calls, i) = <<>> /\ calls = <<calls[i]>> /\ server \in Servers
      /\ Proper(calls[i], server) /\ CallsFit(calls, simHistory) /\ calls[i].answer = NoAnswer
  BY <1>1, OnlyCall DEF PInv, IInv, Handle
<1>3. PICK result \in Handled(server, calls[i].request) :
        LET answered == Answered(calls[i], result[2])
        IN  /\ server' = result[1] /\ calls' = Append(<<>>, answered) /\ Fits(calls[i])
  BY <1>1, <1>2, HandleIs DEF Proper
<1> DEFINE call == calls[i]
           answered == Answered(call, result[2])
<1>4. calls' = <<answered>>
  BY <1>3
<1>6. UNCHANGED <<issued, told, simHistory>> /\ call.request \in Request
  BY <1>1, <1>3 DEF Handle, page, playback, Fits
<1>7. /\ calls = <<call>> /\ Fits(call) /\ Proper(call, server) /\ call.answer = NoAnswer
      /\ result \in Handled(server, call.request) /\ server' = result[1] /\ server \in Servers
  BY <1>2, <1>3
<1> HIDE DEF answered, call
<1> QED
  BY <1>4, <1>6, <1>7 DEF answered

-----------------------------------------------------------------------------
(* The hits that a patient user is told of.                                *)

(* The operations of the call are not done.                                *)
Pending(call) == call.task \in {"captures", "exits"} \/ call.answer = NoAnswer

Done(cs, asked) == IF \E i \in DOMAIN cs : Pending(cs[i]) THEN asked - 1 ELSE asked

ToldOf(call, s) ==
  /\ call.task = "captures" => call.locals.ops \in SimOps
  /\ call.task = "simulates" => Len(call.request.ops) \in SimOps
  /\ call.request.api = "get" =>
       IF call.answer = NoAnswer
       THEN call.task = "executeOp" /\ call.request \in UserRequests /\ call.locals.prevHits = s.cache.hits
       ELSE HitOrMiss(call.answer.states[1].hits, call.locals.prevHits) = call.answer.effects[1]

HInv ==
  /\ \A n \in Nat : Longest(n) => server.cache.hits <= Done(calls, issued) * n
  /\ \A i \in DOMAIN calls : ToldOf(calls[i], server)
  /\ HitMissTruth

LEMMA Multiples ==
  ASSUME NEW a \in Nat, NEW b \in Nat, NEW n \in Nat, a <= b
  PROVE  a * n \in Nat /\ b * n \in Nat /\ a * n <= b * n /\ (a + 1) * n = a * n + n
<1>1. a * n \in Nat /\ b * n \in Nat /\ (a + 1) * n = a * n + n
  OBVIOUS
<1>2. b = a + (b - a) /\ b - a \in Nat
  OBVIOUS
<1>3. (b - a) * n \in Nat
  BY <1>2
<1>4. (b - a) * n = b * n - a * n
  BY <1>2
<1> QED
  BY <1>1, <1>3, <1>4

LEMMA LongestIs ==
  ASSUME NEW n \in Nat, Longest(n)
  PROVE  n >= 1 /\ \A m \in SimOps : m <= n
  BY DEF Longest

LEMMA DoneIs ==
  /\ \A asked : Done(<<>>, asked) = asked
  /\ \A call, asked : Done(<<call>>, asked) = IF Pending(call) THEN asked - 1 ELSE asked
<1>1. \A asked : Done(<<>>, asked) = asked
  BY DEF Done
<1>2. ASSUME NEW call, NEW asked PROVE Done(<<call>>, asked) = IF Pending(call) THEN asked - 1 ELSE asked
  <2>1. DOMAIN <<call>> = {1} /\ <<call>>[1] = call
    OBVIOUS
  <2> QED
    BY <2>1, Zenon DEF Done
<1> QED
  BY <1>1, <1>2

(* The calls of a patient user are in order.                               *)
LEMMA IssuedIs ==
  ASSUME PInv
  PROVE  /\ issued \in Nat /\ MaxCalls \in Nat /\ issued <= MaxCalls
         /\ calls # <<>> => issued - 1 \in Nat
         /\ \A i \in DOMAIN calls : calls # <<>> /\ calls = <<calls[i]>>
<1>1. /\ issued \in 0 .. MaxCalls /\ MaxCalls \in Nat /\ Len(calls) <= issued
      /\ IsSequence(calls)
  BY DashboardAssumption DEF PInv, IInv, CallsFit
<1>2. Len(calls) \in Nat /\ (calls # <<>> => Len(calls) > 0)
  BY <1>1, SequenceDomain
<1> QED
  BY <1>1, <1>2, OnlyCall DEF PInv

(* The server has counters left for what it is asked.                      *)
LEMMA CountersLeft ==
  ASSUME PInv, HInv, CountersSuffice, NEW call, calls = <<call>>, call.answer = NoAnswer
  PROVE  \A m \in SimOps \cup {1} : server.cache.hits + m < CounterMod
<1> DEFINE h == server.cache.hits
           before == issued - 1
<1>1. PICK n \in SimOps \cup {1} : Longest(n) /\ MaxCalls * n < CounterMod
  BY DEF CountersSuffice
<1>2. n \in Nat /\ CounterMod \in Nat /\ SimOps \cup {1} \subseteq Nat
  BY DashboardAssumption, StringsAssumption
<1>3. h \in Nat
  <2>1. server \in Servers
    BY DEF PInv, IInv
  <2> QED
    BY <2>1, ServerIs, CacheFields, StringsAssumption DEF Counter
<1>4. before \in Nat /\ issued = before + 1 /\ issued <= MaxCalls /\ MaxCalls \in Nat
  BY IssuedIs
<1>5. Done(calls, issued) = before
  BY DoneIs DEF Pending
<1>6. h <= before * n
  BY <1>1, <1>2, <1>5 DEF HInv
<1>7. before * n \in Nat /\ (before + 1) * n = before * n + n
  BY <1>2, <1>4, Multiples
<1>8. (before + 1) * n \in Nat /\ MaxCalls * n \in Nat /\ (before + 1) * n <= MaxCalls * n
  BY <1>2, <1>4, Multiples
<1> DEFINE a == before * n
           b == MaxCalls * n
           d == (before + 1) * n
<1>9. a \in Nat /\ b \in Nat /\ d = a + n /\ d <= b /\ b < CounterMod /\ h <= a
  BY <1>1, <1>6, <1>7, <1>8
<1> HIDE DEF a, b, d, h
<1>10. h + n < CounterMod
  BY <1>2, <1>3, <1>9
<1>11. \A m \in SimOps \cup {1} : m <= n
  BY <1>1 DEF Longest
<1> QED
  BY <1>2, <1>3, <1>10, <1>11 DEF h

LEMMA HitsAsked ==
  ASSUME PInv, HInv, PatientUser \/ Tick
  PROVE  HInv'
<1>1. calls = <<>> /\ UNCHANGED <<server, told, simHistory>> /\ HitMissTruth'
  BY WhatIsAsked DEF HInv, HitMissTruth
<1>2. CASE UNCHANGED <<calls, issued>>
  BY <1>1, <1>2 DEF HInv
<1>3. CASE \E call : UserCalls(call) /\ AsksFor(call, server)
  <2>1. PICK call : UserCalls(call) /\ AsksFor(call, server)
    BY <1>3
  <2>2. calls' = <<call>> /\ issued' = issued + 1 /\ Pending(call)
    BY <1>1, <2>1 DEF UserCalls, AsksFor, Pending
  <2>3. Done(calls', issued') = issued' - 1 /\ Done(calls, issued) = issued
    BY <1>1, <2>2, DoneIs
  <2>4. Done(calls', issued') = Done(calls, issued)
    BY <2>2, <2>3, IssuedIs
  <2>5. ToldOf(call, server)
    BY <2>1 DEF AsksFor, ToldOf
  <2>6. \A i \in DOMAIN calls' : calls'[i] = call
    BY <2>2
  <2> QED
    BY <1>1, <2>4, <2>5, <2>6 DEF HInv
<1> QED
  BY <1>2, <1>3, WhatIsAsked

LEMMA HitsHandled ==
  ASSUME PInv, HInv, Handles, CountersSuffice
  PROVE  HInv'
<1>1. PICK call, result :
           /\ calls = <<call>> /\ Fits(call) /\ Proper(call, server) /\ call.answer = NoAnswer
           /\ call.request \in Request /\ server \in Servers
           /\ result \in Handled(server, call.request) /\ server' = result[1]
           /\ calls' = <<Answered(call, result[2])>>
           /\ UNCHANGED <<issued, told, simHistory>>
  BY WhatIsAnswered
<1> DEFINE answered == Answered(call, result[2])
           request == call.request
           h == server.cache.hits
           before == issued - 1
<1>2. /\ answered.task = call.task /\ answered.request = request /\ answered.locals = call.locals
      /\ answered.answer = result[2] /\ calls' = <<answered>>
  BY <1>1 DEF Answered
<1> HIDE DEF answered
<1>3. result[2] \in AnswerType /\ result[2] # NoAnswer
  BY <1>1, HandledFits, DashboardAssumption
<1>a. request.api = "batch" => call.task = "simulates" /\ request.ops \in Seq(Operation)
  BY <1>1, DashboardAssumption DEF Fits, Tasks, Proper
<1>4. /\ h \in Nat /\ server'.cache.hits \in Nat /\ Work(request) \in Nat
      /\ server'.cache.hits <= h + Work(request)
      /\ request.api = "state" => server' = server
  BY <1>1, <1>a, HandledHits
<1>5. before \in Nat /\ issued = before + 1 /\ issued <= MaxCalls /\ MaxCalls \in Nat
  BY <1>1, IssuedIs
<1>6. Done(calls, issued) = before /\ Done(calls', issued') = IF Pending(answered) THEN before ELSE before + 1
  BY <1>1, <1>2, <1>5, DoneIs DEF Pending
<1>7. \A n \in Nat : Longest(n) => h <= before * n
  BY <1>6 DEF HInv
<1>8. ToldOf(call, server)
  BY <1>1 DEF HInv
<1> HIDE DEF h, before, request
<1>9. ASSUME NEW n \in Nat, Longest(n)
      PROVE  server'.cache.hits <= Done(calls', issued') * n
  <2>1. CASE call.task \in {"captures", "exits"}
    <3>1. request.api = "state" /\ Pending(answered)
      BY <1>1, <1>2, <2>1 DEF Fits, Pending, request
    <3> QED
      BY <1>4, <1>6, <1>7, <1>9, <3>1 DEF h
  <2>2. CASE call.task \notin {"captures", "exits"}
    <3>1. ~ Pending(answered)
      BY <1>2, <1>3, <2>2 DEF Pending
    <3>2. Work(request) <= n
      <4>1. CASE request.api = "batch"
        <5>1. call.task = "simulates"
          BY <1>a, <4>1 DEF request
        <5> QED
          BY <1>8, <1>9, <4>1, <5>1, LongestIs DEF ToldOf, Work, request
      <4>2. CASE request.api # "batch"
        <5>1. Work(request) = 1 \/ Work(request) = 0
          BY <4>2 DEF Work
        <5> QED
          BY <1>9, <5>1, LongestIs
      <4> QED
        BY <4>1, <4>2
    <3>3. before * n \in Nat /\ (before + 1) * n = before * n + n
      BY <1>5, Multiples
    <3>4. h <= before * n
      BY <1>7, <1>9
    <3>5. server'.cache.hits <= (before + 1) * n
      BY <1>4, <3>2, <3>3, <3>4
    <3> QED
      BY <1>6, <3>1, <3>5
  <2> QED
    BY <2>1, <2>2
<1>10. ASSUME request.api = "get"
       PROVE  HitOrMiss(result[2].states[1].hits, answered.locals.prevHits) = result[2].effects[1]
  <2>1. request \in UserRequests /\ call.locals.prevHits = h
    BY <1>1, <1>8, <1>10 DEF ToldOf, request, h
  <2>2. ~ HasEmpty(request)
    BY <1>10, <2>1, DashboardAssumption DEF HasEmpty
  <2>3. h + 1 < CounterMod
    BY <1>1, CountersLeft DEF h
  <2>4. HitOrMiss(result[2].states[1].hits, h) = result[2].effects[1]
    BY <1>1, <1>10, <2>2, <2>3, HandledGet DEF h, request
  <2> QED
    BY <1>2, <2>1, <2>4
<1>11. ToldOf(answered, server')
  BY <1>2, <1>3, <1>8, <1>10 DEF ToldOf, request
<1>12. \A i \in DOMAIN calls' : calls'[i] = answered
  BY <1>2
<1>13. HitMissTruth'
  BY <1>1 DEF HInv, HitMissTruth
<1> QED
  BY <1>9, <1>11, <1>12, <1>13 DEF HInv

LEMMA HitsAnswered ==
  ASSUME PInv, HInv, Answers
  PROVE  HInv'
<1>1. PICK i \in DOMAIN calls : Returns(i) \/ Captured(i) \/ Simulated(i) \/ Exited(i)
  BY DEF Answers, Continues
<1> DEFINE call == calls[i]
<1>2. /\ RemoveAt(calls, i) = <<>> /\ Fits(call) /\ calls = <<call>> /\ ToldOf(call, server)
      /\ Proper(call, server) /\ server \in Servers /\ HitMissTruth
  BY OnlyCall DEF PInv, IInv, HInv
<1>3. call.answer # NoAnswer
  BY <1>1 DEF Returns, Captured, Simulated, Exited, Arrives
<1>4. issued \in Nat /\ Done(calls, issued) = IF call.task \in {"captures", "exits"} THEN issued - 1 ELSE issued
  BY <1>2, <1>3, IssuedIs, DoneIs DEF Pending
<1>5. /\ \A n \in Nat : Longest(n) => server.cache.hits <= Done(calls, issued) * n
  BY DEF HInv
<1>6. CASE Returns(i)
  <2>1. /\ call.task \in {"executeOp", "bootSystem", "clears"} /\ calls' = <<>>
        /\ told' = IF call.request.api = "get"
                    THEN [claim |-> HitOrMiss(call.answer.states[1].hits, call.locals.prevHits),
                          truth |-> call.answer.effects[1]]
                    ELSE told
        /\ UNCHANGED <<server, issued>>
    BY <1>2, <1>6 DEF Returns, Arrives
  <2>2. HitMissTruth'
    BY <1>2, <1>3, <2>1 DEF ToldOf, HitMissTruth
  <2>3. Done(calls', issued') = Done(calls, issued)
    BY <1>4, <2>1, DoneIs
  <2> QED
    BY <1>5, <2>1, <2>2, <2>3 DEF HInv
<1>7. CASE Captured(i)
  <2> DEFINE state == call.answer.states[1]
             locals(g) == [state |-> state, shadow |-> g.shadow]
             request(g) == [api |-> "batch", ops |-> g.ops]
             batch(g) == Fetch("simulates", request(g), locals(g))
  <2>1. call.task = "captures"
    BY <1>7 DEF Captured, Arrives
  <2>2. PICK g \in Generated(state, call.locals.ops) : calls' = Append(<<>>, batch(g))
    BY <1>2, <1>7 DEF Captured
  <2>3. UNCHANGED <<server, issued, told>>
    BY <1>7 DEF Captured
  <2>4. state \in StateType /\ call.locals.ops \in SimOps /\ call.locals.ops \in Nat
    BY <1>2, <1>3, <2>1, StateIs DEF Proper, ToldOf, Fits
  <2>5. Len(g.ops) \in SimOps
    BY <2>2, <2>4, GeneratedIs
  <2>6. request(g).api = "batch" /\ request(g).ops = g.ops
    OBVIOUS
  <2> HIDE DEF state, locals, request
  <2>7. ToldOf(batch(g), server) /\ Pending(batch(g))
    BY <2>5, <2>6, FetchIs DEF ToldOf, Pending
  <2> HIDE DEF batch
  <2>8. calls' = <<batch(g)>>
    BY <2>2
  <2>9. Done(calls', issued') = Done(calls, issued)
    BY <1>4, <2>1, <2>3, <2>7, <2>8, DoneIs
  <2>10. \A j \in DOMAIN calls' : calls'[j] = batch(g)
    BY <2>8
  <2>11. HitMissTruth'
    BY <1>2, <2>3 DEF HitMissTruth
  <2> QED
    BY <1>5, <2>3, <2>7, <2>9, <2>10, <2>11 DEF HInv
<1>8. CASE Simulated(i)
  <2>1. call.task = "simulates" /\ calls' = <<>> /\ UNCHANGED <<server, issued, told>>
    BY <1>2, <1>8 DEF Simulated, Arrives
  <2>2. Done(calls', issued') = Done(calls, issued)
    BY <1>4, <2>1, DoneIs
  <2>3. HitMissTruth'
    BY <1>2, <2>1 DEF HitMissTruth
  <2> QED
    BY <1>5, <2>1, <2>2, <2>3 DEF HInv
<1>9. CASE Exited(i)
  <2> DEFINE locals == [prevHits |-> screen.hits]
             request == [api |-> "reset", capacity |-> call.answer.states[1].capacity]
             next == Fetch("clears", request, locals)
  <2>1. call.task = "exits" /\ calls' = Append(<<>>, next) /\ UNCHANGED <<server, issued, told>>
    BY <1>2, <1>9 DEF Exited, Arrives, reqApi, page
  <2>2. request.api = "reset"
    OBVIOUS
  <2> HIDE DEF locals, request
  <2>3. ToldOf(next, server) /\ Pending(next)
    BY <2>2, FetchIs DEF ToldOf, Pending
  <2> HIDE DEF next
  <2>4. calls' = <<next>>
    BY <2>1
  <2>5. Done(calls', issued') = Done(calls, issued)
    BY <1>4, <2>1, <2>3, <2>4, DoneIs
  <2>6. \A j \in DOMAIN calls' : calls'[j] = next
    BY <2>4
  <2>7. HitMissTruth'
    BY <1>2, <2>1 DEF HitMissTruth
  <2> QED
    BY <1>5, <2>1, <2>3, <2>5, <2>6, <2>7 DEF HInv
<1> QED
  BY <1>1, <1>6, <1>7, <1>8, <1>9

LEMMA InitHInv == Init => HInv
<1> SUFFICES ASSUME Init PROVE HInv
  OBVIOUS
<1>1. calls = <<>> /\ issued = 0 /\ server.cache.hits = 0 /\ HitMissTruth
  BY DEF Init, NewServer, CacheOf, LRU!NewLru, HitMissTruth
<1>2. Done(calls, issued) = 0
  BY <1>1, DoneIs
<1>3. \A n \in Nat : 0 * n = 0
  OBVIOUS
<1> QED
  BY <1>1, <1>2, <1>3 DEF HInv

LEMMA NextHInv ==
  ASSUME CountersSuffice
  PROVE  PInv /\ HInv /\ [PatientNext]_vars => HInv'
<1> SUFFICES ASSUME PInv, HInv, [PatientNext]_vars PROVE HInv'
  OBVIOUS
<1>1. CASE UNCHANGED vars
  BY <1>1 DEF vars, page, HInv, HitMissTruth
<1> QED
  BY <1>1, HitsAsked, HitsHandled, HitsAnswered DEF PatientNext

(* A patient user who does not make the counters wrap, 2^64 in the code,   *)
(* is told HIT or MISS as it was, also in the first get after a boot, a    *)
(* simulation and an exit (app.js:126, 131-137).                           *)
THEOREM HitMissIsTrue ==
  ASSUME CountersSuffice
  PROVE  PatientSpec => []HitMissTruth
<1>1. HInv => HitMissTruth
  BY DEF HInv
<1> QED
  BY <1>1, InitPInv, NextPInv, InitHInv, NextHInv, PTL DEF PatientSpec

-----------------------------------------------------------------------------
(* The shadow.  It mirrors the entries of the cache when no number has two *)
(* spellings: the registry shows a key as it was typed last.               *)

Mirrors(shadow, e) ==
  /\ shadow \in Seq(Strings) /\ Len(shadow) = Len(e)
  /\ \A i \in 1 .. Len(e) : shadow[i] = Decimal[e[(Len(e) - i) + 1].key]

LEMMA DecimalIs ==
  ASSUME OneSpelling
  PROVE  /\ \A n \in Numbers : Decimal[n] \in Strings /\ Number[Decimal[n]] = n
         /\ \A s \in Strings : Number[s] \in Numbers /\ Decimal[Number[s]] = s
         /\ \A registry, n : Faithful(registry) /\ n \in Numbers => StringOf(registry, n) = Decimal[n]
<1>1. \A n \in Numbers : Decimal[n] \in Strings /\ Number[Decimal[n]] = n
  BY StringsAssumption
<1>2. \A s \in Strings : Number[s] \in Numbers /\ Decimal[Number[s]] = s
  BY <1>1, NumberIs DEF OneSpelling
<1>3. ASSUME NEW registry, NEW n, Faithful(registry), n \in Numbers PROVE StringOf(registry, n) = Decimal[n]
  BY <1>1, <1>3, StringOfIs DEF OneSpelling
<1> QED
  BY <1>1, <1>2, <1>3

LEMMA MirrorsOne ==
  ASSUME NEW e, Len(e) \in Nat, NEW p, Mirrors(p, e), NEW q, Mirrors(q, e)
  PROVE  p = q
<1>1. /\ p \in Seq(Strings) /\ q \in Seq(Strings) /\ Len(p) = Len(e) /\ Len(q) = Len(e)
      /\ \A i \in 1 .. Len(e) : p[i] = q[i]
  BY DEF Mirrors
<1> QED
  BY <1>1

LEMMA SyncedMirrors ==
  ASSUME OneSpelling, NEW s \in Servers
  PROVE  Mirrors(Synced(json_state(s)), s.cache.entries)
<1> DEFINE e == s.cache.entries
           nodes == json_state(s).nodes
           keys == Keys(nodes)
           m == Len(e)
<1>1. /\ nodes \in Seq([key : Strings, value : Strings]) /\ Len(nodes) = m /\ m \in Nat
      /\ \A i \in 1 .. m : nodes[i].key = StringOf(s.registry, e[i].key)
      /\ \A i \in 1 .. m : e[i].key \in Numbers
  <2>1. e \in Seq(EntryType) /\ m \in Nat
    BY ServerIs, CacheFields
  <2>2. \A i \in 1 .. m : e[i] \in EntryType
    BY <2>1, ElementOfSeq
  <2>3. \A i \in 1 .. m : e[i].key \in Numbers
    BY <2>2 DEF EntryType
  <2> QED
    BY <2>1, <2>3, StateIs DEF StateType
<1>2. \A i \in 1 .. m : nodes[i].key = Decimal[e[i].key]
  BY <1>1, DecimalIs, ServerIs
<1> HIDE DEF nodes, e
<1>3. keys \in Seq(Strings) /\ Len(keys) = m /\ \A i \in 1 .. m : keys[i] = Decimal[e[i].key]
  BY <1>1, <1>2, KeysIs
<1>4. Synced(json_state(s)) = Reverse(keys)
  BY DEF Synced, nodes
<1> HIDE DEF keys
<1>5. /\ Reverse(keys) \in Seq(Strings) /\ Len(Reverse(keys)) = m
      /\ \A i \in 1 .. m : Reverse(keys)[i] = keys[(m - i) + 1]
  BY <1>3, ReverseIs
<1>6. \A i \in 1 .. m : (m - i) + 1 \in 1 .. m
  BY <1>1
<1>7. \A i \in 1 .. m : Reverse(keys)[i] = Decimal[e[(m - i) + 1].key]
  BY <1>3, <1>5, <1>6
<1> QED
  BY <1>4, <1>5, <1>7 DEF Mirrors, e

(* A key is in the shadow as its number is in the cache.                   *)
LEMMA MirrorsHas ==
  ASSUME OneSpelling, NEW caps, NEW c \in CachesOf(caps), NEW q, Mirrors(q, c.entries), NEW key \in Strings
  PROVE  /\ key \in ToSet(q) <=> LRU!Has(c, Number[key])
         /\ \A j \in 1 .. Len(q) : q[j] = key <=> c.entries[(Len(q) - j) + 1].key = Number[key]
<1> DEFINE e == c.entries
           m == Len(e)
<1>1. /\ e \in Seq(EntryType) /\ m \in Nat /\ DOMAIN e = 1 .. m
      /\ DOMAIN q = 1 .. m /\ Len(q) = m
      /\ \A i \in 1 .. m : q[i] = Decimal[e[(m - i) + 1].key]
  <2>1. e \in Seq(EntryType) /\ m \in Nat /\ DOMAIN e = 1 .. m
    BY CacheFields
  <2>2. q \in Seq(Strings) /\ Len(q) = m /\ \A i \in 1 .. m : q[i] = Decimal[e[(m - i) + 1].key]
    BY DEF Mirrors
  <2> QED
    BY <2>1, <2>2
<1>2. \A i \in 1 .. m : e[i].key \in Numbers
  <2>1. \A i \in 1 .. m : e[i] \in EntryType
    BY <1>1, ElementOfSeq
  <2> QED
    BY <2>1 DEF EntryType
<1> HIDE DEF e
<1>3. \A i \in 1 .. m : (m - i) + 1 \in 1 .. m /\ (m - ((m - i) + 1)) + 1 = i
  BY <1>1
<1>4. \A j \in 1 .. m : q[j] = key <=> e[(m - j) + 1].key = Number[key]
  BY <1>1, <1>2, <1>3, DecimalIs
<1>5. ASSUME key \in ToSet(q) PROVE LRU!Has(c, Number[key])
  <2>1. PICK j \in 1 .. m : q[j] = key
    BY <1>1, <1>5 DEF ToSet
  <2>2. (m - j) + 1 \in DOMAIN e /\ e[(m - j) + 1].key = Number[key]
    BY <1>1, <1>3, <1>4, <2>1
  <2> QED
    BY <2>2 DEF LRU!Has, e
<1>6. ASSUME LRU!Has(c, Number[key]) PROVE key \in ToSet(q)
  <2>1. PICK i \in 1 .. m : e[i].key = Number[key]
    BY <1>1, <1>6 DEF LRU!Has, e
  <2>2. (m - i) + 1 \in 1 .. m /\ q[(m - i) + 1] = key
    BY <1>3, <1>4, <2>1
  <2> QED
    BY <1>1, <2>2 DEF ToSet
<1> QED
  BY <1>1, <1>4, <1>5, <1>6 DEF e

LEMMA MirrorsDeleted ==
  ASSUME OneSpelling, NEW caps, NEW c \in CachesOf(caps), NEW q, Mirrors(q, c.entries), NEW key \in Strings
  PROVE  Mirrors(Deleted(q, key), LRU!Others(c, Number[key]))
<1> DEFINE n == Number[key]
<1>1. CASE ~ LRU!Has(c, n)
  BY <1>1, MirrorsHas DEF Deleted, LRU!Others
<1>2. CASE LRU!Has(c, n)
  <2> DEFINE e == c.entries
             m == Len(e)
             p == LRU!Position(c, n)
             r == LRU!Others(c, n)
             j == CHOOSE i \in DOMAIN q : q[i] = key
             d == Deleted(q, key)
  <2>1. /\ e \in Seq(EntryType) /\ m \in Nat /\ DOMAIN e = 1 .. m /\ UniqueKeys(e)
        /\ q \in Seq(Strings) /\ DOMAIN q = 1 .. m /\ Len(q) = m
        /\ \A i \in 1 .. m : q[i] = Decimal[e[(m - i) + 1].key]
    BY CacheFields DEF Mirrors
  <2>2. p \in 1 .. m /\ e[p].key = n
    BY <1>2, <2>1 DEF LRU!Has, LRU!Position
  <2>3. r = WithoutAt(e, p)
    BY <1>2 DEF LRU!Others, LRU!Before, LRU!After, WithoutAt
  <2>4. key \in ToSet(q)
    BY <1>2, MirrorsHas
  <2>5. j \in 1 .. m /\ q[j] = key
    BY <2>1, <2>4 DEF ToSet
  <2>6. d = WithoutAt(q, j)
    BY <2>4 DEF Deleted, RemoveAt, WithoutAt
  <2> HIDE DEF j, d, r, p
  <2>7. (m - j) + 1 = p
    <3>1. (m - j) + 1 \in 1 .. m
      BY <2>1, <2>5
    <3>2. e[(m - j) + 1].key = n
      BY <2>1, <2>5, MirrorsHas
    <3>3. \A a, b \in 1 .. m : e[a].key = e[b].key => a = b
      BY <2>1 DEF UniqueKeys
    <3> HIDE DEF e
    <3> QED
      BY <2>2, <3>1, <3>2, <3>3
  <2> HIDE DEF e, n
  <2>8. /\ r \in Seq(EntryType) /\ Len(r) = m - 1
        /\ \A i \in 1 .. m - 1 : r[i] = IF i < p THEN e[i] ELSE e[i + 1]
    BY <2>1, <2>2, <2>3, WithoutAtIs
  <2>9. /\ d \in Seq(Strings) /\ Len(d) = m - 1
        /\ \A i \in 1 .. m - 1 : d[i] = IF i < j THEN q[i] ELSE q[i + 1]
    <3>1. LET w == WithoutAt(q, j)
          IN  /\ w \in Seq(Strings) /\ Len(w) = Len(q) - 1
              /\ \A i \in 1 .. Len(q) - 1 : w[i] = IF i < j THEN q[i] ELSE q[i + 1]
      BY <2>1, <2>5, WithoutAtIs
    <3> QED
      BY <2>1, <2>6, <3>1
  <2>10. ASSUME NEW i \in 1 .. m - 1
         PROVE  d[i] = Decimal[r[((m - 1) - i) + 1].key]
    <3>1. /\ ((m - 1) - i) + 1 = m - i /\ m - i \in 1 .. m - 1 /\ i \in 1 .. m /\ i + 1 \in 1 .. m
          /\ (m - (i + 1)) + 1 = m - i /\ (m - i) + 1 \in 1 .. m
      BY <2>1
    <3>2. CASE i < j
      <4>1. ~ (m - i < p)
        BY <2>1, <2>2, <2>5, <2>7, <3>2
      <4>2. r[m - i] = e[(m - i) + 1]
        BY <2>8, <3>1, <4>1
      <4>3. d[i] = q[i] /\ q[i] = Decimal[e[(m - i) + 1].key]
        BY <2>1, <2>9, <3>1, <3>2
      <4> QED
        BY <3>1, <4>2, <4>3
    <3>3. CASE ~ (i < j)
      <4>1. m - i < p
        BY <2>1, <2>2, <2>5, <2>7, <3>3
      <4>2. r[m - i] = e[m - i]
        BY <2>8, <3>1, <4>1
      <4>3. d[i] = q[i + 1] /\ q[i + 1] = Decimal[e[m - i].key]
        <5>1. q[i + 1] = Decimal[e[(m - (i + 1)) + 1].key]
          BY <2>1, <3>1
        <5> QED
          BY <2>9, <3>1, <3>3, <5>1
      <4> QED
        BY <3>1, <4>2, <4>3
    <3> QED
      BY <3>2, <3>3
  <2>11. Mirrors(d, r)
    BY <2>8, <2>9, <2>10 DEF Mirrors
  <2> QED
    BY <2>11 DEF d, r, n
<1> QED
  BY <1>1, <1>2

LEMMA MirrorsFront ==
  ASSUME NEW e \in Seq(EntryType), NEW q, Mirrors(q, e), NEW entry \in EntryType, Decimal[entry.key] \in Strings
  PROVE  LET longer == Append(q, Decimal[entry.key])
             front == <<entry>> \o e
         IN  Mirrors(longer, front) /\ Len(front) = Len(e) + 1 /\ Len(longer) = Len(front) /\ front \in Seq(EntryType)
<1> DEFINE m == Len(e)
           s == Decimal[entry.key]
           longer == Append(q, s)
           front == <<entry>> \o e
<1>1. /\ m \in Nat /\ q \in Seq(Strings) /\ Len(q) = m
      /\ \A i \in 1 .. m : q[i] = Decimal[e[(m - i) + 1].key]
  BY LenProperties DEF Mirrors
<1>2. longer \in Seq(Strings) /\ Len(longer) = m + 1 /\ longer[m + 1] = s /\ \A i \in 1 .. m : longer[i] = q[i]
  BY <1>1, AppendProperties
<1>3. /\ front \in Seq(EntryType) /\ Len(front) = m + 1
      /\ \A i \in 1 .. m + 1 : front[i] = IF i = 1 THEN entry ELSE e[i - 1]
  BY InFrontIs
<1> HIDE DEF longer, front, s
<1>4. ASSUME NEW i \in 1 .. m + 1
      PROVE  longer[i] = Decimal[front[((m + 1) - i) + 1].key]
  <2>1. CASE i = m + 1
    <3>1. ((m + 1) - i) + 1 = 1 /\ 1 \in 1 .. m + 1
      BY <1>1, <2>1
    <3>2. front[1] = entry
      BY <1>3, <3>1
    <3> QED
      BY <1>2, <2>1, <3>1, <3>2 DEF s
  <2>2. CASE i # m + 1
    <3>1. /\ i \in 1 .. m /\ ((m + 1) - i) + 1 \in 1 .. m + 1 /\ ((m + 1) - i) + 1 # 1
          /\ (((m + 1) - i) + 1) - 1 = (m - i) + 1
      BY <1>1, <2>2
    <3>2. front[((m + 1) - i) + 1] = e[(m - i) + 1]
      BY <1>3, <3>1
    <3> QED
      BY <1>1, <1>2, <3>1, <3>2
  <2> QED
    BY <2>1, <2>2
<1>5. Mirrors(longer, front)
  BY <1>2, <1>3, <1>4 DEF Mirrors
<1> QED
  BY <1>1, <1>2, <1>3, <1>5 DEF longer, front, s

LEMMA MirrorsEvicted ==
  ASSUME NEW e \in Seq(EntryType), NEW q, Mirrors(q, e), NEW cap \in Nat, Len(e) = cap + 1
  PROVE  Mirrors(Tail(q), SubSeq(e, 1, cap))
<1> DEFINE r == SubSeq(e, 1, cap)
           t == Tail(q)
<1>1. /\ q \in Seq(Strings) /\ Len(q) = cap + 1
      /\ \A i \in 1 .. cap + 1 : q[i] = Decimal[e[((cap + 1) - i) + 1].key]
  BY DEF Mirrors
<1>2. Len(r) = cap /\ \A i \in 1 .. cap : r[i] = e[i]
  BY SubSeqProperties
<1>3. t \in Seq(Strings) /\ Len(t) = cap /\ \A i \in 1 .. cap : t[i] = q[i + 1]
  BY <1>1
<1> HIDE DEF r, t
<1>4. ASSUME NEW i \in 1 .. cap PROVE t[i] = Decimal[r[(cap - i) + 1].key]
  <2>1. i + 1 \in 1 .. cap + 1 /\ ((cap + 1) - (i + 1)) + 1 = (cap - i) + 1 /\ (cap - i) + 1 \in 1 .. cap
    OBVIOUS
  <2> QED
    BY <1>1, <1>2, <1>3, <2>1
<1> QED
  BY <1>2, <1>3, <1>4 DEF Mirrors, r, t

(* The shadow follows an operation.                                        *)
LEMMA FollowedMirrors ==
  ASSUME OneSpelling, NEW s \in Servers, NEW o \in Operation, NEW t \in Apply(s, o),
         NEW q, Mirrors(q, s.cache.entries)
  PROVE  Mirrors(Followed(q, o.op, o.key, s.cache.capacity), t.cache.entries)
<1> DEFINE c == s.cache
           n == Number[o.key]
           deleted == Deleted(q, o.key)
           longer == Append(deleted, o.key)
           others == LRU!Others(c, n)
<1>1. /\ c \in CachesOf(Nat \ {0}) /\ c.capacity \in Nat \ {0} /\ o.key \in Strings /\ n \in Numbers
      /\ Decimal[n] = o.key
  BY ServerIs, DecimalIs DEF Operation
<1>2. /\ c = [capacity |-> c.capacity, entries |-> c.entries, hits |-> c.hits,
              misses |-> c.misses, evictions |-> c.evictions]
      /\ Len(c.entries) \in Nat /\ Len(c.entries) <= c.capacity
  BY <1>1, CacheFields
<1>3. others \in Seq(EntryType) /\ Len(others) = IF LRU!Has(c, n) THEN Len(c.entries) - 1 ELSE Len(c.entries)
  BY <1>1, OthersIs
<1>4. Mirrors(deleted, others)
  BY <1>1, MirrorsDeleted
<1>5. ASSUME NEW v \in Numbers
      PROVE  /\ Mirrors(longer, LRU!Use(c, n, v)) /\ LRU!Use(c, n, v) \in Seq(EntryType)
             /\ Len(LRU!Use(c, n, v)) = Len(others) + 1 /\ Len(longer) = Len(others) + 1
  <2> DEFINE entry == [key |-> n, value |-> v]
  <2>1. entry \in EntryType /\ entry.key = n
    BY <1>1 DEF EntryType
  <2>2. LRU!Use(c, n, v) = <<entry>> \o others
    BY DEF LRU!Use
  <2> HIDE DEF entry, others, deleted
  <2>3. Decimal[entry.key] = o.key /\ Decimal[entry.key] \in Strings
    BY <1>1, <2>1
  <2>4. LET more == Append(deleted, Decimal[entry.key])
            front == <<entry>> \o others
        IN  /\ Mirrors(more, front) /\ Len(front) = Len(others) + 1 /\ Len(more) = Len(front)
            /\ front \in Seq(EntryType)
    BY <1>3, <1>4, <2>1, <2>3, MirrorsFront
  <2> QED
    BY <2>2, <2>3, <2>4
<1>6. CASE o.op = "put"
  <2> DEFINE v == Number[o.value]
             use == LRU!Use(c, n, v)
             cap == c.capacity
  <2>1. v \in Numbers
    BY <1>6, NumberIs DEF Operation
  <2>2. t.cache = LRU!put(c, n, v)
    BY <1>6 DEF Apply, put
  <2>3. /\ Mirrors(longer, use) /\ use \in Seq(EntryType)
        /\ Len(use) = Len(others) + 1 /\ Len(longer) = Len(others) + 1
    BY <1>5, <2>1
  <2>4. Followed(q, o.op, o.key, cap) = IF Len(longer) > cap THEN Tail(longer) ELSE longer
    BY <1>6 DEF Followed, shadow_put
  <2>5. CASE LRU!Has(c, n) \/ Len(c.entries) < cap
    <3>1. t.cache.entries = use
      BY <1>2, <2>2, <2>5 DEF LRU!put
    <3> HIDE DEF use, longer, others
    <3>2. ~ (Len(longer) > cap)
      BY <1>1, <1>2, <1>3, <2>3, <2>5
    <3> QED
      BY <2>3, <2>4, <3>1, <3>2
  <2>6. CASE ~ (LRU!Has(c, n) \/ Len(c.entries) < cap)
    <3>1. t.cache.entries = SubSeq(use, 1, cap)
      BY <1>2, <2>2, <2>6 DEF LRU!put
    <3> HIDE DEF use, longer, others
    <3>2. Len(longer) > cap /\ Len(use) = cap + 1 /\ cap \in Nat
      BY <1>1, <1>2, <1>3, <2>3, <2>6
    <3>3. Mirrors(Tail(longer), SubSeq(use, 1, cap))
      BY <2>3, <3>2, MirrorsEvicted
    <3> QED
      BY <2>4, <3>1, <3>2, <3>3
  <2> QED
    BY <2>5, <2>6
<1>7. CASE o.op = "get"
  <2>1. t.cache = LRU!get(c, n)
    BY <1>7 DEF Apply, get
  <2>2. Followed(q, o.op, o.key, c.capacity) = IF o.key \in ToSet(q) THEN longer ELSE q
    BY <1>7 DEF Followed, shadow_get
  <2>3. o.key \in ToSet(q) <=> LRU!Has(c, n)
    BY <1>1, MirrorsHas
  <2>4. CASE LRU!Has(c, n)
    <3> DEFINE v == LRU!Value(c, n)
    <3>1. v \in Numbers
      <4>1. c.entries \in Seq(EntryType) /\ DOMAIN c.entries = 1 .. Len(c.entries)
        BY <1>1, CacheFields
      <4>2. LRU!Position(c, n) \in DOMAIN c.entries
        BY <2>4 DEF LRU!Has, LRU!Position
      <4>3. c.entries[LRU!Position(c, n)] \in EntryType
        BY <4>1, <4>2, ElementOfSeq
      <4> QED
        BY <4>3 DEF LRU!Value, EntryType
    <3>2. t.cache.entries = LRU!Use(c, n, v)
      BY <1>2, <2>1, <2>4 DEF LRU!get
    <3> HIDE DEF v
    <3>3. Mirrors(longer, LRU!Use(c, n, v))
      BY <1>5, <3>1
    <3> QED
      BY <2>2, <2>3, <2>4, <3>2, <3>3
  <2>5. CASE ~ LRU!Has(c, n)
    <3>1. t.cache.entries = c.entries
      BY <1>2, <2>1, <2>5 DEF LRU!get
    <3> QED
      BY <2>2, <2>3, <2>5, <3>1
  <2> QED
    BY <2>4, <2>5
<1>8. CASE o.op = "remove"
  <2>1. t.cache = LRU!remove(c, n)
    BY <1>8 DEF Apply, remove
  <2>2. t.cache.entries = others
    BY <1>2, <2>1 DEF LRU!remove
  <2>3. Followed(q, o.op, o.key, c.capacity) = deleted
    BY <1>8 DEF Followed
  <2> QED
    BY <1>4, <2>2, <2>3
<1> QED
  BY <1>6, <1>7, <1>8 DEF Operation

-----------------------------------------------------------------------------
(* What the page says of the steps of a simulation.                        *)

LEMMA FollowedRun ==
  ASSUME OneSpelling, NEW s \in Servers, NEW ops \in Seq(Operation), NEW r, IsRun(r, s, ops),
         NEW shadows, FollowedBy(Synced(json_state(s)), ops, s.cache.capacity, shadows)
  PROVE  shadows[Len(ops)] = Synced(json_state(r[Len(ops) + 1]))
<1> DEFINE n == Len(ops)
           cap == s.cache.capacity
           P == {i \in Nat : i <= n => Mirrors(shadows[i], r[i + 1].cache.entries)}
<1>1. /\ n \in Nat /\ r[1] = s
      /\ \A i \in 1 .. n : r[i + 1] \in Apply(r[i], ops[i]) /\ ops[i] \in Operation
  BY LenProperties, ElementOfSeq DEF IsRun
<1>2. \A i \in 1 .. n + 1 : r[i] \in Servers /\ r[i].cache.capacity = cap
  BY RunCapacity, OperationsAreTokens
<1>3. /\ shadows[0] = Synced(json_state(s))
      /\ \A k \in 1 .. n : shadows[k] = Followed(shadows[k - 1], ops[k].op, ops[k].key, cap)
  BY DEF FollowedBy
<1> HIDE DEF cap
<1>4. 0 \in P
  BY <1>1, <1>3, SyncedMirrors
<1>5. ASSUME NEW i \in Nat, i \in P PROVE i + 1 \in P
  <2> SUFFICES ASSUME i + 1 <= n PROVE Mirrors(shadows[i + 1], r[i + 1 + 1].cache.entries)
    OBVIOUS
  <2>1. i + 1 \in 1 .. n /\ i + 1 \in 1 .. n + 1 /\ (i + 1) - 1 = i
    BY <1>1
  <2>2. Mirrors(shadows[i], r[i + 1].cache.entries)
    BY <1>1, <1>5
  <2>3. /\ r[i + 1] \in Servers /\ r[i + 1].cache.capacity = cap /\ ops[i + 1] \in Operation
        /\ r[i + 1 + 1] \in Apply(r[i + 1], ops[i + 1])
    BY <1>1, <1>2, <2>1
  <2>4. shadows[i + 1] = Followed(shadows[i], ops[i + 1].op, ops[i + 1].key, cap)
    BY <1>3, <2>1
  <2>5. Mirrors(Followed(shadows[i], ops[i + 1].op, ops[i + 1].key, r[i + 1].cache.capacity),
                r[i + 1 + 1].cache.entries)
    BY <2>2, <2>3, FollowedMirrors
  <2> QED
    BY <2>3, <2>4, <2>5
<1> HIDE DEF P
<1>6. \A i \in Nat : i \in P
  BY <1>4, <1>5, SetInduction
<1>7. Mirrors(shadows[n], r[n + 1].cache.entries)
  BY <1>1, <1>6 DEF P
<1>8. n + 1 \in 1 .. n + 1
  BY <1>1
<1>9. r[n + 1] \in Servers
  BY <1>2, <1>8
<1>10. Mirrors(Synced(json_state(r[n + 1])), r[n + 1].cache.entries)
  BY <1>9, SyncedMirrors
<1>11. Len(r[n + 1].cache.entries) \in Nat
  BY <1>9, ServerIs, CacheFields
<1> QED
  BY <1>7, <1>10, <1>11, MirrorsOne

(* The page judges an operation by the states before and after it.         *)
LEMMA ClaimIs ==
  ASSUME OneSpelling, NEW s \in Servers, NEW o \in Operation, NEW t \in Apply(s, o),
         s.cache.hits + 1 < CounterMod
  PROVE  Claim(o, json_state(s), json_state(t), s.cache.capacity) = Effect(s, o)
<1> DEFINE c == s.cache
           n == Number[o.key]
           nodes == json_state(s).nodes
           known == o.key \in ToSet(Keys(nodes))
           m == Len(c.entries)
<1>1. c \in CachesOf(Nat \ {0}) /\ c.capacity \in Nat /\ m \in Nat /\ m <= c.capacity /\ o.key \in Strings
  BY ServerIs, CacheFields DEF Operation
<1>2. nodes \in Seq([key : Strings, value : Strings]) /\ Len(nodes) = m
  BY StateIs DEF StateType
<1>3. known <=> LRU!Has(c, n)
  <2> DEFINE q == Synced(json_state(s))
             keys == Keys(nodes)
  <2>1. o.key \in ToSet(q) <=> LRU!Has(c, n)
    BY <1>1, SyncedMirrors, MirrorsHas
  <2>2. keys \in Seq(Strings) /\ Len(keys) = m
    BY <1>2, KeysIs
  <2>3. q = Reverse(keys)
    BY DEF Synced
  <2> HIDE DEF keys, q, nodes
  <2>4. /\ q \in Seq(Strings) /\ Len(q) = m /\ \A i \in 1 .. m : q[i] = keys[(m - i) + 1]
    BY <2>2, <2>3, ReverseIs
  <2>5. DOMAIN q = 1 .. m /\ DOMAIN keys = 1 .. m
    BY <2>2, <2>4
  <2>6. \A i \in 1 .. m : (m - i) + 1 \in 1 .. m /\ (m - ((m - i) + 1)) + 1 = i
    BY <1>1
  <2>7. \A i \in 1 .. m : keys[i] = q[(m - i) + 1]
    BY <2>4, <2>6
  <2>8. o.key \in ToSet(q) <=> o.key \in ToSet(keys)
    <3>1. ASSUME o.key \in ToSet(q) PROVE o.key \in ToSet(keys)
      <4>1. PICK i \in 1 .. m : q[i] = o.key
        BY <2>5, <3>1 DEF ToSet
      <4>2. (m - i) + 1 \in DOMAIN keys /\ keys[(m - i) + 1] = o.key
        BY <2>4, <2>5, <2>6, <4>1
      <4> QED
        BY <4>2 DEF ToSet
    <3>2. ASSUME o.key \in ToSet(keys) PROVE o.key \in ToSet(q)
      <4>1. PICK i \in 1 .. m : keys[i] = o.key
        BY <2>5, <3>2 DEF ToSet
      <4>2. (m - i) + 1 \in DOMAIN q /\ q[(m - i) + 1] = o.key
        BY <2>5, <2>6, <2>7, <4>1
      <4> QED
        BY <4>2 DEF ToSet
    <3> QED
      BY <3>1, <3>2
  <2> QED
    BY <2>1, <2>8 DEF keys
<1> HIDE DEF known, m, nodes
<1>4. CASE o.op = "get"
  <2>1. t \in Servers
    BY ApplyIs DEF Token
  <2>2. Claim(o, json_state(s), json_state(t), c.capacity) = HitOrMiss(json_state(t).hits, json_state(s).hits)
    BY <1>4 DEF Claim
  <2>3. json_state(t).hits = t.cache.hits /\ json_state(s).hits = s.cache.hits
    BY <2>1, StateIs
  <2> QED
    BY <1>4, <2>2, <2>3, HitIsHeld
<1>5. CASE o.op = "put"
  <2>1. Claim(o, json_state(s), json_state(t), c.capacity) =
          IF known THEN "UPDATED" ELSE IF Len(nodes) >= c.capacity THEN "EVICTED_AND_INSERTED" ELSE "INSERTED"
    BY <1>5 DEF Claim, known, nodes
  <2>2. Effect(s, o) = IF LRU!Has(c, n) THEN "UPDATED" ELSE IF m = c.capacity THEN "EVICTED_AND_INSERTED" ELSE "INSERTED"
    BY <1>5 DEF Effect, Holds, m
  <2>3. Len(nodes) >= c.capacity <=> m = c.capacity
    BY <1>1, <1>2
  <2> QED
    BY <1>3, <2>1, <2>2, <2>3
<1>6. CASE o.op = "remove"
  <2>1. Claim(o, json_state(s), json_state(t), c.capacity) = IF known THEN "DELETED" ELSE "NOT_FOUND"
    BY <1>6 DEF Claim, known, nodes
  <2>2. Effect(s, o) = IF LRU!Has(c, n) THEN "DELETED" ELSE "NOT_FOUND"
    BY <1>6 DEF Effect, Holds
  <2> QED
    BY <1>3, <2>1, <2>2
<1> QED
  BY <1>4, <1>5, <1>6 DEF Operation

-----------------------------------------------------------------------------
(* The simulations of a patient user.                                      *)

(* The states that a simulation's steps are judged by.                     *)
StatesOf(state, answer) == <<state>> \o answer.states

(* Of a batch of ops on the server s: its states are those of a shadow     *)
(* that follows it, and its steps are judged as the server took them.      *)
Shadowed(s, ops, states) ==
  \A shadows : FollowedBy(Synced(json_state(s)), ops, s.cache.capacity, shadows)
                 => shadows[Len(ops)] = Synced(states[Len(ops) + 1])

JudgedTruly(ops, states, cap, effects) ==
  \A k \in 1 .. Len(ops) : Claim(ops[k], states[k], states[k + 1], cap) = effects[k]

CountsAll(s, ops) == \A m \in 0 .. Len(ops) : s.cache.hits + m < CounterMod

LEMMA HandledBatch ==
  ASSUME OneSpelling, NEW s \in Servers, NEW request, request.api = "batch", request.ops \in Seq(Operation),
         NEW result \in Handled(s, request)
  PROVE  LET states == StatesOf(json_state(s), result[2])
         IN  /\ Shadowed(s, request.ops, states)
             /\ CountsAll(s, request.ops)
                  => JudgedTruly(request.ops, states, s.cache.capacity, result[2].effects)
<1> DEFINE ops == request.ops
           n == Len(ops)
           states == StatesOf(json_state(s), result[2])
<1>1. n \in Nat /\ \A k \in 1 .. n : ops[k] \in Operation
  BY LenProperties, ElementOfSeq
<1>2. /\ result[2] \in AnswerType /\ Len(result[2].states) = n
      /\ \E r : /\ IsRun(r, s, ops) /\ result[1] = r[n + 1]
                /\ \A k \in 1 .. n : /\ result[2].states[k] = json_state(r[k + 1])
                                     /\ result[2].effects[k] = Effect(r[k], ops[k])
  BY BatchIs, OperationsAreTokens
<1>3. PICK r : /\ IsRun(r, s, ops)
               /\ \A k \in 1 .. n : /\ result[2].states[k] = json_state(r[k + 1])
                                    /\ result[2].effects[k] = Effect(r[k], ops[k])
  BY <1>2
<1>4. r[1] = s /\ \A k \in 1 .. n : r[k + 1] \in Apply(r[k], ops[k])
  BY <1>3 DEF IsRun
<1>5. ASSUME NEW k \in 1 .. n + 1 PROVE states[k] = json_state(r[k])
  <2> DEFINE state == json_state(s)
             answered == result[2].states
  <2>1. answered \in Seq(StateType) /\ state \in StateType /\ Len(answered) = n
    BY <1>2, StateIs DEF AnswerType
  <2>2. states = <<state>> \o answered
    BY DEF StatesOf
  <2> HIDE DEF state, answered, states
  <2>3. \A i \in 1 .. Len(answered) + 1 : (<<state>> \o answered)[i] = IF i = 1 THEN state ELSE answered[i - 1]
    BY <2>1, InFrontIs
  <2>4. states[k] = IF k = 1 THEN state ELSE answered[k - 1]
    BY <2>1, <2>2, <2>3
  <2>5. CASE k = 1
    BY <1>4, <2>4, <2>5 DEF state
  <2>6. CASE k # 1
    <3>1. k - 1 \in 1 .. n /\ (k - 1) + 1 = k
      BY <1>1, <2>6
    <3>2. answered[k - 1] = json_state(r[(k - 1) + 1])
      BY <1>3, <3>1 DEF answered
    <3> QED
      BY <2>4, <2>6, <3>1, <3>2
  <2> QED
    BY <2>5, <2>6
<1> HIDE DEF states
<1>6. ASSUME NEW shadows, FollowedBy(Synced(json_state(s)), ops, s.cache.capacity, shadows)
      PROVE  shadows[n] = Synced(states[n + 1])
  <2>1. shadows[n] = Synced(json_state(r[n + 1]))
    BY <1>3, <1>6, FollowedRun
  <2>2. n + 1 \in 1 .. n + 1
    BY <1>1
  <2> QED
    BY <1>5, <2>1, <2>2
<1>7. ASSUME \A m \in 0 .. n : s.cache.hits + m < CounterMod, NEW k \in 1 .. n
      PROVE  Claim(ops[k], states[k], states[k + 1], s.cache.capacity) = result[2].effects[k]
  <2>1. k \in 1 .. n + 1 /\ k + 1 \in 1 .. n + 1 /\ k - 1 \in 0 .. n /\ (k - 1) + 1 = k /\ k \in 0 .. n
    BY <1>1
  <2>2. r[k] \in Servers /\ r[k].cache.capacity = s.cache.capacity
    BY <1>3, <2>1, RunCapacity, OperationsAreTokens
  <2>3. r[k].cache.hits + 1 < CounterMod
    <3> DEFINE a == r[k].cache.hits
               h == s.cache.hits
    <3>1. a \in Nat /\ a <= h + (k - 1)
      BY <1>3, <2>1, RunHits
    <3>2. h \in Nat /\ h + k < CounterMod /\ CounterMod \in Nat
      BY <1>7, <2>1, ServerIs, CacheFields, StringsAssumption DEF Counter
    <3> HIDE DEF a, h
    <3>3. a + 1 < CounterMod
      BY <2>1, <3>1, <3>2
    <3> QED
      BY <3>3 DEF a
  <2>4. ops[k] \in Operation /\ r[k + 1] \in Apply(r[k], ops[k])
    BY <1>1, <1>4
  <2>5. Claim(ops[k], json_state(r[k]), json_state(r[k + 1]), r[k].cache.capacity) = Effect(r[k], ops[k])
    BY <2>2, <2>3, <2>4, ClaimIs
  <2> QED
    BY <1>3, <1>5, <2>1, <2>2, <2>5
<1>8. Shadowed(s, ops, states)
  BY <1>6 DEF Shadowed
<1>9. CountsAll(s, ops) => JudgedTruly(ops, states, s.cache.capacity, result[2].effects)
  BY <1>7 DEF CountsAll, JudgedTruly
<1> QED
  BY <1>8, <1>9 DEF states

(* Before its batch is handled a simulation knows the server's state, and  *)
(* its shadow has followed the operations of the batch; after that each of *)
(* its steps is judged truly, and the shadow is that of the last state.    *)
Simulating(call, s) ==
  call.task = "simulates" =>
    LET n == Len(call.request.ops)
        state == call.locals.state
        states == StatesOf(state, call.answer)
    IN  IF call.answer = NoAnswer
        THEN /\ state = json_state(s)
             /\ \E shadows : /\ FollowedBy(Synced(state), call.request.ops, state.capacity, shadows)
                             /\ call.locals.shadow = shadows[n]
        ELSE /\ call.locals.shadow = Synced(states[n + 1])
             /\ CountersSuffice => JudgedTruly(call.request.ops, states, state.capacity, call.answer.effects)

SInv ==
  /\ CountersSuffice => HInv /\ PlaybackTruth
  /\ \A i \in DOMAIN calls : Simulating(calls[i], server)

LEMMA SimulationAsked ==
  ASSUME PInv, SInv, PatientUser \/ Tick
  PROVE  SInv'
<1>1. calls = <<>> /\ UNCHANGED <<server, simHistory>>
  BY WhatIsAsked
<1>2. CountersSuffice => HInv' /\ PlaybackTruth'
  BY <1>1, HitsAsked DEF SInv, PlaybackTruth
<1>3. CASE UNCHANGED <<calls, issued>>
  BY <1>1, <1>2, <1>3 DEF SInv
<1>4. CASE \E call : UserCalls(call) /\ AsksFor(call, server)
  <2>1. PICK call : UserCalls(call) /\ AsksFor(call, server)
    BY <1>4
  <2>2. calls' = <<call>> /\ call.task # "simulates"
    BY <1>1, <2>1 DEF UserCalls, AsksFor
  <2>3. \A i \in DOMAIN calls' : calls'[i] = call
    BY <2>2
  <2>4. Simulating(call, server')
    BY <2>2 DEF Simulating
  <2> QED
    BY <1>2, <2>3, <2>4 DEF SInv
<1> QED
  BY <1>3, <1>4, WhatIsAsked

LEMMA SimulationHandled ==
  ASSUME OneSpelling, PInv, SInv, Handles
  PROVE  SInv'
<1>1. PICK call, result :
           /\ calls = <<call>> /\ Fits(call) /\ Proper(call, server) /\ call.answer = NoAnswer
           /\ call.request \in Request /\ server \in Servers
           /\ result \in Handled(server, call.request) /\ server' = result[1]
           /\ calls' = <<Answered(call, result[2])>>
           /\ UNCHANGED <<issued, told, simHistory>>
  BY WhatIsAnswered
<1> DEFINE answered == Answered(call, result[2])
<1>2. /\ answered.task = call.task /\ answered.request = call.request /\ answered.locals = call.locals
      /\ answered.answer = result[2] /\ calls' = <<answered>>
  BY <1>1 DEF Answered
<1> HIDE DEF answered
<1>3. result[2] # NoAnswer
  BY <1>1, HandledFits, DashboardAssumption
<1>4. CountersSuffice => HInv' /\ PlaybackTruth'
  BY <1>1, HitsHandled DEF SInv, PlaybackTruth
<1>5. Simulating(call, server)
  BY <1>1 DEF SInv
<1>6. Simulating(answered, server')
  <2> SUFFICES ASSUME call.task = "simulates" PROVE Simulating(answered, server')
    BY <1>2 DEF Simulating
  <2> DEFINE ops == call.request.ops
             n == Len(ops)
             state == call.locals.state
             states == StatesOf(state, result[2])
  <2>1. call.request.api = "batch" /\ ops \in Seq(Operation)
    BY <1>1 DEF Fits, Request
  <2>2. state = json_state(server)
        /\ \E shadows : FollowedBy(Synced(state), ops, state.capacity, shadows) /\ call.locals.shadow = shadows[n]
    BY <1>1, <1>5 DEF Simulating
  <2>3. state.capacity = server.cache.capacity
    BY <1>1, <2>2, StateIs
  <2>4. /\ Shadowed(server, ops, states)
        /\ CountsAll(server, ops) => JudgedTruly(ops, states, server.cache.capacity, result[2].effects)
    <3>1. LET judged == StatesOf(json_state(server), result[2])
          IN  /\ Shadowed(server, call.request.ops, judged)
              /\ CountsAll(server, call.request.ops)
                   => JudgedTruly(call.request.ops, judged, server.cache.capacity, result[2].effects)
      BY <1>1, <2>1, HandledBatch
    <3> QED
      BY <2>2, <3>1
  <2>5. call.locals.shadow = Synced(states[n + 1])
    BY <2>2, <2>3, <2>4 DEF Shadowed
  <2>6. ASSUME CountersSuffice
        PROVE  JudgedTruly(ops, states, state.capacity, result[2].effects)
    <3>1. n \in SimOps /\ n \in Nat
      <4>1. HInv
        BY <2>6 DEF SInv
      <4>2. ToldOf(call, server)
        BY <1>1, <4>1 DEF HInv
      <4> QED
        BY <2>1, <4>2, LenProperties DEF ToldOf
    <3>2. server.cache.hits + n < CounterMod /\ server.cache.hits \in Nat /\ CounterMod \in Nat
      <4>1. server.cache.hits + n < CounterMod
        BY <1>1, <2>6, <3>1, CountersLeft DEF SInv
      <4> QED
        BY <1>1, <4>1, ServerIs, CacheFields, StringsAssumption DEF Counter
    <3> DEFINE h == server.cache.hits
    <3>3. \A m \in 0 .. n : h + m < CounterMod
      <4> HIDE DEF h, n
      <4>1. h + n < CounterMod /\ h \in Nat /\ CounterMod \in Nat /\ n \in Nat
        BY <3>1, <3>2 DEF h
      <4> QED
        BY <4>1
    <3>4. CountsAll(server, ops)
      BY <3>3 DEF CountsAll
    <3> QED
      BY <2>3, <2>4, <3>4
  <2> HIDE DEF states
  <2>7. Simulating(answered, server') <=>
          /\ call.locals.shadow = Synced(states[n + 1])
          /\ CountersSuffice => JudgedTruly(ops, states, state.capacity, result[2].effects)
    BY <1>2, <1>3, Zenon DEF Simulating, states
  <2> QED
    BY <2>5, <2>6, <2>7, Zenon
<1>7. \A i \in DOMAIN calls' : calls'[i] = answered
  BY <1>2
<1> QED
  BY <1>4, <1>6, <1>7 DEF SInv

LEMMA JudgedIs ==
  ASSUME NEW call, Fits(call), call.task = "simulates"
  PROVE  /\ IsSequence(Judged(call)) /\ Len(Judged(call)) = Len(call.request.ops)
         /\ \A k \in 1 .. Len(call.request.ops) :
              LET states == StatesOf(call.locals.state, call.answer)
              IN  /\ Judged(call)[k].claim =
                       Claim(call.request.ops[k], states[k], states[k + 1], call.locals.state.capacity)
                  /\ Judged(call)[k].truth = call.answer.effects[k]
<1> DEFINE m == Len(call.request.ops)
           j == Judged(call)
           S == {j[k] : k \in 1 .. m}
           states == StatesOf(call.locals.state, call.answer)
           JudgedStep(k) == [state |-> states[k + 1],
                        claim |-> Claim(call.request.ops[k], states[k], states[k + 1], call.locals.state.capacity),
                        truth |-> call.answer.effects[k]]
<1>1. call.request.ops \in Seq(Operation)
  BY DEF Fits, Request
<1>2. DOMAIN call.request.ops = 1 .. m /\ m \in Nat
  BY <1>1, LenProperties
<1>3. j = [k \in 1 .. m |-> JudgedStep(k)]
  <2>1. j = [k \in DOMAIN call.request.ops |-> JudgedStep(k)]
    BY Zenon DEF Judged, StatesOf
  <2> QED
    BY <1>2, <2>1, Zenon
<1>4. \A k \in 1 .. m : /\ j[k].claim = Claim(call.request.ops[k], states[k], states[k + 1], call.locals.state.capacity)
                        /\ j[k].truth = call.answer.effects[k]
  BY <1>3
<1>5. j = [k \in 1 .. m |-> j[k]] /\ \A k \in 1 .. m : j[k] \in S
  BY <1>3
<1> HIDE DEF j, S, m, states, JudgedStep
<1>6. j \in Seq(S) /\ Len(j) = m
  BY <1>2, <1>5
<1>7. IsSequence(j) /\ Len(j) = m
  BY <1>6 DEF IsSequence
<1> QED
  BY <1>4, <1>7, Zenon DEF j, m, states

LEMMA SimulationAnswered ==
  ASSUME PInv, SInv, Answers
  PROVE  SInv'
<1>1. PICK i \in DOMAIN calls : Returns(i) \/ Captured(i) \/ Simulated(i) \/ Exited(i)
  BY DEF Answers, Continues
<1> DEFINE call == calls[i]
<1>2. /\ RemoveAt(calls, i) = <<>> /\ Fits(call) /\ calls = <<call>> /\ Simulating(call, server)
      /\ Proper(call, server) /\ server \in Servers /\ (CountersSuffice => HInv /\ PlaybackTruth)
      /\ IsSequence(simHistory)
  BY OnlyCall DEF PInv, IInv, SInv
<1>3. call.answer # NoAnswer
  BY <1>1 DEF Returns, Captured, Simulated, Exited, Arrives
<1>4. CountersSuffice => HInv'
  BY <1>2, HitsAnswered
<1>5. CASE Returns(i)
  <2>1. calls' = <<>> /\ UNCHANGED simHistory
    BY <1>2, <1>5 DEF Returns, playback
  <2> QED
    BY <1>2, <1>4, <2>1 DEF SInv, PlaybackTruth
<1>6. CASE Captured(i)
  <2> DEFINE state == call.answer.states[1]
             entry == [state |-> state, claim |-> "captured", truth |-> "captured"]
             locals(g) == [state |-> state, shadow |-> g.shadow]
             request(g) == [api |-> "batch", ops |-> g.ops]
             batch(g) == Fetch("simulates", request(g), locals(g))
  <2>1. call.task = "captures" /\ simHistory' = <<entry>> /\ server' = server
    BY <1>6 DEF Captured, Arrives
  <2>2. PICK g \in Generated(state, call.locals.ops) : calls' = Append(<<>>, batch(g))
    BY <1>2, <1>6 DEF Captured
  <2>3. entry.claim = entry.truth
    OBVIOUS
  <2> HIDE DEF entry
  <2>4. PlaybackTruth'
    BY <2>1, <2>3 DEF PlaybackTruth
  <2>5. state = json_state(server) /\ state \in StateType /\ call.locals.ops \in Nat
    BY <1>2, <1>3, <2>1, StateIs DEF Proper, Fits
  <2>6. \E shadows : FollowedBy(Synced(state), g.ops, state.capacity, shadows) /\ g.shadow = shadows[Len(g.ops)]
    BY <2>2, <2>5, GeneratedIs
  <2>7. request(g).ops = g.ops /\ locals(g).state = state /\ locals(g).shadow = g.shadow
    OBVIOUS
  <2> HIDE DEF state, locals, request
  <2>8. /\ batch(g).request = request(g) /\ batch(g).locals = locals(g) /\ batch(g).answer = NoAnswer
    BY FetchIs
  <2> HIDE DEF batch
  <2>9. Simulating(batch(g), server)
    BY <2>5, <2>6, <2>7, <2>8 DEF Simulating
  <2>10. calls' = <<batch(g)>>
    BY <2>2
  <2>11. \A j \in DOMAIN calls' : calls'[j] = batch(g)
    BY <2>10
  <2> QED
    BY <1>4, <2>1, <2>4, <2>9, <2>11 DEF SInv
<1>7. CASE Simulated(i)
  <2>1. call.task = "simulates" /\ calls' = <<>> /\ simHistory' = simHistory \o Judged(call)
    BY <1>2, <1>7 DEF Simulated, Arrives
  <2> DEFINE j == Judged(call)
             m == Len(call.request.ops)
  <2>2. IsSequence(j) /\ Len(j) = m
    BY <1>2, <2>1, JudgedIs
  <2>3. ASSUME CountersSuffice, NEW k \in 1 .. m PROVE j[k].claim = j[k].truth
    <3> DEFINE states == StatesOf(call.locals.state, call.answer)
    <3>1. JudgedTruly(call.request.ops, states, call.locals.state.capacity, call.answer.effects)
      BY <1>2, <1>3, <2>1, <2>3 DEF Simulating
    <3>2. Claim(call.request.ops[k], states[k], states[k + 1], call.locals.state.capacity) = call.answer.effects[k]
      BY <3>1 DEF JudgedTruly
    <3>3. /\ j[k].claim = Claim(call.request.ops[k], states[k], states[k + 1], call.locals.state.capacity)
          /\ j[k].truth = call.answer.effects[k]
      BY <1>2, <2>1, JudgedIs
    <3> QED
      BY <3>2, <3>3
  <2> HIDE DEF j, m
  <2>4. ASSUME CountersSuffice PROVE PlaybackTruth'
    <3> DEFINE r == simHistory \o j
               l == Len(simHistory)
    <3>1. /\ IsSequence(r) /\ Len(r) = l + m
          /\ \A k \in 1 .. l : r[k] = simHistory[k]
          /\ \A k \in 1 .. m : r[l + k] = j[k]
      <4>0. IsSequence(simHistory) /\ IsSequence(j)
        BY <1>2, <2>2
      <4>1. LET q == simHistory \o j
            IN  /\ IsSequence(q) /\ Len(q) = Len(simHistory) + Len(j)
                /\ \A k \in 1 .. Len(simHistory) : q[k] = simHistory[k]
                /\ \A k \in 1 .. Len(j) : q[Len(simHistory) + k] = j[k]
        BY <4>0, SequenceConcat
      <4> QED
        BY <2>2, <4>1
    <3>2. l \in Nat /\ m \in Nat /\ DOMAIN simHistory = 1 .. l
      BY <1>2, <2>2, SequenceDomain
    <3>3. DOMAIN r = 1 .. l + m /\ simHistory' = r
      BY <2>1, <3>1, SequenceDomain DEF j
    <3>4. \A k \in 1 .. l : simHistory[k].claim = simHistory[k].truth
      BY <1>2, <2>4, <3>2 DEF PlaybackTruth
    <3> HIDE DEF r, l
    <3>5. ASSUME NEW k \in 1 .. l + m PROVE r[k].claim = r[k].truth
      <4>1. CASE k \in 1 .. l
        BY <3>1, <3>4, <4>1
      <4>2. CASE k \notin 1 .. l
        <5>1. k - l \in 1 .. m /\ l + (k - l) = k
          BY <3>2, <4>2
        <5>2. r[k] = j[k - l]
          BY <3>1, <5>1
        <5> QED
          BY <2>3, <2>4, <5>1, <5>2
      <4> QED
        BY <4>1, <4>2
    <3> QED
      BY <3>3, <3>5 DEF PlaybackTruth
  <2> QED
    BY <1>4, <2>1, <2>4 DEF SInv
<1>8. CASE Exited(i)
  <2> DEFINE locals == [prevHits |-> screen.hits]
             request == [api |-> "reset", capacity |-> call.answer.states[1].capacity]
             next == Fetch("clears", request, locals)
  <2>1. calls' = Append(<<>>, next) /\ UNCHANGED simHistory
    BY <1>2, <1>8 DEF Exited, reqApi, page, playback
  <2> HIDE DEF locals, request
  <2>2. Simulating(next, server')
    BY FetchIs DEF Simulating
  <2> HIDE DEF next
  <2>3. \A j \in DOMAIN calls' : calls'[j] = next
    BY <2>1
  <2> QED
    BY <1>2, <1>4, <2>1, <2>2, <2>3 DEF SInv, PlaybackTruth
<1> QED
  BY <1>1, <1>5, <1>6, <1>7, <1>8

LEMMA InitSInv == Init => SInv
  BY InitHInv DEF Init, SInv, PlaybackTruth

LEMMA NextSInv ==
  ASSUME OneSpelling
  PROVE  PInv /\ SInv /\ [PatientNext]_vars => SInv'
<1> SUFFICES ASSUME PInv, SInv, [PatientNext]_vars PROVE SInv'
  OBVIOUS
<1>1. CASE UNCHANGED vars
  <2>1. UNCHANGED <<server, calls, simHistory>>
    BY <1>1 DEF vars, page, playback
  <2>2. CountersSuffice => HInv'
    BY <1>1, NextHInv DEF SInv
  <2> QED
    BY <2>1, <2>2 DEF SInv, PlaybackTruth
<1> QED
  BY <1>1, SimulationAsked, SimulationHandled, SimulationAnswered DEF PatientNext

(* If no number has two spellings, the shadow by which a simulation of any *)
(* length draws its keys ends as the order of the real list, whatever it   *)
(* has drawn (app.js:228-325).                                             *)
THEOREM ShadowIsTrue ==
  ASSUME OneSpelling
  PROVE  PatientSpec => []ShadowFollows
<1>1. SInv => ShadowFollows
  BY DEF SInv, Simulating, StatesOf, ShadowFollows, Arrives
<1> QED
  BY <1>1, InitPInv, NextPInv, InitSInv, NextSInv, PTL DEF PatientSpec

(* If moreover the counters do not wrap, every step of every playback is   *)
(* described by what the server did in it (app.js:345-381).                *)
THEOREM PlaybackIsTrue ==
  ASSUME OneSpelling, CountersSuffice
  PROVE  PatientSpec => []PlaybackTruth
<1>1. SInv => PlaybackTruth
  BY DEF SInv
<1> QED
  BY <1>1, InitPInv, NextPInv, InitSInv, NextSInv, PTL DEF PatientSpec
=============================================================================

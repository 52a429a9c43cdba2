--------------------------- MODULE LockOrder_proofs ---------------------------
(***************************************************************************)
(* That no handlers of the server wait for each other in a circle, and     *)
(* that none sleeps with a mutex, for any number of them.  What a round of *)
(* a handler does to mutexes is safe by itself, because the blocks that it *)
(* is put together from are; and a thread has the mutexes that the steps   *)
(* it has taken have left it.                                              *)
(***************************************************************************)
EXTENDS LockOrder, TLAPS

\* A step before s's i-th takes m and none between gives it back.
Keeps(s, i, m) ==
    \E j \in 1..(i - 1) :
       /\ s[j].op = "lock" /\ s[j].of = m
       /\ \A k \in (j + 1)..(i - 1) : ~(s[k].op = "unlock" /\ s[k].of = m)

StepsType == Seq([op : {"lock", "unlock", "wait", "write"}, of : Mutexes \cup {"client"}])

\* With mutexes up to rank r taken around it, s takes the others in order,
\* gives back what it has taken, all of it, and does not sleep with any.
Safe(s, r) ==
    /\ s \in StepsType
    /\ \A m \in Mutexes : ~Keeps(s, Len(s) + 1, m)
    /\ \A i \in 1..Len(s) :
          /\ s[i].op = "lock" =>
                /\ s[i].of \in Mutexes /\ r < Rank[s[i].of]
                /\ \A m \in Mutexes : Keeps(s, i, m) => Rank[m] < Rank[s[i].of]
          /\ s[i].op = "unlock" => s[i].of \in Mutexes /\ Keeps(s, i, s[i].of)
          /\ s[i].op \in {"wait", "write"} =>
                r = 0 /\ \A m \in Mutexes : ~Keeps(s, i, m)

LEMMA RanksAreNumbers == Rank \in [Mutexes -> 1..3]
  BY DEF Rank, Mutexes

-----------------------------------------------------------------------------
(* Blocks.                                                                 *)

\* Nothing at all is safe.
LEMMA SafeEmpty == \A r \in Nat : Safe(<<>>, r)
  BY DEF Safe, Keeps, StepsType

\* Waits and writes are safe outside of every block.
LEMMA SafeSleep == Safe(<<Write>>, 0) /\ \A m \in Mutexes : Safe(<<Wait(m)>>, 0)
  BY DEF Safe, Keeps, StepsType, Write, Wait

\* One safe sequence after another is safe.
LEMMA SafeConcat ==
  ASSUME NEW r \in Nat, NEW a, NEW b, Safe(a, r), Safe(b, r)
  PROVE  Safe(a \o b, r)
<1> DEFINE c == a \o b
<1>1. a \in StepsType /\ b \in StepsType
  BY DEF Safe
<1>2. /\ c \in StepsType
      /\ Len(a) \in Nat /\ Len(b) \in Nat /\ Len(c) = Len(a) + Len(b)
      /\ \A i \in 1..Len(a) : c[i] = a[i]
      /\ \A i \in 1..Len(b) : c[Len(a) + i] = b[i]
  BY <1>1 DEF StepsType
<1> HIDE DEF c
<1>3. ASSUME NEW i \in 1..(Len(a) + 1), NEW m \in Mutexes
      PROVE  Keeps(c, i, m) <=> Keeps(a, i, m)
  <2>1. \A k \in 1..(i - 1) : k \in 1..Len(a)
    BY <1>2
  <2>2. \A k \in 1..(i - 1) : c[k] = a[k]
    BY <1>2, <2>1
  <2>3. \A j \in 1..(i - 1) : \A k \in (j + 1)..(i - 1) : c[k] = a[k]
    BY <2>2
  <2> QED BY <2>2, <2>3 DEF Keeps
<1>4. ASSUME NEW i \in 1..(Len(b) + 1), NEW m \in Mutexes
      PROVE  Keeps(c, Len(a) + i, m) <=> Keeps(b, i, m)
  <2>1. ASSUME Keeps(b, i, m)
        PROVE  Keeps(c, Len(a) + i, m)
    <3>1. PICK j \in 1..(i - 1) :
             /\ b[j].op = "lock" /\ b[j].of = m
             /\ \A k \in (j + 1)..(i - 1) : ~(b[k].op = "unlock" /\ b[k].of = m)
      BY <2>1 DEF Keeps
    <3>2. c[Len(a) + j] = b[j] /\ Len(a) + j \in 1..(Len(a) + i - 1)
      BY <1>2, <3>1
    <3>3. ASSUME NEW k \in (Len(a) + j + 1)..(Len(a) + i - 1)
          PROVE  ~(c[k].op = "unlock" /\ c[k].of = m)
      <4>1. k - Len(a) \in (j + 1)..(i - 1) /\ k - Len(a) \in 1..Len(b) /\ k = Len(a) + (k - Len(a))
        BY <1>2
      <4>2. c[k] = b[k - Len(a)]
        BY <1>2, <4>1
      <4> QED BY <3>1, <4>1, <4>2
    <3> QED BY <3>1, <3>2, <3>3 DEF Keeps
  <2>2. ASSUME Keeps(c, Len(a) + i, m)
        PROVE  Keeps(b, i, m)
    <3>1. PICK j \in 1..(Len(a) + i - 1) :
             /\ c[j].op = "lock" /\ c[j].of = m
             /\ \A k \in (j + 1)..(Len(a) + i - 1) : ~(c[k].op = "unlock" /\ c[k].of = m)
      BY <2>2 DEF Keeps
    <3>2. CASE j \in 1..Len(a)
      <4>1. \A k \in (j + 1)..Len(a) : k \in (j + 1)..(Len(a) + i - 1)
        BY <1>2
      <4>2. \A k \in (j + 1)..Len(a) : ~(c[k].op = "unlock" /\ c[k].of = m)
        BY <3>1, <4>1
      <4>3. Keeps(c, Len(a) + 1, m)
        BY <1>2, <3>1, <3>2, <4>2 DEF Keeps
      <4> QED BY <1>2, <1>3, <4>3 DEF Safe
    <3>3. CASE j \notin 1..Len(a)
      <4>1. j - Len(a) \in 1..(i - 1) /\ j - Len(a) \in 1..Len(b) /\ j = Len(a) + (j - Len(a))
        BY <1>2, <3>3
      <4>2. c[j] = b[j - Len(a)]
        BY <1>2, <4>1
      <4>3. ASSUME NEW k \in (j - Len(a) + 1)..(i - 1)
            PROVE  ~(b[k].op = "unlock" /\ b[k].of = m)
        <5>1. Len(a) + k \in (j + 1)..(Len(a) + i - 1) /\ k \in 1..Len(b)
          BY <1>2, <4>1
        <5> QED BY <1>2, <3>1, <5>1
      <4> QED BY <3>1, <4>1, <4>2, <4>3 DEF Keeps
    <3> QED BY <3>2, <3>3
  <2> QED BY <2>1, <2>2
<1>5. \A m \in Mutexes : ~Keeps(c, Len(c) + 1, m)
  <2> SUFFICES ASSUME NEW m \in Mutexes
               PROVE  ~Keeps(c, Len(c) + 1, m)
    OBVIOUS
  <2>1. Len(b) + 1 \in 1..(Len(b) + 1) /\ Len(c) + 1 = Len(a) + (Len(b) + 1)
    BY <1>2
  <2> QED BY <1>4, <2>1 DEF Safe
<1>6. ASSUME NEW i \in 1..Len(c)
      PROVE  \/ \E j \in 1..Len(a) : c[i] = a[j] /\ \A m \in Mutexes : Keeps(c, i, m) <=> Keeps(a, j, m)
             \/ \E j \in 1..Len(b) : c[i] = b[j] /\ \A m \in Mutexes : Keeps(c, i, m) <=> Keeps(b, j, m)
  <2>1. CASE i \in 1..Len(a)
    <3>1. i \in 1..(Len(a) + 1)
      BY <1>2, <2>1
    <3> QED BY <1>2, <1>3, <2>1, <3>1
  <2>2. CASE i \notin 1..Len(a)
    <3>1. i - Len(a) \in 1..Len(b) /\ i - Len(a) \in 1..(Len(b) + 1) /\ i = Len(a) + (i - Len(a))
      BY <1>2, <2>2
    <3>2. \A m \in Mutexes : Keeps(c, Len(a) + (i - Len(a)), m) <=> Keeps(b, i - Len(a), m)
      BY <1>4, <3>1
    <3>3. c[i] = b[i - Len(a)]
      BY <1>2, <3>1
    <3> QED BY <3>1, <3>2, <3>3
  <2> QED BY <2>1, <2>2
<1>7. ASSUME NEW i \in 1..Len(c)
      PROVE  /\ c[i].op = "lock" =>
                   /\ c[i].of \in Mutexes /\ r < Rank[c[i].of]
                   /\ \A m \in Mutexes : Keeps(c, i, m) => Rank[m] < Rank[c[i].of]
             /\ c[i].op = "unlock" => c[i].of \in Mutexes /\ Keeps(c, i, c[i].of)
             /\ c[i].op \in {"wait", "write"} =>
                   r = 0 /\ \A m \in Mutexes : ~Keeps(c, i, m)
  <2>1. CASE \E j \in 1..Len(a) : c[i] = a[j] /\ \A m \in Mutexes : Keeps(c, i, m) <=> Keeps(a, j, m)
    BY <2>1 DEF Safe
  <2>2. CASE \E j \in 1..Len(b) : c[i] = b[j] /\ \A m \in Mutexes : Keeps(c, i, m) <=> Keeps(b, j, m)
    BY <2>2 DEF Safe
  <2> QED BY <1>6, <2>1, <2>2
<1>8. Safe(c, r)
  BY <1>2, <1>5, <1>7 DEF Safe
<1> QED BY <1>8 DEF c

\* What is safe inside m's block is safe outside with the block around it.
LEMMA SafeLocked ==
  ASSUME NEW r \in Nat, NEW m \in Mutexes, r < Rank[m], NEW b, Safe(b, Rank[m])
  PROVE  Safe(Locked(m, b), r)
<1> DEFINE c == Locked(m, b)
<1>1. b \in StepsType /\ Rank[m] \in 1..3
  BY RanksAreNumbers DEF Safe
<1>2. /\ c \in StepsType
      /\ Len(b) \in Nat /\ Len(c) = Len(b) + 2
      /\ c[1] = Lock(m) /\ c[Len(b) + 2] = Unlock(m)
      /\ \A i \in 1..Len(b) : c[i + 1] = b[i]
  BY <1>1 DEF StepsType, Locked, Lock, Unlock
<1> HIDE DEF c
<1>3. \A i \in 1..Len(b) : b[i].of = m => b[i].op \notin {"lock", "unlock"}
  <2> SUFFICES ASSUME NEW i \in 1..Len(b), b[i].of = m, b[i].op \in {"lock", "unlock"}
               PROVE  FALSE
    OBVIOUS
  <2>1. \A j \in 1..Len(b) : b[j].op = "lock" => b[j].of # m
    BY <1>1, RanksAreNumbers DEF Safe
  <2>2. Keeps(b, i, m)
    BY <2>1 DEF Safe
  <2> QED BY <1>2, <2>1, <2>2 DEF Keeps
<1>4. ASSUME NEW i \in 1..(Len(b) + 1)
      PROVE  Keeps(c, i + 1, m)
  <2>1. \A k \in 2..i : ~(c[k].op = "unlock" /\ c[k].of = m)
    <3> SUFFICES ASSUME NEW k \in 2..i
                 PROVE  ~(c[k].op = "unlock" /\ c[k].of = m)
      OBVIOUS
    <3>1. k - 1 \in 1..Len(b) /\ k = (k - 1) + 1
      BY <1>2
    <3>2. c[k] = b[k - 1]
      BY <1>2, <3>1
    <3> QED BY <1>3, <3>1, <3>2
  <2>2. c[1].op = "lock" /\ c[1].of = m
    BY <1>2 DEF Lock
  <2> QED BY <1>2, <2>1, <2>2 DEF Keeps
<1>5. ASSUME NEW i \in 1..(Len(b) + 1), NEW x \in Mutexes, x # m
      PROVE  Keeps(c, i + 1, x) <=> Keeps(b, i, x)
  <2>1. ASSUME Keeps(b, i, x)
        PROVE  Keeps(c, i + 1, x)
    <3>1. PICK j \in 1..(i - 1) :
             /\ b[j].op = "lock" /\ b[j].of = x
             /\ \A k \in (j + 1)..(i - 1) : ~(b[k].op = "unlock" /\ b[k].of = x)
      BY <2>1 DEF Keeps
    <3>2. c[j + 1] = b[j] /\ j + 1 \in 1..i
      BY <1>2, <3>1
    <3>3. ASSUME NEW k \in (j + 2)..i
          PROVE  ~(c[k].op = "unlock" /\ c[k].of = x)
      <4>1. k - 1 \in (j + 1)..(i - 1) /\ k - 1 \in 1..Len(b) /\ k = (k - 1) + 1
        BY <1>2
      <4>2. c[k] = b[k - 1]
        BY <1>2, <4>1
      <4> QED BY <3>1, <4>1, <4>2
    <3> QED BY <3>1, <3>2, <3>3 DEF Keeps
  <2>2. ASSUME Keeps(c, i + 1, x)
        PROVE  Keeps(b, i, x)
    <3>1. PICK j \in 1..i :
             /\ c[j].op = "lock" /\ c[j].of = x
             /\ \A k \in (j + 1)..i : ~(c[k].op = "unlock" /\ c[k].of = x)
      BY <2>2 DEF Keeps
    <3>2. j # 1
      BY <1>2, <1>5, <3>1 DEF Lock
    <3>3. j - 1 \in 1..(i - 1) /\ j - 1 \in 1..Len(b) /\ j = (j - 1) + 1
      BY <1>2, <3>2
    <3>4. c[j] = b[j - 1]
      BY <1>2, <3>3
    <3>5. ASSUME NEW k \in j..(i - 1)
          PROVE  ~(b[k].op = "unlock" /\ b[k].of = x)
      <4>1. k + 1 \in (j + 1)..i /\ k \in 1..Len(b)
        BY <1>2, <3>3
      <4> QED BY <1>2, <3>1, <4>1
    <3> QED BY <3>1, <3>3, <3>4, <3>5 DEF Keeps
  <2> QED BY <2>1, <2>2
<1>6. \A x \in Mutexes : ~Keeps(c, Len(c) + 1, x)
  <2> SUFFICES ASSUME NEW x \in Mutexes, Keeps(c, Len(c) + 1, x)
               PROVE  FALSE
    OBVIOUS
  <2>1. PICK j \in 1..Len(c) :
           /\ c[j].op = "lock" /\ c[j].of = x
           /\ \A k \in (j + 1)..Len(c) : ~(c[k].op = "unlock" /\ c[k].of = x)
    BY <1>2 DEF Keeps
  <2>2. j # Len(b) + 2
    BY <1>2, <2>1 DEF Unlock
  <2>3. j \in 1..(Len(b) + 1) /\ Len(b) + 2 \in (j + 1)..Len(c)
    BY <1>2, <2>2
  <2>4. x # m
    BY <1>2, <2>1, <2>3 DEF Unlock
  <2>5. Keeps(c, Len(b) + 2, x)
    BY <1>2, <2>1, <2>3 DEF Keeps
  <2>6. Len(b) + 1 \in 1..(Len(b) + 1) /\ Len(b) + 2 = (Len(b) + 1) + 1
    BY <1>2
  <2> QED BY <1>5, <2>4, <2>5, <2>6 DEF Safe
<1>7. ASSUME NEW i \in 1..Len(c)
      PROVE  /\ c[i].op = "lock" =>
                   /\ c[i].of \in Mutexes /\ r < Rank[c[i].of]
                   /\ \A x \in Mutexes : Keeps(c, i, x) => Rank[x] < Rank[c[i].of]
             /\ c[i].op = "unlock" => c[i].of \in Mutexes /\ Keeps(c, i, c[i].of)
             /\ c[i].op \notin {"wait", "write"}
  <2>1. CASE i = 1
    BY <1>2, <2>1 DEF Keeps, Lock
  <2>2. CASE i = Len(b) + 2
    <3>1. Keeps(c, (Len(b) + 1) + 1, m)
      BY <1>2, <1>4
    <3> QED BY <1>2, <2>2, <3>1 DEF Unlock
  <2>3. CASE i # 1 /\ i # Len(b) + 2
    <3>1. i - 1 \in 1..Len(b) /\ i - 1 \in 1..(Len(b) + 1) /\ i = (i - 1) + 1
      BY <1>2, <2>3
    <3>2. c[i] = b[i - 1]
      BY <1>2, <3>1
    <3>3. \A x \in Mutexes : x # m => (Keeps(c, i, x) <=> Keeps(b, i - 1, x))
      BY <1>5, <3>1
    <3>4. b[i - 1].op = "lock" =>
             /\ b[i - 1].of \in Mutexes /\ Rank[m] < Rank[b[i - 1].of]
             /\ \A x \in Mutexes : Keeps(b, i - 1, x) => Rank[x] < Rank[b[i - 1].of]
      BY <3>1 DEF Safe
    <3>5. b[i - 1].op = "unlock" => b[i - 1].of \in Mutexes /\ Keeps(b, i - 1, b[i - 1].of)
      BY <3>1 DEF Safe
    <3>6. b[i - 1].op \notin {"wait", "write"}
      BY <1>1, <3>1 DEF Safe
    <3>7. ASSUME c[i].op = "lock"
          PROVE  /\ c[i].of \in Mutexes /\ r < Rank[c[i].of]
                 /\ \A x \in Mutexes : Keeps(c, i, x) => Rank[x] < Rank[c[i].of]
      <4>1. c[i].of \in Mutexes /\ Rank[m] < Rank[c[i].of]
        BY <3>2, <3>4, <3>7
      <4>2. Rank[c[i].of] \in 1..3
        BY <4>1, RanksAreNumbers
      <4>3. r < Rank[c[i].of]
        BY <1>1, <4>1, <4>2
      <4>4. ASSUME NEW x \in Mutexes, Keeps(c, i, x)
            PROVE  Rank[x] < Rank[c[i].of]
        BY <3>2, <3>3, <3>4, <3>7, <4>1, <4>4
      <4> QED BY <4>1, <4>3, <4>4
    <3>8. ASSUME c[i].op = "unlock"
          PROVE  c[i].of \in Mutexes /\ Keeps(c, i, c[i].of)
      <4>1. c[i].of \in Mutexes /\ Keeps(b, i - 1, c[i].of)
        BY <3>2, <3>5, <3>8
      <4>2. c[i].of # m
        BY <1>3, <3>1, <3>2, <3>8
      <4> QED BY <3>3, <4>1, <4>2
    <3> QED BY <3>2, <3>6, <3>7, <3>8
  <2> QED BY <2>1, <2>2, <2>3
<1>8. Safe(c, r)
  BY <1>2, <1>6, <1>7 DEF Safe
<1> QED BY <1>8 DEF c

-----------------------------------------------------------------------------
(* The handlers.                                                           *)

\* The registry's methods and the rate limiter's, wherever they are called.
LEMMA SafeLeaves == \A r \in 0..2 : Safe(Registry, r) /\ Safe(RateLimit, r)
<1>1. "registry" \in Mutexes /\ Rank["registry"] = 3 /\ "rateLimit" \in Mutexes /\ Rank["rateLimit"] = 3
  BY DEF Rank, Mutexes
<1> QED BY <1>1, SafeEmpty, SafeLocked DEF Registry, RateLimit

Broadcasters == {"messages", "privateMessages", "clientEvents"}

LEMMA BroadcastersRank == Broadcasters \subseteq Mutexes /\ \A m \in Broadcasters : Rank[m] = 2
  BY DEF Broadcasters, Rank, Mutexes

\* What a callback may do under the dispatcher's mutex, and what it does.
LEMMA SafeCallbacks ==
  /\ \A r \in 0..1 : \A m \in Broadcasters : Safe(Locked(m, <<>>), r) /\ Safe(Normalize(m), r)
  /\ \A cleanUp \in CleanUp : Safe(cleanUp, 1)
<1>1. Safe(<<>>, 2) /\ Safe(Registry, 2) /\ Safe(Registry \o Registry, 2)
  BY SafeEmpty, SafeLeaves, SafeConcat
<1>2. ASSUME NEW r \in 0..1, NEW m \in Broadcasters, NEW b, Safe(b, 2)
      PROVE  Safe(Locked(m, b), r)
  BY <1>2, BroadcastersRank, SafeLocked
<1>3. "privateMessages" \in Broadcasters
  BY DEF Broadcasters
<1> QED BY <1>1, <1>2, <1>3 DEF Normalize, CleanUp

\* A walk over callbacks that respect the dispatcher's rank.
LEMMA SafeWalk == ASSUME NEW b, Safe(b, 1) PROVE Safe(Walk(b), 0)
<1>1. "dispatcher" \in Mutexes /\ Rank["dispatcher"] = 1
  BY DEF Rank, Mutexes
<1> QED BY <1>1, SafeLocked DEF Walk

\* Taking an item, with its wait, and writing it.
LEMMA SafeItems ==
  ASSUME NEW m \in Broadcasters
  PROVE  /\ \A s \in NextItem(m) : Safe(s, 0)
         /\ \A s \in Delivered(m) : Safe(s, 0)
<1>1. Safe(Locked(m, Registry), 0)
  BY SafeCallbacks DEF Normalize
<1>2. Safe(Locked(m, Registry) \o <<Wait(m)>>, 0)
  BY <1>1, SafeSleep, SafeConcat, BroadcastersRank
<1>3. Safe(Locked(m, Registry) \o <<Wait(m)>> \o Locked(m, Registry), 0)
  BY <1>1, <1>2, SafeConcat
<1>4. \A s \in NextItem(m) : Safe(s, 0)
  BY <1>1, <1>3 DEF NextItem
<1> QED BY <1>4, SafeSleep, SafeConcat DEF Delivered

LEMMA RoundSteps == \A s : Last(s).steps = s /\ More(s).steps = s
  BY DEF Last, More

LEMMA SafeUnary ==
  \A r \in Connect \cup Disconnect \cup SendMessage : Safe(r.steps, 0)
<1>1. \A a, b : Safe(a, 0) /\ Safe(b, 0) => Safe(a \o b, 0)
  BY SafeConcat
<1>2. Safe(Registry, 0) /\ Safe(RateLimit, 0) /\ Safe(Registry, 1)
  BY SafeLeaves
<1>3. "messages" \in Broadcasters /\ "privateMessages" \in Broadcasters /\ "clientEvents" \in Broadcasters
  BY DEF Broadcasters
<1>4. Safe(Registry \o Locked("clientEvents", <<>>), 1)
  BY <1>2, <1>3, SafeCallbacks, SafeConcat
<1>5. \A r \in Connect : Safe(r.steps, 0)
  <2>1. Safe(Walk(Registry \o Locked("clientEvents", <<>>)), 0)
    BY <1>4, SafeWalk
  <2>2. Safe(Registry \o Registry \o Walk(Registry \o Locked("clientEvents", <<>>)), 0)
    BY <1>1, <1>2, <2>1
  <2> QED BY <1>2, <2>2, RoundSteps DEF Connect
<1>6. \A r \in Disconnect : Safe(r.steps, 0)
  <2>1. ASSUME NEW cleanUp \in CleanUp
        PROVE  Safe(Registry \o Walk(Registry \o Locked("clientEvents", <<>>) \o cleanUp), 0)
    <3>1. Safe(Registry \o Locked("clientEvents", <<>>) \o cleanUp, 1)
      BY <1>4, SafeCallbacks, SafeConcat
    <3>2. Safe(Walk(Registry \o Locked("clientEvents", <<>>) \o cleanUp), 0)
      BY <3>1, SafeWalk
    <3> QED BY <1>1, <1>2, <3>2
  <2> QED BY <1>2, <2>1, RoundSteps DEF Disconnect
<1>7. \A r \in SendMessage : Safe(r.steps, 0)
  <2>1. Safe(Walk(Locked("messages", <<>>)), 0) /\ Safe(Walk(Locked("privateMessages", <<>>)), 0)
    BY <1>3, SafeCallbacks, SafeWalk
  <2>2. Safe(Registry \o RateLimit, 0)
    BY <1>1, <1>2
  <2>3. Safe(Registry \o RateLimit \o Registry, 0)
    BY <1>1, <1>2, <2>2
  <2>4. /\ Safe(Registry \o RateLimit \o Walk(Locked("messages", <<>>)), 0)
        /\ Safe(Registry \o RateLimit \o Registry \o Walk(Locked("privateMessages", <<>>)), 0)
    BY <1>1, <2>1, <2>2, <2>3
  <2> QED BY <1>2, <2>2, <2>3, <2>4, RoundSteps DEF SendMessage
<1> QED BY <1>5, <1>6, <1>7

LEMMA ThenSplits ==
  ASSUME NEW firsts, NEW seconds, NEW s \in Then(firsts, seconds)
  PROVE  \E a \in firsts : \E b \in seconds : s = a \o b
<1>1. PICK a \in firsts : s \in {a \o b : b \in seconds}
  BY DEF Then
<1> QED BY <1>1

LEMMA SafeStreaming ==
  \A r \in SubscribeMessages \cup SubscribeClientEvents \cup MessagesLoop \cup EventsLoop :
     Safe(r.steps, 0)
<1>1. \A a, b : Safe(a, 0) /\ Safe(b, 0) => Safe(a \o b, 0)
  BY SafeConcat
<1>2. "messages" \in Broadcasters /\ "privateMessages" \in Broadcasters /\ "clientEvents" \in Broadcasters
  BY DEF Broadcasters
<1>3. \A m \in Broadcasters : Safe(Normalize(m), 0)
  BY SafeCallbacks
<1>4. \A r \in SubscribeMessages : Safe(r.steps, 0)
  <2>1. Safe(Normalize("messages") \o Normalize("privateMessages"), 0)
    BY <1>1, <1>2, <1>3
  <2> QED BY <1>2, <1>3, <2>1, RoundSteps DEF SubscribeMessages
<1>5. \A r \in SubscribeClientEvents : Safe(r.steps, 0)
  <2>1. Safe(Registry, 0)
    BY SafeLeaves
  <2>2. Safe(Registry \o Normalize("clientEvents"), 0)
    BY <1>1, <1>2, <1>3, <2>1
  <2> QED BY <2>1, <2>2, RoundSteps DEF SubscribeClientEvents
<1>6. \A r \in MessagesLoop : Safe(r.steps, 0)
  <2>1. \A p \in NextItem("privateMessages") \cup Delivered("privateMessages") : Safe(p, 0)
    BY <1>2, SafeItems
  <2>2. \A m \in NextItem("messages") \cup Delivered("messages") : Safe(m, 0)
    BY <1>2, SafeItems
  <2> DEFINE both == Then(NextItem("privateMessages"), NextItem("messages") \cup Delivered("messages"))
             steps == NextItem("privateMessages") \cup Delivered("privateMessages") \cup both
  <2>3. ASSUME NEW s \in both
        PROVE  Safe(s, 0)
    <3>1. PICK p \in NextItem("privateMessages"), m \in NextItem("messages") \cup Delivered("messages") :
             s = p \o m
      BY ThenSplits
    <3> QED BY <1>1, <2>1, <2>2, <3>1
  <2>4. \A s \in steps : Safe(s, 0)
    BY <2>1, <2>3
  <2>5. \A r \in MessagesLoop : \E s \in steps : r = Last(s) \/ r = More(s)
    BY DEF MessagesLoop, Then
  <2> QED BY <2>4, <2>5, RoundSteps
<1>7. \A r \in EventsLoop : Safe(r.steps, 0)
  BY <1>2, SafeItems, RoundSteps DEF EventsLoop
<1> QED BY <1>4, <1>5, <1>6, <1>7

\* A round of any handler is safe.
LEMMA SafeRounds ==
  ASSUME NEW c \in Unary \cup Streaming \cup {"none"}, NEW r \in RoundsOf(c)
  PROVE  Safe(r.steps, 0)
<1>1. \A x \in Begun[c] : c # "none" => Safe(x.steps, 0)
  BY SafeUnary, SafeStreaming DEF Begun, Unary, Streaming
<1>2. \A x \in Looped[c] : c \in Streaming => Safe(x.steps, 0)
  BY SafeStreaming DEF Looped, Streaming
<1>3. Safe(Idle.steps, 0)
  BY SafeEmpty, RoundSteps DEF Idle
<1> QED BY <1>1, <1>2, <1>3 DEF RoundsOf

-----------------------------------------------------------------------------
(* Threads.                                                                *)

\* What a thread has is what its steps so far keep.
HoldersRight ==
    \A t \in Threads : \A m \in Mutexes : Holds(t, m) <=> Keeps(round[t].steps, at[t], m)

Inv == TypeOK /\ HoldersRight

\* A thread between two steps of a safe round.
LEMMA RoundSafe ==
  ASSUME TypeOK, NEW t \in Threads
  PROVE  /\ Safe(round[t].steps, 0)
         /\ Len(round[t].steps) \in Nat /\ at[t] \in 1..(Len(round[t].steps) + 1)
         /\ \A op : NextIs(t, op) => at[t] \in 1..Len(round[t].steps)
<1>1. call[t] \in Unary \cup Streaming \cup {"none"} /\ round[t] \in RoundsOf(call[t])
  BY DEF TypeOK
<1>2. Safe(round[t].steps, 0)
  BY <1>1, SafeRounds
<1>3. Len(round[t].steps) \in Nat
  BY <1>2 DEF Safe, StepsType
<1> QED BY <1>2, <1>3 DEF TypeOK, NextIs, RoundOver

\* Before the first step and after the last a round keeps nothing.
LEMMA EndsKeepNothing ==
  ASSUME NEW s, Safe(s, 0), NEW m \in Mutexes
  PROVE  ~Keeps(s, 1, m) /\ ~Keeps(s, Len(s) + 1, m)
  BY DEF Safe, Keeps

\* A step keeps what was kept, but for the mutex that it takes or gives back.
LEMMA KeepsNext ==
  ASSUME NEW s, Safe(s, 0), Len(s) \in Nat, NEW i \in 1..Len(s), NEW m \in Mutexes
  PROVE  Keeps(s, i + 1, m) <=>
            \/ s[i].op = "lock" /\ s[i].of = m
            \/ Keeps(s, i, m) /\ ~(s[i].op = "unlock" /\ s[i].of = m)
<1>1. ASSUME s[i].op = "lock" /\ s[i].of = m
      PROVE  Keeps(s, i + 1, m)
  <2>1. \A k \in (i + 1)..i : FALSE
    OBVIOUS
  <2> QED BY <1>1, <2>1 DEF Keeps
<1>2. ASSUME Keeps(s, i, m), ~(s[i].op = "unlock" /\ s[i].of = m)
      PROVE  Keeps(s, i + 1, m)
  <2>1. PICK j \in 1..(i - 1) :
           /\ s[j].op = "lock" /\ s[j].of = m
           /\ \A k \in (j + 1)..(i - 1) : ~(s[k].op = "unlock" /\ s[k].of = m)
    BY <1>2 DEF Keeps
  <2>2. \A k \in (j + 1)..i : k = i \/ k \in (j + 1)..(i - 1)
    OBVIOUS
  <2> QED BY <1>2, <2>1, <2>2 DEF Keeps
<1>3. ASSUME Keeps(s, i + 1, m), ~(s[i].op = "lock" /\ s[i].of = m)
      PROVE  Keeps(s, i, m) /\ ~(s[i].op = "unlock" /\ s[i].of = m)
  <2>1. PICK j \in 1..i :
           /\ s[j].op = "lock" /\ s[j].of = m
           /\ \A k \in (j + 1)..i : ~(s[k].op = "unlock" /\ s[k].of = m)
    BY <1>3 DEF Keeps
  <2>2. j \in 1..(i - 1) /\ i \in (j + 1)..i
    BY <1>3, <2>1
  <2>3. \A k \in (j + 1)..(i - 1) : k \in (j + 1)..i
    OBVIOUS
  <2> QED BY <2>1, <2>2, <2>3 DEF Keeps
<1> QED BY <1>1, <1>2, <1>3

LEMMA InvInit == Init => Inv
<1> SUFFICES ASSUME Init PROVE Inv
  OBVIOUS
<1>1. Len(Idle.steps) = 0
  BY RoundSteps DEF Idle
<1>2. TypeOK
  <2>1. Idle \in RoundsOf("none")
    BY DEF RoundsOf
  <2>2. \A t \in Threads : call[t] = "none" /\ round[t] = Idle /\ at[t] = 1
    BY DEF Init
  <2>3. ASSUME NEW t \in Threads
        PROVE  round[t] \in RoundsOf(call[t]) /\ at[t] \in 1..(Len(round[t].steps) + 1)
    <3>1. round[t] = Idle /\ RoundsOf(call[t]) = RoundsOf("none") /\ at[t] = 1
      BY <2>2
    <3>2. Len(round[t].steps) = 0
      BY <1>1, <3>1
    <3> QED BY <2>1, <3>1, <3>2
  <2>4. round \in [Threads -> UNION {RoundsOf(c) : c \in Unary \cup Streaming \cup {"none"}}]
    BY <2>1 DEF Init
  <2> QED BY <2>3, <2>4, MaxRoundsAssumption DEF Init, TypeOK
<1>3. HoldersRight
  <2>1. \A t \in Threads : \A m \in Mutexes : ~Keeps(round[t].steps, at[t], m)
    BY DEF Init, Keeps
  <2> QED BY <2>1, NoThreadAssumption DEF Init, HoldersRight, Holds
<1> QED BY <1>2, <1>3 DEF Inv

\* A thread whose round is over begins another, of a call that has it.
LEMMA NextRound ==
  ASSUME Inv, NEW t \in Threads, RoundOver(t),
         NEW c \in Unary \cup Streaming \cup {"none"}, NEW r \in RoundsOf(c),
         call' = [call EXCEPT ![t] = c], round' = [round EXCEPT ![t] = r],
         at' = [at EXCEPT ![t] = 1], rounds' \in 0..MaxRounds, UNCHANGED holder
  PROVE  Inv'
<1>1. Safe(r.steps, 0)
  BY SafeRounds
<1>2. Len(r.steps) \in Nat
  BY <1>1 DEF Safe, StepsType
<1>3. TypeOK'
  BY <1>2 DEF Inv, TypeOK
<1>4. \A m \in Mutexes : ~Keeps(round[t].steps, at[t], m) /\ ~Keeps(r.steps, 1, m)
  <2>1. at[t] = Len(round[t].steps) + 1 /\ Safe(round[t].steps, 0)
    BY RoundSafe DEF Inv, RoundOver
  <2> QED BY <1>1, <2>1, EndsKeepNothing
<1>5. HoldersRight'
  <2> SUFFICES ASSUME NEW u \in Threads, NEW m \in Mutexes
               PROVE  Holds(u, m)' <=> Keeps(round'[u].steps, at'[u], m)
    BY DEF HoldersRight
  <2>1. CASE u = t
    <3>1. round'[u] = r /\ at'[u] = 1
      BY <2>1 DEF Inv, TypeOK
    <3> QED BY <1>4, <2>1, <3>1 DEF Inv, HoldersRight, Holds
  <2>2. CASE u # t
    <3>1. round'[u] = round[u] /\ at'[u] = at[u]
      BY <2>2 DEF Inv, TypeOK
    <3> QED BY <3>1 DEF Inv, HoldersRight, Holds
  <2> QED BY <2>1, <2>2
<1> QED BY <1>3, <1>5 DEF Inv

\* A thread takes its next step, and this is all it does to mutexes.
LEMMA NextStep ==
  ASSUME Inv, NEW t \in Threads, NEW op, NextIs(t, op), Advance(t),
         holder' \in [Mutexes -> Threads \cup {NoThread}],
         \A u \in Threads : \A m \in Mutexes :
            Holds(u, m)' <=> (\/ u = t /\ op = "lock" /\ m = Mutex(t)
                              \/ Holds(u, m) /\ ~(u = t /\ op = "unlock" /\ m = Mutex(t)))
  PROVE  Inv'
<1> DEFINE s == round[t].steps
           i == at[t]
<1>1. Safe(s, 0) /\ Len(s) \in Nat /\ i \in 1..Len(s)
  BY RoundSafe DEF Inv
<1>2. s[i].op = op /\ Mutex(t) = s[i].of
  BY DEF NextIs, Mutex
<1>3. TypeOK'
  BY <1>1 DEF Inv, TypeOK, Advance
<1>4. HoldersRight'
  <2> SUFFICES ASSUME NEW u \in Threads, NEW m \in Mutexes
               PROVE  Holds(u, m)' <=> Keeps(round'[u].steps, at'[u], m)
    BY DEF HoldersRight
  <2>1. CASE u = t
    <3>1. round'[u].steps = s /\ at'[u] = i + 1
      BY <2>1 DEF Inv, TypeOK, Advance
    <3>2. Holds(t, m) <=> Keeps(s, i, m)
      BY DEF Inv, HoldersRight
    <3> HIDE DEF s, i
    <3>3. Keeps(s, i + 1, m) <=>
             \/ s[i].op = "lock" /\ s[i].of = m
             \/ Keeps(s, i, m) /\ ~(s[i].op = "unlock" /\ s[i].of = m)
      BY <1>1, KeepsNext
    <3> QED BY <1>2, <2>1, <3>1, <3>2, <3>3
  <2>2. CASE u # t
    <3>1. round'[u] = round[u] /\ at'[u] = at[u]
      BY <2>2 DEF Inv, TypeOK, Advance
    <3>2. Holds(u, m)' <=> Holds(u, m)
      BY <2>2
    <3> QED BY <3>1, <3>2 DEF Inv, HoldersRight
  <2> QED BY <2>1, <2>2
<1> QED BY <1>3, <1>4 DEF Inv

\* A unary handler does not loop.
LEMMA UnaryRounds == \A c \in Unary : \A r \in RoundsOf(c) : ~r.more
<1>1. \A s : Last(s).more = FALSE
  BY DEF Last
<1>2. \A r \in Connect \cup Disconnect \cup SendMessage : ~r.more
  BY <1>1 DEF Connect, Disconnect, SendMessage
<1> QED BY <1>2 DEF Unary, Streaming, RoundsOf, Begun

LEMMA InvNext == Inv /\ [Next]_vars => Inv'
<1> SUFFICES ASSUME Inv, [Next]_vars PROVE Inv'
  OBVIOUS
<1>1. ASSUME NEW t \in Threads, Begin(t)
      PROVE  Inv'
  <2>1. PICK c \in Unary \cup Streaming : \E r \in Begun[c] :
           StartRound(t, r) /\ call' = [call EXCEPT ![t] = c]
    BY <1>1 DEF Begin
  <2>2. PICK r \in Begun[c] : StartRound(t, r) /\ call' = [call EXCEPT ![t] = c]
    BY <2>1
  <2>3. r \in RoundsOf(c) /\ c \in Unary \cup Streaming \cup {"none"}
    BY DEF RoundsOf, Unary, Streaming
  <2>4. RoundOver(t)
    <3>1. round[t] = Idle /\ Len(Idle.steps) = 0 /\ at[t] \in 1..(Len(round[t].steps) + 1)
      BY <1>1, RoundSteps DEF Begin, Inv, TypeOK, RoundsOf, Idle
    <3> QED BY <3>1 DEF RoundOver
  <2>5. rounds' \in 0..MaxRounds
    BY <2>2, MaxRoundsAssumption DEF StartRound, Inv, TypeOK
  <2> QED BY <2>2, <2>3, <2>4, <2>5, NextRound DEF StartRound
<1>2. ASSUME NEW t \in Threads, Loop(t)
      PROVE  Inv'
  <2>1. PICK r \in Looped[call[t]] : StartRound(t, r)
    BY <1>2 DEF Loop
  <2>2. call[t] \in Streaming
    <3>1. call[t] \in Unary \cup Streaming /\ round[t] \in RoundsOf(call[t])
      BY <1>2 DEF Loop, Inv, TypeOK
    <3>2. \A c \in Unary : \A x \in RoundsOf(c) : ~x.more
      BY UnaryRounds
    <3> QED BY <1>2, <3>1, <3>2 DEF Loop
  <2>3. r \in RoundsOf(call[t]) /\ call[t] \in Unary \cup Streaming \cup {"none"}
    BY <2>1, <2>2 DEF RoundsOf, Streaming
  <2>4. call' = [call EXCEPT ![t] = call[t]]
    BY <1>2 DEF Loop, Inv, TypeOK
  <2>5. rounds' \in 0..MaxRounds
    BY <2>1, MaxRoundsAssumption DEF StartRound, Inv, TypeOK
  <2>6. RoundOver(t)
    BY <1>2 DEF Loop
  <2> QED BY <2>1, <2>3, <2>4, <2>5, <2>6, NextRound DEF StartRound
<1>3. ASSUME NEW t \in Threads, Return(t)
      PROVE  Inv'
  <2>1. Idle \in RoundsOf("none")
    BY DEF RoundsOf
  <2>2. rounds' \in 0..MaxRounds
    BY <1>3 DEF Return, Inv, TypeOK
  <2> QED BY <1>3, <2>1, <2>2, NextRound DEF Return
<1>4. ASSUME NEW t \in Threads, Acquire(t)
      PROVE  Inv'
  <2>1. Mutex(t) \in Mutexes
    BY <1>4, RoundSafe DEF Acquire, Inv, NextIs, Mutex, Safe
  <2>2. \A u \in Threads : \A m \in Mutexes :
           Holds(u, m)' <=> (\/ u = t /\ "lock" = "lock" /\ m = Mutex(t)
                             \/ Holds(u, m) /\ ~(u = t /\ "lock" = "unlock" /\ m = Mutex(t)))
    BY <1>4, <2>1, NoThreadAssumption DEF Acquire, Holds, Inv, TypeOK
  <2>3. holder' \in [Mutexes -> Threads \cup {NoThread}]
    BY <1>4 DEF Acquire, Inv, TypeOK
  <2> QED BY <1>4, <2>2, <2>3, NextStep DEF Acquire
<1>5. ASSUME NEW t \in Threads, Release(t)
      PROVE  Inv'
  <2>1. Mutex(t) \in Mutexes /\ Keeps(round[t].steps, at[t], Mutex(t))
    BY <1>5, RoundSafe DEF Release, Inv, NextIs, Mutex, Safe
  <2>2. holder[Mutex(t)] = t
    BY <2>1 DEF Inv, HoldersRight, Holds
  <2>3. \A u \in Threads : \A m \in Mutexes :
           Holds(u, m)' <=> (\/ u = t /\ "unlock" = "lock" /\ m = Mutex(t)
                             \/ Holds(u, m) /\ ~(u = t /\ "unlock" = "unlock" /\ m = Mutex(t)))
    BY <1>5, <2>1, <2>2, NoThreadAssumption DEF Release, Holds, Inv, TypeOK
  <2>4. holder' \in [Mutexes -> Threads \cup {NoThread}]
    BY <1>5 DEF Release, Inv, TypeOK
  <2> QED BY <1>5, <2>3, <2>4, NextStep DEF Release
<1>6. ASSUME NEW t \in Threads, NEW op \in {"wait", "write"},
             NextIs(t, op), Advance(t), UNCHANGED holder
      PROVE  Inv'
  <2>1. \A u \in Threads : \A m \in Mutexes :
           Holds(u, m)' <=> (\/ u = t /\ op = "lock" /\ m = Mutex(t)
                             \/ Holds(u, m) /\ ~(u = t /\ op = "unlock" /\ m = Mutex(t)))
    BY <1>6 DEF Holds
  <2>2. holder' \in [Mutexes -> Threads \cup {NoThread}]
    BY <1>6 DEF Inv, TypeOK
  <2> QED BY <1>6, <2>1, <2>2, NextStep
<1>7. ASSUME UNCHANGED vars
      PROVE  Inv'
  BY <1>7 DEF vars, Inv, TypeOK, HoldersRight, Holds
<1> QED BY <1>1, <1>2, <1>3, <1>4, <1>5, <1>6, <1>7 DEF Next, WakeUp, WriteReturns

LEMMA InvHolds == Spec => []Inv
  BY InvInit, InvNext, PTL DEF Spec

-----------------------------------------------------------------------------
(* Theorems.                                                               *)

\* Every thread is at a step of a round of its call.
THEOREM LocksTypeCorrect == Spec => []TypeOK
<1>1. Inv => TypeOK
  BY DEF Inv
<1> QED BY <1>1, InvHolds, PTL

\* Every handler takes mutexes in the order of their ranks.
THEOREM OrderKept == Spec => []LocksInOrder
<1>1. Inv => LocksInOrder
  <2> SUFFICES ASSUME Inv, NEW t \in Threads, NextIs(t, "lock"), NEW m \in Mutexes, Holds(t, m)
               PROVE  Rank[m] < Rank[Mutex(t)]
    BY DEF LocksInOrder
  <2>1. Keeps(round[t].steps, at[t], m)
    BY DEF Inv, HoldersRight
  <2>2. Safe(round[t].steps, 0) /\ at[t] \in 1..Len(round[t].steps)
    BY RoundSafe DEF Inv
  <2> QED BY <2>1, <2>2 DEF Safe, NextIs, Mutex
<1> QED BY <1>1, InvHolds, PTL

\* No thread sleeps in wait_for, or writes to a client, with a mutex.
THEOREM SleepersAreFree == Spec => []SleepersHoldNothing
<1>1. Inv => SleepersHoldNothing
  <2> SUFFICES ASSUME Inv, NEW t \in Threads, NextIs(t, "wait") \/ NextIs(t, "write"), NEW m \in Mutexes
               PROVE  ~Holds(t, m)
    BY DEF SleepersHoldNothing
  <2>1. Safe(round[t].steps, 0) /\ at[t] \in 1..Len(round[t].steps)
    BY RoundSafe DEF Inv
  <2>2. ~Keeps(round[t].steps, at[t], m)
    BY <2>1 DEF Safe, NextIs
  <2> QED BY <2>2 DEF Inv, HoldersRight
<1> QED BY <1>1, InvHolds, PTL

\* No handlers wait for each other in a circle: along one the ranks of the
\* mutexes that are waited for would grow for ever, and there are three.
THEOREM NoDeadlock == Spec => []NoCircularWait
<1>1. Inv /\ LocksInOrder => NoCircularWait
  <2> SUFFICES ASSUME Inv, LocksInOrder,
                      NEW group \in SUBSET Threads, group # {}, \A t \in group : BlockedBy(t, group)
               PROVE  FALSE
    BY DEF NoCircularWait
  <2>1. ASSUME NEW t \in group
        PROVE  Mutex(t) \in Mutexes /\ NextIs(t, "lock")
    BY <2>1, RoundSafe DEF BlockedBy, Inv, NextIs, Mutex, Safe
  <2>2. ASSUME NEW t \in group
        PROVE  \E u \in group : Rank[Mutex(t)] < Rank[Mutex(u)]
    <3>1. PICK u \in group : holder[Mutex(t)] = u
      BY <2>2 DEF BlockedBy
    <3> QED BY <2>1, <3>1 DEF LocksInOrder, Holds
  <2>3. \A t \in group : Rank[Mutex(t)] \in 1..3
    BY <2>1, RanksAreNumbers
  <2>4. PICK t \in group : TRUE
    OBVIOUS
  <2>5. PICK u \in group : Rank[Mutex(t)] < Rank[Mutex(u)]
    BY <2>2
  <2>6. PICK v \in group : Rank[Mutex(u)] < Rank[Mutex(v)]
    BY <2>2
  <2>7. PICK w \in group : Rank[Mutex(v)] < Rank[Mutex(w)]
    BY <2>2
  <2> QED BY <2>3, <2>5, <2>6, <2>7
<1> QED BY <1>1, InvHolds, OrderKept, PTL
=============================================================================

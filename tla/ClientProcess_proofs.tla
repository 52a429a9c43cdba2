------------------------- MODULE ClientProcess_proofs -------------------------
(***************************************************************************)
(* Proofs about the client's threads: the streams' threads are started and *)
(* ended in an order that overwrites none, leaves none behind, reports no  *)
(* cancellation of one's own and never waits for a silent server.          *)
(***************************************************************************)
EXTENDS ClientProcess, Integers, TLAPS

-----------------------------------------------------------------------------
(* Two more invariants                                                     *)

\* The GUI thread joins nobody who waits for the server: in Read or Finish
\* a thread that is joined has been cancelled.
JoinsNeverHang ==
    \A s \in Streams :
       AtStep("join", s) /\ thread[s] # NoThread /\ thread[s].pc \in {"read", "finish"} =>
          thread[s].cancelled

\* Both streams' threads are gone before Disconnect is sent and before
\* Connect is: to the server, a session's streams end before its Disconnect
\* begins, and the next session's streams begin after its Connect.
StreamsWithinSession ==
    AtStep("call", "Disconnect") \/ AtStep("call", "Connect") =>
        \A s \in Streams : thread[s] = NoThread /\ ~running[s]

-----------------------------------------------------------------------------
(* Programs, and what is left of them.                                     *)

\* A thread is launched just after a join, which comes just after the
\* cancellation, and that after the flag.  The first step's predecessor is
\* done already.
Ordered(steps) ==
    \A s \in Streams, i \in 1..Len(steps) :
       /\ i > 1 =>
            /\ steps[i] = <<"launch", s>> => steps[i - 1] = <<"join", s>>
            /\ steps[i] = <<"join", s>> => steps[i - 1] = <<"cancel", s>>
            /\ steps[i] = <<"cancel", s>> => steps[i - 1] = <<"flag", s>>
       /\ steps[i] = <<"flag", s>> => i < Len(steps) /\ steps[i + 1] = <<"cancel", s>>

\* A program of its own.
Whole(steps) ==
    /\ steps \in Seq(Step)
    /\ Ordered(steps)
    /\ \A s \in Streams : steps # <<>> =>
          steps[1] \notin {<<"launch", s>>, <<"join", s>>, <<"cancel", s>>}

\* The first k steps join s and do not launch it again.
JoinedBy(steps, k, s) ==
    \E i \in 1..k : steps[i] = <<"join", s>> /\ \A j \in i..k : steps[j] # <<"launch", s>>

\* No Disconnect before both streams are joined, and no Connect.
Closes(steps) ==
    \A i \in 1..Len(steps) :
       /\ steps[i] # <<"call", "Connect">>
       /\ steps[i] = <<"call", "Disconnect">> => \A s \in Streams : JoinedBy(steps, i - 1, s)

\* What a handler begins: it closes before it sends Disconnect.
Program(steps) == Whole(steps) /\ Closes(steps)

\* All of it done, both streams are joined.
Ends(steps) == \A s \in Streams : JoinedBy(steps, Len(steps), s)

LEMMA ConcatAt ==
    ASSUME NEW a \in Seq(Step), NEW b \in Seq(Step)
    PROVE  /\ a \o b \in Seq(Step) /\ Len(a \o b) = Len(a) + Len(b)
           /\ Len(a) \in Nat /\ Len(b) \in Nat
           /\ \A i \in 1..Len(a) : (a \o b)[i] = a[i]
           /\ \A i \in 1..Len(b) : (a \o b)[Len(a) + i] = b[i]
           /\ \A i \in 1..Len(a \o b) : i \in 1..Len(a) \/ i - Len(a) \in 1..Len(b)
           /\ \A i \in Int : i - Len(a) \in 1..Len(b) => (a \o b)[i] = b[i - Len(a)]
  OBVIOUS

LEMMA JoinedConcat ==
    ASSUME NEW a \in Seq(Step), NEW b \in Seq(Step), NEW s
    PROVE  /\ \A k \in 0..Len(a) : JoinedBy(a, k, s) => JoinedBy(a \o b, k, s)
           /\ \A k \in 0..Len(b) : JoinedBy(b, k, s) => JoinedBy(a \o b, Len(a) + k, s)
  <1>1. ASSUME NEW k \in 0..Len(a), JoinedBy(a, k, s)
        PROVE  JoinedBy(a \o b, k, s)
    <2>1. PICK i \in 1..k : a[i] = <<"join", s>> /\ \A j \in i..k : a[j] # <<"launch", s>>
      BY <1>1 DEF JoinedBy
    <2>2. \A j \in i..k : (a \o b)[j] = a[j]
      BY <2>1, ConcatAt
    <2>3. i \in i..k
      BY <2>1
    <2>4. QED
      BY <2>1, <2>2, <2>3 DEF JoinedBy
  <1>2. ASSUME NEW k \in 0..Len(b), JoinedBy(b, k, s)
        PROVE  JoinedBy(a \o b, Len(a) + k, s)
    <2>1. PICK i \in 1..k : b[i] = <<"join", s>> /\ \A j \in i..k : b[j] # <<"launch", s>>
      BY <1>2 DEF JoinedBy
    <2>2. Len(a) + i \in 1..(Len(a) + k) /\ (a \o b)[Len(a) + i] = <<"join", s>>
      BY <2>1, ConcatAt
    <2>3. ASSUME NEW j \in (Len(a) + i)..(Len(a) + k)
          PROVE  (a \o b)[j] # <<"launch", s>>
      <3>1. j - Len(a) \in i..k /\ j - Len(a) \in 1..Len(b) /\ j \in Int
        BY ConcatAt
      <3>2. (a \o b)[j] = b[j - Len(a)]
        BY <3>1, ConcatAt
      <3>3. QED
        BY <2>1, <3>1, <3>2
    <2>4. QED
      BY <2>2, <2>3 DEF JoinedBy
  <1>3. QED
    BY <1>1, <1>2

\* One whole program after another is whole.
LEMMA ProgramConcat ==
    ASSUME NEW a, NEW b, Program(a), Program(b)
    PROVE  Program(a \o b)
  <1> DEFINE c == a \o b
  <1>1. a \in Seq(Step) /\ b \in Seq(Step)
    BY DEF Program, Whole
  <1>2. ASSUME NEW s \in Streams, NEW i \in 1..Len(c)
        PROVE  /\ i > 1 =>
                    /\ c[i] = <<"launch", s>> => c[i - 1] = <<"join", s>>
                    /\ c[i] = <<"join", s>> => c[i - 1] = <<"cancel", s>>
                    /\ c[i] = <<"cancel", s>> => c[i - 1] = <<"flag", s>>
               /\ c[i] = <<"flag", s>> => i < Len(c) /\ c[i + 1] = <<"cancel", s>>
    <2>1. CASE i \in 1..Len(a)
      <3>1. c[i] = a[i] /\ (i > 1 => c[i - 1] = a[i - 1]) /\ (i < Len(a) => i < Len(c) /\ c[i + 1] = a[i + 1])
        BY <1>1, <2>1, ConcatAt
      <3>2. QED
        BY <2>1, <3>1 DEF Program, Whole, Ordered
    <2>2. CASE i - Len(a) \in 1..Len(b)
      <3> DEFINE n == i - Len(a)
      <3>1. /\ c[i] = b[n] /\ (n > 1 => i > 1 /\ c[i - 1] = b[n - 1])
            /\ n < Len(b) => i < Len(c) /\ c[i + 1] = b[n + 1]
        <4>1. \A m \in Int : m \in 1..Len(b) => c[Len(a) + m] = b[m]
          BY <1>1, ConcatAt
        <4>2. /\ n \in Int /\ Len(a) + n = i /\ Len(a) + (n - 1) = i - 1 /\ Len(a) + (n + 1) = i + 1
              /\ n - 1 \in Int /\ n + 1 \in Int
          BY <1>1, <2>2, ConcatAt
        <4>3. c[i] = b[n]
          BY <2>2, <4>1, <4>2
        <4>4. n > 1 => i > 1 /\ n - 1 \in 1..Len(b)
          BY <1>1, <2>2, ConcatAt
        <4>5. n < Len(b) => i < Len(c) /\ n + 1 \in 1..Len(b)
          BY <1>1, <2>2, ConcatAt
        <4> HIDE DEF c, n
        <4>6. QED
          BY <4>1, <4>2, <4>3, <4>4, <4>5
      <3>2. n = 1 => c[i] \notin {<<"launch", s>>, <<"join", s>>, <<"cancel", s>>}
        BY <1>1, <2>2, <3>1 DEF Program, Whole
      <3>3. n \in 1..Len(b)
        BY <2>2
      <3>4. n = 1 \/ n > 1
        BY <3>3, ConcatAt, <1>1
      <3>5. Ordered(b)
        BY DEF Program, Whole
      <3> HIDE DEF n, c
      <3>6. CASE n > 1
        BY <3>1, <3>3, <3>5, <3>6 DEF Ordered
      <3>7. CASE n = 1
        BY <3>1, <3>2, <3>3, <3>5, <3>7 DEF Ordered
      <3>8. QED
        BY <3>4, <3>6, <3>7
    <2>3. QED
      BY <1>1, <2>1, <2>2, ConcatAt
  <1>3. ASSUME NEW s \in Streams, c # <<>>
        PROVE  c[1] \notin {<<"launch", s>>, <<"join", s>>, <<"cancel", s>>}
    <2>1. CASE a = <<>>
      <3>1. c = b
        BY <1>1, <2>1
      <3>2. QED
        BY <1>3, <3>1 DEF Program, Whole
    <2>2. CASE a # <<>>
      <3>1. 1 \in 1..Len(a)
        BY <1>1, <2>2
      <3>2. c[1] = a[1]
        BY <1>1, <3>1, ConcatAt
      <3>3. QED
        BY <2>2, <3>2 DEF Program, Whole
    <2>3. QED
      BY <2>1, <2>2
  <1>4. ASSUME NEW i \in 1..Len(c)
        PROVE  /\ c[i] # <<"call", "Connect">>
               /\ c[i] = <<"call", "Disconnect">> => \A s \in Streams : JoinedBy(c, i - 1, s)
    <2>1. CASE i \in 1..Len(a)
      <3>1. c[i] = a[i] /\ i - 1 \in 0..Len(a)
        BY <1>1, <2>1, ConcatAt
      <3>2. QED
        BY <1>1, <2>1, <3>1, JoinedConcat DEF Program, Closes
    <2>2. CASE i - Len(a) \in 1..Len(b)
      <3>1. PICK n \in 1..Len(b) : n = i - Len(a)
        BY <2>2
      <3>2. c[i] = b[n] /\ n - 1 \in 0..Len(b) /\ Len(a) + (n - 1) = i - 1
        BY <1>1, <3>1, ConcatAt
      <3>3. QED
        BY <1>1, <3>2, JoinedConcat DEF Program, Closes
    <2>3. QED
      BY <1>1, <2>1, <2>2, ConcatAt
  <1>5. QED
    BY <1>1, <1>2, <1>3, <1>4, ConcatAt DEF Program, Whole, Ordered, Closes

LEMMA JoinedKept ==
    ASSUME NEW a \in Seq(Step), NEW b \in Seq(Step), NEW s, JoinedBy(a, Len(a), s),
           \A i \in 1..Len(b) : b[i] # <<"launch", s>>
    PROVE  JoinedBy(a \o b, Len(a \o b), s)
  <1>1. PICK i \in 1..Len(a) : a[i] = <<"join", s>> /\ \A j \in i..Len(a) : a[j] # <<"launch", s>>
    BY DEF JoinedBy
  <1>2. i \in 1..Len(a \o b) /\ (a \o b)[i] = <<"join", s>>
    BY <1>1, ConcatAt
  <1>3. ASSUME NEW j \in i..Len(a \o b)
        PROVE  (a \o b)[j] # <<"launch", s>>
    <2>1. j \in 1..Len(a \o b) /\ j \in Int
      BY <1>2, ConcatAt
    <2>2. CASE j \in 1..Len(a)
      <3>1. j \in i..Len(a) /\ (a \o b)[j] = a[j]
        BY <2>2, ConcatAt
      <3>2. QED
        BY <1>1, <3>1
    <2>3. CASE j - Len(a) \in 1..Len(b)
      BY <2>1, <2>3, ConcatAt
    <2>4. QED
      BY <2>1, <2>2, <2>3, ConcatAt
  <1>4. QED
    BY <1>2, <1>3 DEF JoinedBy

\* A thread is launched after its join, Disconnect sent after both.
LEMMA ProgramAppend ==
    ASSUME NEW a, Program(a), a # <<>>, NEW x \in Step,
           \A s \in Streams : x \notin {<<"flag", s>>, <<"cancel", s>>, <<"join", s>>},
           \A s \in Streams : x = <<"launch", s>> => a[Len(a)] = <<"join", s>>,
           x # <<"call", "Connect">>,
           x = <<"call", "Disconnect">> => Ends(a)
    PROVE  Program(a \o <<x>>)
  <1> PICK c : c = a \o <<x>>
    OBVIOUS
  <1>1. /\ a \in Seq(Step) /\ Ordered(a) /\ Closes(a) /\ Len(a) \in Nat /\ Len(a) >= 1
        /\ c \in Seq(Step) /\ Len(c) = Len(a) + 1
    BY DEF Program, Whole
  <1>2. c[Len(a) + 1] = x /\ \A i \in 1..Len(a) : c[i] = a[i]
    BY <1>1
  <1>3. Ordered(c)
    <2>1. ASSUME NEW s \in Streams, NEW i \in 1..Len(a)
          PROVE  /\ i > 1 =>
                      /\ c[i] = <<"launch", s>> => c[i - 1] = <<"join", s>>
                      /\ c[i] = <<"join", s>> => c[i - 1] = <<"cancel", s>>
                      /\ c[i] = <<"cancel", s>> => c[i - 1] = <<"flag", s>>
                 /\ c[i] = <<"flag", s>> => i < Len(c) /\ c[i + 1] = <<"cancel", s>>
      <3>1. c[i] = a[i] /\ (i > 1 => c[i - 1] = a[i - 1]) /\ (i < Len(a) => c[i + 1] = a[i + 1])
        BY <1>1, <1>2
      <3>2. QED
        BY <1>1, <3>1 DEF Ordered
    <2>2. ASSUME NEW s \in Streams, NEW i \in 1..Len(c), i \notin 1..Len(a)
          PROVE  /\ c[i] = <<"launch", s>> => c[i - 1] = <<"join", s>>
                 /\ c[i] \notin {<<"flag", s>>, <<"cancel", s>>, <<"join", s>>}
      <3>1. i = Len(a) + 1 /\ i - 1 = Len(a) /\ Len(a) \in 1..Len(a)
        BY <1>1, <2>2
      <3>2. c[i] = x /\ c[i - 1] = a[Len(a)]
        BY <1>2, <3>1
      <3>3. QED
        BY <3>2
    <2>3. ASSUME NEW s \in Streams, NEW i \in 1..Len(c)
          PROVE  /\ i > 1 =>
                      /\ c[i] = <<"launch", s>> => c[i - 1] = <<"join", s>>
                      /\ c[i] = <<"join", s>> => c[i - 1] = <<"cancel", s>>
                      /\ c[i] = <<"cancel", s>> => c[i - 1] = <<"flag", s>>
                 /\ c[i] = <<"flag", s>> => i < Len(c) /\ c[i + 1] = <<"cancel", s>>
      <3>1. CASE i \in 1..Len(a)
        BY <2>1, <3>1
      <3>2. CASE i \notin 1..Len(a)
        BY <2>2, <3>2
      <3>3. QED
        BY <3>1, <3>2
    <2>4. QED
      BY <2>3 DEF Ordered
  <1>4. Closes(c)
    <2>1. ASSUME NEW i \in 1..Len(a)
          PROVE  /\ c[i] # <<"call", "Connect">>
                 /\ c[i] = <<"call", "Disconnect">> => \A s \in Streams : JoinedBy(c, i - 1, s)
      <3>1. c[i] = a[i] /\ i - 1 \in 0..Len(a)
        BY <1>1, <1>2
      <3>2. <<x>> \in Seq(Step)
        OBVIOUS
      <3>3. QED
        BY <1>1, <3>1, <3>2, JoinedConcat DEF Closes
    <2>2. x = <<"call", "Disconnect">> => \A s \in Streams : JoinedBy(c, Len(a), s)
      <3>1. Len(a) \in 0..Len(a) /\ <<x>> \in Seq(Step)
        BY <1>1
      <3>2. QED
        BY <1>1, <3>1, JoinedConcat DEF Ends
    <2>3. ASSUME NEW i \in 1..Len(c), i \notin 1..Len(a)
          PROVE  /\ c[i] # <<"call", "Connect">>
                 /\ c[i] = <<"call", "Disconnect">> => \A s \in Streams : JoinedBy(c, i - 1, s)
      <3>1. i = Len(a) + 1 /\ i - 1 = Len(a)
        BY <1>1, <2>3
      <3>2. QED
        BY <1>2, <2>2, <3>1
    <2>4. QED
      BY <2>1, <2>3 DEF Closes
  <1>5. Whole(c)
    <2>1. c # <<>> /\ c[1] = a[1]
      BY <1>1, <1>2
    <2>2. QED
      BY <1>1, <1>3, <2>1 DEF Program, Whole
  <1>6. QED
    BY <1>4, <1>5 DEF Program

LEMMA StopStreamProgram ==
    ASSUME NEW s \in Streams
    PROVE  /\ Program(StopStream(s)) /\ JoinedBy(StopStream(s), Len(StopStream(s)), s)
           /\ StopStream(s) # <<>> /\ StopStream(s)[Len(StopStream(s))] = <<"join", s>>
           /\ \A u : \A i \in 1..Len(StopStream(s)) : StopStream(s)[i] # <<"launch", u>>
  <1> PICK p : p = StopStream(s)
    OBVIOUS
  <1>1. p \in Seq(Step) /\ Len(p) = 3
    BY DEF StopStream, Step
  <1>2. p[1] = <<"flag", s>> /\ p[2] = <<"cancel", s>> /\ p[3] = <<"join", s>>
    BY DEF StopStream
  <1>3. \A i \in 1..Len(p) : i = 1 \/ i = 2 \/ i = 3
    BY <1>1
  <1>4. Ordered(p)
    BY <1>1, <1>2, <1>3 DEF Ordered
  <1>5. Closes(p)
    BY <1>1, <1>2, <1>3 DEF Closes
  <1>6. Whole(p)
    BY <1>1, <1>2, <1>4 DEF Whole
  <1>7. JoinedBy(p, 3, s)
    <2>1. \A j \in 3..3 : p[j] # <<"launch", s>>
      BY <1>2
    <2>2. QED
      BY <1>2, <2>1 DEF JoinedBy
  <1>8. \A u : \A i \in 1..Len(p) : p[i] # <<"launch", u>>
    BY <1>2, <1>3
  <1>9. p # <<>>
    BY <1>1
  <1>10. QED
    BY <1>1, <1>2, <1>5, <1>6, <1>7, <1>8, <1>9 DEF Program

\* prepareClose ends both streams, and Disconnect comes last.
LEMMA CloseProgram ==
    ASSUME NEW named \in BOOLEAN
    PROVE  /\ Program(StopStreams) /\ Ends(StopStreams)
           /\ Program(PrepareClose(named)) /\ Ends(PrepareClose(named))
  <1>1. Program(StopStreams) /\ StopStreams \in Seq(Step)
    BY StopStreamProgram, ProgramConcat DEF StopStreams, Streams, Program, Whole
  <1>2. Ends(StopStreams)
    <2> PICK a, b : a = StopStream("message") /\ b = StopStream("clientEvent")
      OBVIOUS
    <2>1. a \in Seq(Step) /\ b \in Seq(Step)
      BY StopStreamProgram DEF Streams, Program, Whole
    <2>2. JoinedBy(a \o b, Len(a \o b), "message")
      BY <2>1, StopStreamProgram, JoinedKept DEF Streams
    <2>3. JoinedBy(b, Len(b), "clientEvent") /\ Len(b) \in 0..Len(b) /\ Len(a \o b) = Len(a) + Len(b)
      BY <2>1, StopStreamProgram, ConcatAt DEF Streams
    <2>4. JoinedBy(a \o b, Len(a \o b), "clientEvent")
      BY <2>1, <2>3, JoinedConcat
    <2>5. QED
      BY <2>2, <2>4 DEF Ends, Streams, StopStreams
  <1>3. StopStreams # <<>>
    <2>1. Len(StopStreams) # 0
      <3>1. Len(StopStream("message")) = 3 /\ Len(StopStream("clientEvent")) = 3
        BY DEF StopStream
      <3>2. QED
        BY <3>1, StopStreamProgram, ConcatAt DEF StopStreams, Streams, Program, Whole
    <2>2. QED
      BY <2>1
  <1>4. CASE named = FALSE
    <2>1. PrepareClose(named) = StopStreams
      BY <1>1, <1>4 DEF PrepareClose
    <2>2. QED
      BY <1>1, <1>2, <2>1
  <1>5. CASE named = TRUE
    <2> PICK x : x = <<"call", "Disconnect">>
      OBVIOUS
    <2>1. PrepareClose(named) = StopStreams \o <<x>> /\ x \in Step
      BY <1>5 DEF PrepareClose, Step
    <2>2. Program(StopStreams \o <<x>>)
      BY <1>1, <1>2, <1>3, <2>1, ProgramAppend
    <2>3. <<x>> \in Seq(Step) /\ \A s : \A i \in 1..Len(<<x>>) : <<x>>[i] # <<"launch", s>>
      BY <2>1
    <2>4. Ends(StopStreams \o <<x>>)
      BY <1>1, <1>2, <2>3, JoinedKept DEF Ends
    <2>5. QED
      BY <1>1, <1>2, <2>1, <2>2, <2>4
  <1>6. QED
    BY <1>4, <1>5

LEMMA StartProgram ==
    Program(StartStreams)
  <1>1. ASSUME NEW s \in Streams
        PROVE  Program(StartStream(s))
    <2> PICK x : x = <<"launch", s>>
      OBVIOUS
    <2>1. StartStream(s) = StopStream(s) \o <<x>> /\ x \in Step
      BY DEF StartStream, Step
    <2>2. x \notin {<<"call", "Connect">>, <<"call", "Disconnect">>}
      OBVIOUS
    <2>3. \A u \in Streams : /\ x \notin {<<"flag", u>>, <<"cancel", u>>, <<"join", u>>}
                             /\ x = <<"launch", u>> => u = s
      OBVIOUS
    <2>4. QED
      BY <2>1, <2>2, <2>3, StopStreamProgram, ProgramAppend
  <1>2. QED
    BY <1>1, ProgramConcat DEF StartStreams, Streams

\* Closing the window ends both streams, also when it is closed because the
\* client's database can not be opened.
LEMMA EndPrograms ==
    ASSUME NEW named \in BOOLEAN
    PROVE  /\ Program(PrepareClose(named) \o Destructors)
           /\ Ends(PrepareClose(named) \o Destructors)
           /\ Program(PrepareClose(TRUE) \o StartStreams \o Destructors)
           /\ Ends(PrepareClose(TRUE) \o StartStreams \o Destructors)
  <1>1. ASSUME NEW a, NEW b, Program(a), Program(b), Ends(b)
        PROVE  Program(a \o b) /\ Ends(a \o b)
    <2>1. a \in Seq(Step) /\ b \in Seq(Step)
      BY <1>1 DEF Program, Whole
    <2>2. Len(b) \in 0..Len(b) /\ Len(a \o b) = Len(a) + Len(b)
      BY <2>1, ConcatAt
    <2>3. QED
      BY <1>1, <2>1, <2>2, ProgramConcat, JoinedConcat DEF Ends
  <1>2. Program(Destructors) /\ Ends(Destructors)
    BY <1>1, CloseProgram DEF Destructors
  <1>3. QED
    BY <1>1, <1>2, CloseProgram, StartProgram, ProgramConcat

-----------------------------------------------------------------------------
(* The inductive invariant.                                                *)

\* The first k of the steps that are left leave no thread of s.
GoneBy(k, s) ==
    \/ JoinedBy(gui, k, s)
    \/ thread[s] = NoThread /\ \A j \in 1..k : gui[j] # <<"launch", s>>

TypeInv ==
    /\ StreamsTypeOK /\ LoginViewTypeOK
    /\ gui \in Seq(Step)
    /\ view \in {"login", "chat", "exited"}
    /\ loggedInOnce \in BOOLEAN

\* What the step before has left to the present one.
HeadInv ==
    \A s \in Streams :
       /\ AtStep("launch", s) => thread[s] = NoThread
       /\ AtStep("cancel", s) => ~running[s] /\ (wasRunning => thread[s] # NoThread)
       /\ AtStep("join", s) => ~running[s]

\* A thread whose flag is down has been cancelled, will be in the next step,
\* or has done all that waits; a cancelled one has nothing to report.
ThreadInv ==
    /\ FlagAgrees
    /\ \A s \in Streams : thread[s] # NoThread =>
          /\ ~running[s] =>
               \/ thread[s].cancelled
               \/ thread[s].pc \in {"report", "done"}
               \/ AtStep("cancel", s) /\ wasRunning
          /\ thread[s].status = "CANCELLED" => thread[s].cancelled
          /\ thread[s].pc = "report" => thread[s].status # "CANCELLED"

\* No thread outlives the programs that end a session.
SessionInv ==
    /\ view # "chat" => \A s \in Streams : GoneBy(Len(gui), s)
    /\ \A i \in 1..Len(gui) :
          /\ gui[i] = <<"call", "Disconnect">> => \A s \in Streams : GoneBy(i - 1, s)
          /\ gui[i] = <<"call", "Connect">> => Len(gui) = 1 /\ view = "login"

Inv == TypeInv /\ Ordered(gui) /\ HeadInv /\ ThreadInv /\ SessionInv

-----------------------------------------------------------------------------
(* Steps of the GUI thread.                                                *)

LEMMA HeadIsFirst ==
    ASSUME TypeInv, NEW op, NEW x
    PROVE  AtStep(op, x) <=> Len(gui) \in Nat \ {0} /\ gui[1] = <<op, x>>
  BY DEF TypeInv, AtStep

\* A program begins where nothing waits for the step before.
LEMMA ProgramBegins ==
    ASSUME TypeInv', ThreadInv, UNCHANGED streamVars, Program(gui'),
           \A s \in Streams : ~AtStep("cancel", s),
           view' # "chat" => Ends(gui')
    PROVE  Inv'
  <1> PICK p : p = gui'
    OBVIOUS
  <1>1. p \in Seq(Step) /\ Ordered(p) /\ Closes(p)
    BY DEF Program, Whole
  <1>2. \A s \in Streams : p # <<>> => p[1] \notin {<<"launch", s>>, <<"join", s>>, <<"cancel", s>>}
    BY DEF Program, Whole
  <1>3. \A s \in Streams : p # <<>> => Head(p) \notin {<<"launch", s>>, <<"join", s>>, <<"cancel", s>>}
    BY <1>1, <1>2
  <1>4. HeadInv'
    BY <1>3 DEF HeadInv, AtStep
  <1>5. ThreadInv'
    BY DEF ThreadInv, FlagAgrees, streamVars
  <1>6. SessionInv'
    BY <1>1 DEF SessionInv, GoneBy, Ends, Closes
  <1>7. QED
    BY <1>1, <1>4, <1>5, <1>6 DEF Inv

\* What is left after one step.
LEMMA TailAt ==
    ASSUME TypeInv, Ordered(gui), gui # <<>>, Done
    PROVE  /\ gui' \in Seq(Step) /\ Len(gui) \in Nat /\ Len(gui) > 0 /\ Len(gui') = Len(gui) - 1
           /\ \A i \in 1..Len(gui') : i + 1 \in 1..Len(gui) /\ gui'[i] = gui[i + 1]
           /\ Ordered(gui')
  <1>1. /\ gui' \in Seq(Step) /\ Len(gui) \in Nat /\ Len(gui) > 0 /\ Len(gui') = Len(gui) - 1
        /\ \A i \in 1..Len(gui') : gui'[i] = gui[i + 1]
    BY DEF TypeInv, Done
  <1>2. \A i \in 1..Len(gui') : i + 1 \in 1..Len(gui)
    BY <1>1
  <1> PICK p : p = gui'
    OBVIOUS
  <1>3. ASSUME NEW s \in Streams, NEW i \in 1..Len(p)
        PROVE  /\ i > 1 =>
                    /\ p[i] = <<"launch", s>> => p[i - 1] = <<"join", s>>
                    /\ p[i] = <<"join", s>> => p[i - 1] = <<"cancel", s>>
                    /\ p[i] = <<"cancel", s>> => p[i - 1] = <<"flag", s>>
               /\ p[i] = <<"flag", s>> => i < Len(p) /\ p[i + 1] = <<"cancel", s>>
    <2>1. PICK n \in 1..Len(gui) : n = i + 1
      BY <1>2
    <2>2. p[i] = gui[n] /\ n > 1
      BY <1>1, <2>1
    <2>3. i > 1 => p[i - 1] = gui[n - 1]
      BY <1>1, <2>1
    <2>4. n < Len(gui) => i < Len(p) /\ p[i + 1] = gui[n + 1]
      BY <1>1, <2>1
    <2>5. QED
      BY <2>2, <2>3, <2>4 DEF Ordered
  <1>4. Ordered(p)
    BY <1>3 DEF Ordered
  <1>5. QED
    BY <1>1, <1>2, <1>4

\* The step that comes next follows the one just done.
LEMMA NextHead ==
    ASSUME TypeInv, Ordered(gui), gui # <<>>, Done, NEW s \in Streams
    PROVE  /\ AtStep("launch", s)' => AtStep("join", s)
           /\ AtStep("join", s)' => AtStep("cancel", s)
           /\ AtStep("cancel", s)' => AtStep("flag", s)
           /\ AtStep("flag", s) => AtStep("cancel", s)'
  <1> PICK p : p = gui'
    OBVIOUS
  <1>1. \A op : (p # <<>> /\ Head(p) = <<op, s>>) <=> Len(gui) > 1 /\ gui[2] = <<op, s>>
    <2>1. /\ p \in Seq(Step) /\ Len(gui) \in Nat /\ Len(gui) > 0 /\ Len(p) = Len(gui) - 1
          /\ \A i \in 1..Len(p) : p[i] = gui[i + 1]
      BY TailAt
    <2>2. p # <<>> <=> Len(gui) > 1
      BY <2>1
    <2>3. p # <<>> => Head(p) = gui[2]
      <3>1. p # <<>> => Head(p) = p[1] /\ 1 \in 1..Len(p)
        BY <2>1
      <3>2. QED
        BY <2>1, <3>1
    <2>4. QED
      BY <2>2, <2>3
  <1>2. Len(gui) \in Nat /\ Len(gui) > 0
    BY TailAt
  <1>3. Len(gui) > 1 => 2 \in 1..Len(gui) /\ 2 > 1 /\ 2 - 1 = 1
    BY <1>2
  <1>4. Len(gui) > 1 => /\ gui[2] = <<"launch", s>> => gui[1] = <<"join", s>>
                        /\ gui[2] = <<"join", s>> => gui[1] = <<"cancel", s>>
                        /\ gui[2] = <<"cancel", s>> => gui[1] = <<"flag", s>>
    BY <1>3 DEF Ordered
  <1>5. gui[1] = <<"flag", s>> => Len(gui) > 1 /\ gui[2] = <<"cancel", s>>
    <2>1. 1 \in 1..Len(gui) /\ 1 + 1 = 2
      BY <1>2
    <2>2. QED
      BY <1>2, <2>1 DEF Ordered
  <1>6. \A op : AtStep(op, s) <=> gui[1] = <<op, s>>
    BY <1>2, HeadIsFirst
  <1>7. \A op : AtStep(op, s)' <=> p # <<>> /\ Head(p) = <<op, s>>
    BY DEF AtStep
  <1>8. QED
    BY <1>1, <1>4, <1>5, <1>6, <1>7

\* One step less: what it had to do to s is done.
LEMMA SessionTail ==
    ASSUME TypeInv, Ordered(gui), SessionInv, gui # <<>>, Done, UNCHANGED view,
           ~AtStep("call", "Connect"),
           \A s \in Streams : AtStep("join", s) => thread'[s] = NoThread,
           \A s \in Streams : thread[s] = NoThread /\ ~AtStep("launch", s) => thread'[s] = NoThread
    PROVE  SessionInv'
  <1> PICK p : p = gui'
    OBVIOUS
  <1>1. /\ p \in Seq(Step) /\ Len(gui) \in Nat /\ Len(gui) > 0 /\ Len(p) = Len(gui) - 1
        /\ \A i \in 1..Len(p) : i + 1 \in 1..Len(gui) /\ p[i] = gui[i + 1]
    BY TailAt
  <1>2. \A op, x : AtStep(op, x) <=> gui[1] = <<op, x>>
    BY <1>1, HeadIsFirst
  <1>3. ASSUME NEW s \in Streams, NEW k \in 1..Len(gui), GoneBy(k, s)
        PROVE  \/ JoinedBy(p, k - 1, s)
               \/ thread'[s] = NoThread /\ \A j \in 1..(k - 1) : p[j] # <<"launch", s>>
    <2>1. \A j \in 1..(k - 1) : j + 1 \in 1..k /\ p[j] = gui[j + 1]
      BY <1>1
    <2>2. CASE thread[s] = NoThread /\ \A j \in 1..k : gui[j] # <<"launch", s>>
      <3>1. gui[1] # <<"launch", s>>
        BY <1>1, <2>2
      <3>2. thread'[s] = NoThread
        BY <1>2, <2>2, <3>1
      <3>3. QED
        BY <2>1, <2>2, <3>2
    <2>3. CASE JoinedBy(gui, k, s)
      <3>1. PICK i \in 1..k : gui[i] = <<"join", s>> /\ \A j \in i..k : gui[j] # <<"launch", s>>
        BY <2>3 DEF JoinedBy
      <3>2. CASE i = 1
        <4>1. thread'[s] = NoThread
          BY <1>2, <3>1, <3>2
        <4>2. \A j \in 1..(k - 1) : j + 1 \in i..k
          BY <3>2
        <4>3. QED
          BY <2>1, <3>1, <4>1, <4>2
      <3>3. CASE i > 1
        <4>1. PICK n \in 1..(k - 1) : n = i - 1 /\ n + 1 = i
          BY <3>3
        <4>2. \A j \in n..(k - 1) : j + 1 \in i..k /\ j \in 1..(k - 1)
          BY <4>1
        <4>3. p[n] = <<"join", s>> /\ \A j \in n..(k - 1) : p[j] # <<"launch", s>>
          BY <2>1, <3>1, <4>1, <4>2
        <4>4. QED
          BY <4>3 DEF JoinedBy
      <3>4. QED
        BY <3>2, <3>3
    <2>4. QED
      BY <1>3, <2>2, <2>3 DEF GoneBy
  <1>4. \A s \in Streams, k \in 1..Len(gui) : GoneBy(k, s) => GoneBy(k - 1, s)'
    BY <1>3 DEF GoneBy
  <1>5. view' # "chat" => \A s \in Streams : GoneBy(Len(gui), s)'
    <2>1. Len(gui) \in 1..Len(gui) /\ Len(p) = Len(gui) - 1
      BY <1>1
    <2>2. view # "chat" =>
            \A s \in Streams :
               \/ JoinedBy(p, Len(p), s)
               \/ thread'[s] = NoThread /\ \A j \in 1..Len(p) : p[j] # <<"launch", s>>
      BY <1>3, <2>1 DEF SessionInv
    <2>3. QED
      BY <2>2 DEF GoneBy
  <1>6. ASSUME NEW i \in 1..Len(p)
        PROVE  /\ p[i] = <<"call", "Disconnect">> => \A s \in Streams : GoneBy(i - 1, s)'
               /\ p[i] # <<"call", "Connect">>
    <2>1. PICK n \in 1..Len(gui) : n = i + 1 /\ p[i] = gui[n] /\ n - 1 = i /\ i \in 1..Len(gui)
      BY <1>1
    <2>2. p[i] = <<"call", "Disconnect">> => \A s \in Streams : GoneBy(i, s)
      BY <2>1 DEF SessionInv
    <2>3. gui[n] = <<"call", "Connect">> => Len(gui) = 1
      BY <2>1 DEF SessionInv
    <2>4. Len(gui) # 1
      BY <1>1
    <2>5. QED
      BY <1>4, <2>1, <2>2, <2>3, <2>4
  <1>7. QED
    BY <1>5, <1>6 DEF SessionInv

\* The GUI thread is at one step.
LEMMA OneStep ==
    ASSUME NEW op, NEW x, NEW other, NEW y, AtStep(op, x), AtStep(other, y)
    PROVE  op = other /\ x = y
  BY DEF AtStep

LEMMA TypeKept ==
    ASSUME TypeInv, gui # <<>>, Done, UNCHANGED <<loginViewVars, view, loggedInOnce>>, StreamsTypeOK'
    PROVE  TypeInv'
  BY DEF TypeInv, Done, LoginViewTypeOK, loginViewVars

LEMMA FlagStep ==
    ASSUME Inv, NEW s \in Streams, AtStep("flag", s), ClearFlag(s), Done,
           UNCHANGED <<loginViewVars, view, loggedInOnce>>
    PROVE  Inv'
  <1>1. gui # <<>> /\ \A op, u : AtStep(op, u) => op = "flag" /\ u = s
    BY OneStep DEF AtStep
  <1>2. TypeInv /\ Ordered(gui) /\ running \in [Streams -> BOOLEAN] /\ UNCHANGED thread
    BY DEF Inv, TypeInv, StreamsTypeOK, ClearFlag
  <1>3. /\ running'[s] = FALSE /\ wasRunning' = running[s]
        /\ \A u \in Streams : u # s => running'[u] = running[u]
    BY <1>2 DEF ClearFlag
  <1>4. TypeInv'
    BY <1>1, <1>2, TypeKept DEF ClearFlag, StreamsTypeOK, Inv, TypeInv
  <1>5. /\ AtStep("cancel", s)'
        /\ \A u \in Streams : /\ ~AtStep("launch", u)' /\ ~AtStep("join", u)'
                              /\ AtStep("cancel", u)' => u = s
    BY <1>1, <1>2, NextHead
  <1>6. FlagAgrees /\ FlagAgrees'
    BY <1>2, <1>3 DEF Inv, ThreadInv, FlagAgrees
  <1>7. HeadInv'
    <2>1. ~running'[s] /\ (wasRunning' => thread'[s] # NoThread)
      BY <1>2, <1>3, <1>6 DEF FlagAgrees
    <2>2. QED
      BY <1>5, <2>1 DEF HeadInv
  <1>8. ASSUME NEW u \in Streams, thread'[u] # NoThread
        PROVE  /\ ~running'[u] =>
                    \/ thread'[u].cancelled
                    \/ thread'[u].pc \in {"report", "done"}
                    \/ AtStep("cancel", u)' /\ wasRunning'
               /\ thread'[u].status = "CANCELLED" => thread'[u].cancelled
               /\ thread'[u].pc = "report" => thread'[u].status # "CANCELLED"
    <2>1. thread[u] # NoThread /\ thread'[u] = thread[u] /\ ~AtStep("cancel", u)
      BY <1>1, <1>2, <1>8
    <2>2. CASE u = s /\ running[s]
      BY <1>3, <1>5, <2>1, <2>2 DEF Inv, ThreadInv
    <2>3. CASE u # s \/ ~running[s]
      BY <1>3, <2>1, <2>3 DEF Inv, ThreadInv
    <2>4. QED
      BY <1>2, <2>2, <2>3
  <1>9. ThreadInv'
    BY <1>6, <1>8 DEF ThreadInv
  <1>10. SessionInv'
    BY <1>1, <1>2, SessionTail DEF Inv
  <1>11. QED
    BY <1>1, <1>2, <1>4, <1>7, <1>9, <1>10, TailAt DEF Inv

LEMMA CancelStep ==
    ASSUME Inv, NEW s \in Streams, AtStep("cancel", s), TryCancel(s), Done,
           UNCHANGED <<loginViewVars, view, loggedInOnce>>
    PROVE  Inv'
  <1>1. gui # <<>> /\ \A op, u : AtStep(op, u) => op = "cancel" /\ u = s
    BY OneStep DEF AtStep
  <1>2. /\ TypeInv /\ Ordered(gui) /\ UNCHANGED <<running, wasRunning>>
        /\ running \in [Streams -> BOOLEAN]
        /\ wasRunning \in BOOLEAN /\ thread \in [Streams -> StreamThread \cup {NoThread}]
    BY DEF Inv, TypeInv, StreamsTypeOK, TryCancel
  <1>3. ~running[s] /\ (wasRunning => thread[s] # NoThread)
    BY DEF Inv, HeadInv
  <1>4. /\ \A u \in Streams : u # s => thread'[u] = thread[u]
        /\ ~wasRunning => thread' = thread
        /\ wasRunning => thread'[s] = [thread[s] EXCEPT !.cancelled = TRUE]
    BY <1>2 DEF TryCancel
  <1>5. wasRunning => /\ thread'[s] \in StreamThread /\ thread'[s].cancelled
                      /\ thread'[s].pc = thread[s].pc /\ thread'[s].status = thread[s].status
    BY <1>2, <1>3, <1>4 DEF StreamThread
  <1>6. StreamsTypeOK'
    <2>1. thread' \in [Streams -> StreamThread \cup {NoThread}]
      BY <1>2, <1>5 DEF TryCancel
    <2>2. QED
      BY <1>2, <2>1 DEF StreamsTypeOK
  <1>7. TypeInv'
    BY <1>1, <1>2, <1>6, TypeKept
  <1>8. \A u \in Streams : ~AtStep("launch", u)' /\ ~AtStep("cancel", u)' /\ (AtStep("join", u)' => u = s)
    BY <1>1, <1>2, NextHead
  <1>9. HeadInv'
    BY <1>2, <1>3, <1>8 DEF HeadInv
  <1>10. FlagAgrees'
    BY <1>2, <1>3, <1>4 DEF Inv, ThreadInv, FlagAgrees
  <1>11. ASSUME NEW u \in Streams, thread'[u] # NoThread
         PROVE  /\ ~running'[u] =>
                     \/ thread'[u].cancelled
                     \/ thread'[u].pc \in {"report", "done"}
                     \/ AtStep("cancel", u)' /\ wasRunning'
                /\ thread'[u].status = "CANCELLED" => thread'[u].cancelled
                /\ thread'[u].pc = "report" => thread'[u].status # "CANCELLED"
    <2>1. CASE u = s /\ wasRunning
      BY <1>3, <1>5, <2>1 DEF Inv, ThreadInv
    <2>2. CASE u # s \/ ~wasRunning
      <3>1. thread'[u] = thread[u] /\ running'[u] = running[u]
        BY <1>2, <1>4, <2>2
      <3>2. ~(AtStep("cancel", u) /\ wasRunning)
        BY <1>1, <2>2
      <3>3. QED
        BY <1>11, <3>1, <3>2 DEF Inv, ThreadInv
    <2>3. QED
      BY <2>1, <2>2
  <1>12. ThreadInv'
    BY <1>10, <1>11 DEF ThreadInv
  <1>13. SessionInv'
    <2>1. \A u \in Streams : thread[u] = NoThread => thread'[u] = NoThread
      BY <1>3, <1>4
    <2>2. \A u \in Streams : ~AtStep("join", u)
      BY <1>1
    <2>3. QED
      BY <1>1, <1>2, <2>1, <2>2, SessionTail DEF Inv
  <1>14. QED
    BY <1>1, <1>2, <1>7, <1>9, <1>12, <1>13, TailAt DEF Inv

LEMMA JoinStep ==
    ASSUME Inv, NEW s \in Streams, AtStep("join", s), Join(s), Done,
           UNCHANGED <<loginViewVars, view, loggedInOnce>>
    PROVE  Inv'
  <1>1. gui # <<>> /\ \A op, u : AtStep(op, u) => op = "join" /\ u = s
    BY OneStep DEF AtStep
  <1>2. /\ TypeInv /\ Ordered(gui) /\ UNCHANGED <<running, wasRunning>>
        /\ running \in [Streams -> BOOLEAN]
        /\ wasRunning \in BOOLEAN /\ thread \in [Streams -> StreamThread \cup {NoThread}]
    BY DEF Inv, TypeInv, StreamsTypeOK, Join
  <1>3. thread'[s] = NoThread /\ \A u \in Streams : u # s => thread'[u] = thread[u]
    BY <1>2 DEF Join
  <1>4. ~running[s]
    BY <1>2 DEF Inv, ThreadInv, FlagAgrees, Join
  <1>5. StreamsTypeOK'
    BY <1>2 DEF StreamsTypeOK, Join
  <1>6. TypeInv'
    BY <1>1, <1>2, <1>5, TypeKept
  <1>7. \A u \in Streams : (AtStep("launch", u)' => u = s) /\ ~AtStep("cancel", u)' /\ ~AtStep("join", u)'
    BY <1>1, <1>2, NextHead
  <1>8. HeadInv'
    BY <1>3, <1>7 DEF HeadInv
  <1>9. FlagAgrees'
    BY <1>2, <1>3, <1>4 DEF Inv, ThreadInv, FlagAgrees
  <1>10. ASSUME NEW u \in Streams, thread'[u] # NoThread
         PROVE  /\ ~running'[u] =>
                     \/ thread'[u].cancelled
                     \/ thread'[u].pc \in {"report", "done"}
                     \/ AtStep("cancel", u)' /\ wasRunning'
                /\ thread'[u].status = "CANCELLED" => thread'[u].cancelled
                /\ thread'[u].pc = "report" => thread'[u].status # "CANCELLED"
    <2>1. thread'[u] = thread[u] /\ running'[u] = running[u] /\ ~AtStep("cancel", u)
      BY <1>1, <1>2, <1>3, <1>10
    <2>2. QED
      BY <1>10, <2>1 DEF Inv, ThreadInv
  <1>11. ThreadInv'
    BY <1>9, <1>10 DEF ThreadInv
  <1>12. SessionInv'
    <2>1. \A u \in Streams : (AtStep("join", u) => u = s) /\ (thread[u] = NoThread => thread'[u] = NoThread)
      BY <1>1, <1>3
    <2>2. ~AtStep("call", "Connect")
      BY <1>1
    <2>3. QED
      BY <1>1, <1>2, <1>3, <2>1, <2>2, SessionTail DEF Inv
  <1>13. QED
    BY <1>1, <1>2, <1>6, <1>8, <1>11, <1>12, TailAt DEF Inv

LEMMA LaunchStep ==
    ASSUME Inv, NEW s \in Streams, AtStep("launch", s), Launch(s), Done,
           UNCHANGED <<loginViewVars, view, loggedInOnce>>
    PROVE  Inv'
  <1>1. gui # <<>> /\ \A op, u : AtStep(op, u) => op = "launch" /\ u = s
    BY OneStep DEF AtStep
  <1>2. /\ TypeInv /\ Ordered(gui) /\ UNCHANGED wasRunning
        /\ running \in [Streams -> BOOLEAN]
        /\ wasRunning \in BOOLEAN /\ thread \in [Streams -> StreamThread \cup {NoThread}]
    BY DEF Inv, TypeInv, StreamsTypeOK, Launch
  <1> PICK new : new = [pc |-> "open", cancelled |-> FALSE, status |-> "none"]
    OBVIOUS
  <1>3. /\ running'[s] = TRUE /\ \A u \in Streams : u # s => running'[u] = running[u]
        /\ thread'[s] = new /\ \A u \in Streams : u # s => thread'[u] = thread[u]
    BY <1>2 DEF Launch
  <1>4. /\ new \in StreamThread /\ new # NoThread
        /\ new.pc = "open" /\ new.cancelled = FALSE /\ new.status = "none"
    <2>1. new \in StreamThread
      BY DEF StreamThread
    <2>2. new.pc = "open" /\ new.cancelled = FALSE /\ new.status = "none"
      OBVIOUS
    <2>3. new # NoThread
      BY <2>1, NoThreadAssumption
    <2>4. QED
      BY <2>1, <2>2, <2>3
  <1>5. StreamsTypeOK'
    BY <1>2, <1>4 DEF StreamsTypeOK, Launch
  <1>6. TypeInv'
    BY <1>1, <1>2, <1>5, TypeKept
  <1>7. \A u \in Streams : ~AtStep("launch", u)' /\ ~AtStep("cancel", u)' /\ ~AtStep("join", u)'
    BY <1>1, <1>2, NextHead
  <1>8. HeadInv'
    BY <1>7 DEF HeadInv
  <1>9. ASSUME NEW u \in Streams
        PROVE  /\ running'[u] => /\ thread'[u] # NoThread
                                 /\ ~thread'[u].cancelled
                                 /\ thread'[u].pc \notin {"report", "done"}
               /\ thread'[u] # NoThread =>
                    /\ ~running'[u] => \/ thread'[u].cancelled
                                       \/ thread'[u].pc \in {"report", "done"}
                    /\ thread'[u].status = "CANCELLED" => thread'[u].cancelled
                    /\ thread'[u].pc = "report" => thread'[u].status # "CANCELLED"
    <2>1. CASE u = s
      BY <1>3, <1>4, <2>1
    <2>2. CASE u # s
      <3>1. thread'[u] = thread[u] /\ running'[u] = running[u] /\ ~AtStep("cancel", u)
        BY <1>1, <1>3, <2>2
      <3>2. QED
        BY <3>1 DEF Inv, ThreadInv, FlagAgrees
    <2>3. QED
      BY <2>1, <2>2
  <1>10. ThreadInv'
    BY <1>9 DEF ThreadInv, FlagAgrees
  <1>11. SessionInv'
    <2>1. \A u \in Streams : /\ ~AtStep("join", u)
                             /\ thread[u] = NoThread /\ ~AtStep("launch", u) => thread'[u] = NoThread
      BY <1>1, <1>3
    <2>2. ~AtStep("call", "Connect")
      BY <1>1
    <2>3. QED
      BY <1>1, <1>2, <2>1, <2>2, SessionTail DEF Inv
  <1>12. QED
    BY <1>1, <1>2, <1>6, <1>8, <1>10, <1>11, TailAt DEF Inv

\* Connect is answered, or a call that changes nothing here.
LEMMA CallStep ==
    ASSUME Inv, ConnectReturns \/ CallReturns
    PROVE  Inv'
  <1>1. CASE ConnectReturns
    <2>1. gui # <<>> /\ \A op, u : AtStep(op, u) => op = "call" /\ u = "Connect"
      BY <1>1, OneStep DEF ConnectReturns, AtStep
    <2>2. TypeInv /\ UNCHANGED streamVars /\ LoginViewTypeOK'
      BY <1>1 DEF Inv, TypeInv, ConnectReturns, ButtonReleased, LoginViewTypeOK
    <2>3. Len(gui) \in Nat \ {0} /\ gui[1] = <<"call", "Connect">>
      BY <1>1, <2>2, HeadIsFirst DEF ConnectReturns
    <2>4. Len(gui) = 1 /\ view = "login"
      BY <2>3 DEF Inv, SessionInv
    <2>5. \A s \in Streams : ~AtStep("cancel", s)
      BY <2>1
    <2>6. StreamsTypeOK'
      BY <2>2 DEF TypeInv, StreamsTypeOK, streamVars
    <2>7. CASE gui' = <<>> /\ UNCHANGED <<view, loggedInOnce>>
      <3>1. TypeInv'
        BY <2>2, <2>6, <2>7 DEF TypeInv
      <3>2. \A s \in Streams : GoneBy(1, s) /\ ~JoinedBy(gui, 1, s)
        <4>1. \A s \in Streams : GoneBy(1, s)
          BY <2>4 DEF Inv, SessionInv
        <4>2. \A s, i : i \in 1..1 => gui[i] # <<"join", s>>
          BY <2>3
        <4>3. QED
          BY <4>1, <4>2 DEF JoinedBy
      <3>3. \A s \in Streams : thread'[s] = NoThread
        BY <2>2, <3>2 DEF GoneBy, streamVars
      <3>4. ThreadInv'
        BY <2>2, <3>3 DEF Inv, ThreadInv, FlagAgrees, streamVars
      <3>5. HeadInv' /\ Ordered(gui')
        BY <2>7 DEF HeadInv, AtStep, Ordered
      <3>6. SessionInv'
        BY <2>7, <3>3 DEF SessionInv, GoneBy
      <3>7. QED
        BY <3>1, <3>4, <3>5, <3>6 DEF Inv
    <2>8. CASE gui' = StartStreams /\ view' = "chat" /\ loggedInOnce' = TRUE
      <3>1. TypeInv' /\ Program(gui')
        BY <2>2, <2>6, <2>8, StartProgram DEF TypeInv, Program, Whole
      <3>2. QED
        BY <2>2, <2>5, <2>8, <3>1, ProgramBegins DEF Inv
    <2>9. CASE /\ gui' = PrepareClose(TRUE) \o StartStreams \o Destructors
               /\ view' = "exited" /\ loggedInOnce' = TRUE
      <3>1. TypeInv' /\ Program(gui') /\ Ends(gui')
        BY <2>2, <2>6, <2>9, EndPrograms DEF TypeInv, Program, Whole
      <3>2. QED
        BY <2>2, <2>5, <3>1, ProgramBegins DEF Inv
    <2>10. QED
      BY <1>1, <2>7, <2>8, <2>9 DEF ConnectReturns
  <1>2. CASE CallReturns
    <2>1. gui # <<>> /\ \A op, u : AtStep(op, u) => op = "call" /\ u # "Connect"
      BY <1>2, OneStep DEF CallReturns, AtStep
    <2>2. /\ TypeInv /\ Ordered(gui) /\ Done /\ UNCHANGED <<loginViewVars, view, loggedInOnce>>
          /\ UNCHANGED <<running, thread, wasRunning>>
      BY <1>2 DEF Inv, CallReturns, streamVars
    <2>3. TypeInv'
      BY <2>1, <2>2, TypeKept DEF TypeInv, StreamsTypeOK
    <2>4. \A s \in Streams : ~AtStep("launch", s)' /\ ~AtStep("cancel", s)' /\ ~AtStep("join", s)'
      BY <2>1, <2>2, NextHead
    <2>5. HeadInv'
      BY <2>4 DEF HeadInv
    <2>6. ThreadInv'
      <3>1. \A s \in Streams : ~AtStep("cancel", s)
        BY <2>1
      <3>2. QED
        BY <2>2, <3>1 DEF Inv, ThreadInv, FlagAgrees
    <2>7. SessionInv'
      BY <2>1, <2>2, SessionTail DEF Inv
    <2>8. QED
      BY <2>1, <2>2, <2>3, <2>5, <2>6, <2>7, TailAt DEF Inv
  <1>3. QED
    BY <1>1, <1>2

\* The GUI thread begins to handle something.
LEMMA UserStep ==
    ASSUME Inv, User
    PROVE  Inv'
  <1>1. /\ TypeInv /\ gui = <<>> /\ UNCHANGED streamVars
        /\ \A s \in Streams : ~AtStep("cancel", s)
    BY DEF Inv, User, HandleConnect, HandleSend, HandleDisconnect, HandleClose, Idle, AtStep
  <1>2. StreamsTypeOK' /\ LoginViewTypeOK' /\ loggedInOnce' \in BOOLEAN
    BY <1>1 DEF TypeInv, StreamsTypeOK, streamVars, User, HandleConnect, HandleSend, HandleDisconnect,
                HandleClose, ButtonPressed, LoginViewTypeOK, loginViewVars
  <1>3. CASE HandleConnect \/ HandleSend
    <2>1. PICK x \in {<<"call", "Connect">>, <<"call", "SendMessage">>} :
               gui' = <<x>> /\ (x = <<"call", "Connect">> => view = "login") /\ view' = view
      BY <1>3 DEF HandleConnect, HandleSend
    <2>2. x \in Step /\ \A s \in Streams : x \notin {<<"launch", s>>, <<"join", s>>, <<"cancel", s>>, <<"flag", s>>}
      BY <2>1 DEF Step
    <2>3. x # <<"call", "Disconnect">>
      BY <2>1
    <2>4. TypeInv'
      BY <1>1, <1>2, <2>1, <2>2 DEF TypeInv
    <2> PICK p : p = gui'
      OBVIOUS
    <2>5. p = <<x>> /\ Len(p) = 1 /\ p[1] = x /\ Head(p) = x /\ \A i \in 1..Len(p) : i = 1
      BY <2>1
    <2>6. Ordered(p)
      BY <2>2, <2>5 DEF Ordered
    <2>7. HeadInv'
      <3>1. \A s \in Streams : ~AtStep("launch", s)' /\ ~AtStep("cancel", s)' /\ ~AtStep("join", s)'
        BY <2>2, <2>5 DEF AtStep
      <3>2. QED
        BY <3>1 DEF HeadInv
    <2>8. ThreadInv'
      BY <1>1 DEF Inv, ThreadInv, FlagAgrees, streamVars
    <2>9. SessionInv'
      <3>1. ASSUME NEW s \in Streams, view # "chat"
            PROVE  thread'[s] = NoThread
        <4>1. GoneBy(0, s) /\ ~JoinedBy(gui, 0, s)
          BY <1>1, <3>1 DEF Inv, SessionInv, JoinedBy
        <4>2. QED
          BY <1>1, <4>1 DEF GoneBy, streamVars
      <3>2. \A s \in Streams, j \in 1..Len(p) : p[j] # <<"launch", s>>
        BY <2>2, <2>5
      <3>3. view' # "chat" => \A s \in Streams : GoneBy(Len(gui), s)'
        BY <2>1, <3>1, <3>2 DEF GoneBy
      <3>4. \A i \in 1..Len(p) : /\ p[i] # <<"call", "Disconnect">>
                                 /\ p[i] = <<"call", "Connect">> => Len(p) = 1 /\ view' = "login"
        BY <2>1, <2>3, <2>5
      <3>5. QED
        BY <3>3, <3>4 DEF SessionInv
    <2>10. QED
      BY <2>4, <2>6, <2>7, <2>8, <2>9 DEF Inv
  <1>4. CASE HandleDisconnect \/ HandleClose
    <2>1. loggedInOnce \in BOOLEAN /\ view' \in {"login", "exited"}
      BY <1>1, <1>4 DEF TypeInv, HandleDisconnect, HandleClose
    <2>2. Program(gui') /\ Ends(gui')
      BY <1>4, <2>1, CloseProgram, EndPrograms DEF HandleDisconnect, HandleClose
    <2>3. TypeInv'
      BY <1>2, <2>1, <2>2 DEF TypeInv, Program, Whole
    <2>4. QED
      BY <1>1, <2>2, <2>3, ProgramBegins DEF Inv
  <1>5. QED
    BY <1>3, <1>4 DEF User

-----------------------------------------------------------------------------
(* Steps of the streams' threads.                                          *)

\* What a thread may do to itself.
LEMMA ThreadShape ==
    ASSUME TypeInv, NEW s \in Streams, NEW guiIdle, StreamSteps(s, guiIdle) \/ ServerSteps(s)
    PROVE  /\ UNCHANGED wasRunning
           /\ thread[s] \in StreamThread
           /\ \A u \in Streams : u # s => thread'[u] = thread[u] /\ running'[u] = running[u]
           /\ thread'[s] \in StreamThread /\ thread'[s].cancelled = thread[s].cancelled
           /\ StreamsTypeOK'
           /\ \/ /\ running'[s] = running[s] /\ thread'[s].status = thread[s].status
                 /\ thread[s].pc \in {"open", "loop", "read", "post"}
                 /\ thread'[s].pc \in {"loop", "read", "post", "finish"}
              \/ /\ running'[s] = running[s]
                 /\ thread[s].pc = "finish" /\ thread'[s].pc = "exchange"
                 /\ thread'[s].status = "CANCELLED" => thread[s].cancelled
              \/ /\ running'[s] = FALSE /\ thread'[s].status = thread[s].status
                 /\ thread[s].pc = "exchange" /\ thread'[s].pc \in {"report", "done"}
                 /\ thread'[s].pc = "report" => running[s]
              \/ /\ running'[s] = running[s] /\ thread'[s].status = thread[s].status
                 /\ thread[s].pc = "report" /\ thread'[s].pc = "done"
  <1>1. /\ running \in [Streams -> BOOLEAN] /\ wasRunning \in BOOLEAN
        /\ thread \in [Streams -> StreamThread \cup {NoThread}]
    BY DEF TypeInv, StreamsTypeOK
  <1>2. thread[s] # NoThread
    BY DEF StreamSteps, ServerSteps, StreamOpens, StreamChecksFlag, StreamPosts, ReadCancelled,
           FinishCancelled, StreamExchangesFlag, StreamReports, ReadItem, ReadEnds, StreamFinishes,
           Finishes, At
  <1>3. thread[s] \in StreamThread
    BY <1>1, <1>2
  <1>4. CASE \E pc \in {"loop", "read", "post", "finish"} :
                Goto(s, pc) /\ thread[s].pc \in {"open", "loop", "read", "post"}
    <2>1. PICK pc \in {"loop", "read", "post", "finish"} :
               Goto(s, pc) /\ thread[s].pc \in {"open", "loop", "read", "post"}
      BY <1>4
    <2>2. /\ thread' = [thread EXCEPT ![s].pc = pc] /\ UNCHANGED <<running, wasRunning>>
          /\ thread'[s] = [thread[s] EXCEPT !.pc = pc]
      BY <1>1, <2>1 DEF Goto
    <2>3. /\ thread'[s] \in StreamThread /\ thread'[s].pc = pc
          /\ thread'[s].cancelled = thread[s].cancelled /\ thread'[s].status = thread[s].status
      BY <1>3, <2>2 DEF StreamThread
    <2>4. StreamsTypeOK'
      BY <1>1, <2>2, <2>3 DEF StreamsTypeOK
    <2>5. QED
      BY <1>1, <1>3, <2>1, <2>2, <2>3, <2>4
  <1>5. CASE Finishes(s, {"OK", "failed"}) \/ (thread[s].cancelled /\ Finishes(s, {"CANCELLED"}))
    <2>1. PICK status \in {"OK", "failed", "CANCELLED"} :
               /\ thread[s].pc = "finish"
               /\ thread' = [thread EXCEPT ![s].pc = "exchange", ![s].status = status]
               /\ UNCHANGED <<running, wasRunning>>
               /\ status = "CANCELLED" => thread[s].cancelled
      BY <1>5 DEF Finishes, At
    <2>2. thread'[s] = [thread[s] EXCEPT !.pc = "exchange", !.status = status]
      BY <1>1, <2>1
    <2>3. /\ thread'[s] \in StreamThread /\ thread'[s].pc = "exchange"
          /\ thread'[s].cancelled = thread[s].cancelled /\ thread'[s].status = status
      BY <1>3, <2>2 DEF StreamThread
    <2>4. StreamsTypeOK'
      BY <1>1, <2>1, <2>3 DEF StreamsTypeOK
    <2>5. QED
      BY <1>1, <1>3, <2>1, <2>3, <2>4
  <1>6. CASE StreamExchangesFlag(s)
    <2> PICK pc : pc = IF thread[s].status # "OK" /\ running[s] THEN "report" ELSE "done"
      OBVIOUS
    <2>1. /\ thread[s].pc = "exchange" /\ running' = [running EXCEPT ![s] = FALSE]
          /\ thread' = [thread EXCEPT ![s].pc = pc] /\ UNCHANGED wasRunning
          /\ pc \in {"report", "done"} /\ (pc = "report" => running[s])
      BY <1>6 DEF StreamExchangesFlag, At
    <2>2. thread'[s] = [thread[s] EXCEPT !.pc = pc]
      BY <1>1, <2>1
    <2>3. /\ thread'[s] \in StreamThread /\ thread'[s].pc = pc
          /\ thread'[s].cancelled = thread[s].cancelled /\ thread'[s].status = thread[s].status
      BY <1>3, <2>1, <2>2 DEF StreamThread
    <2>4. StreamsTypeOK'
      BY <1>1, <2>1, <2>3 DEF StreamsTypeOK
    <2>5. QED
      BY <1>1, <1>3, <2>1, <2>3, <2>4
  <1>7. CASE StreamReports(s)
    <2>1. /\ thread[s].pc = "report" /\ UNCHANGED <<running, wasRunning>>
          /\ thread' = [thread EXCEPT ![s].pc = "done"]
      BY <1>7 DEF StreamReports, At, Goto
    <2>2. thread'[s] = [thread[s] EXCEPT !.pc = "done"]
      BY <1>1, <2>1
    <2>3. /\ thread'[s] \in StreamThread /\ thread'[s].pc = "done"
          /\ thread'[s].cancelled = thread[s].cancelled /\ thread'[s].status = thread[s].status
      BY <1>3, <2>2 DEF StreamThread
    <2>4. StreamsTypeOK'
      BY <1>1, <2>1, <2>3 DEF StreamsTypeOK
    <2>5. QED
      BY <1>1, <1>3, <2>1, <2>3, <2>4
  <1>8. QED
    BY <1>4, <1>5, <1>6, <1>7 DEF StreamSteps, ServerSteps, StreamOpens, StreamChecksFlag, StreamPosts,
           ReadCancelled, FinishCancelled, ReadItem, ReadEnds, StreamFinishes, At

\* A thread neither appears nor disappears by itself, and lowers its flag as
\* the last thing before it reports.
LEMMA ThreadStep ==
    ASSUME Inv, NEW s \in Streams, NEW guiIdle, StreamSteps(s, guiIdle) \/ ServerSteps(s),
           UNCHANGED <<loginViewVars, gui, view, loggedInOnce>>
    PROVE  Inv'
  <1>1. TypeInv /\ Ordered(gui) /\ Ordered(gui')
    BY DEF Inv
  <1>2. TypeInv'
    BY <1>1, ThreadShape DEF TypeInv, LoginViewTypeOK, loginViewVars
  <1>3. \A op, x : AtStep(op, x)' <=> AtStep(op, x)
    BY DEF AtStep
  <1>4. thread[s] # NoThread /\ thread'[s] # NoThread
    BY <1>1, ThreadShape, NoThreadAssumption
  <1>5. \A u \in Streams : (thread'[u] = NoThread <=> thread[u] = NoThread) /\ (running'[u] => running[u])
    BY <1>1, <1>4, ThreadShape
  <1>6. HeadInv'
    BY <1>1, <1>3, <1>5, ThreadShape DEF Inv, HeadInv
  <1>7. ASSUME NEW u \in Streams
        PROVE  /\ running'[u] => /\ thread'[u] # NoThread
                                 /\ ~thread'[u].cancelled
                                 /\ thread'[u].pc \notin {"report", "done"}
               /\ thread'[u] # NoThread =>
                    /\ ~running'[u] => \/ thread'[u].cancelled
                                       \/ thread'[u].pc \in {"report", "done"}
                                       \/ AtStep("cancel", u)' /\ wasRunning'
                    /\ thread'[u].status = "CANCELLED" => thread'[u].cancelled
                    /\ thread'[u].pc = "report" => thread'[u].status # "CANCELLED"
    <2>1. /\ running[u] => /\ thread[u] # NoThread
                           /\ ~thread[u].cancelled
                           /\ thread[u].pc \notin {"report", "done"}
          /\ thread[u] # NoThread =>
               /\ ~running[u] => \/ thread[u].cancelled
                                 \/ thread[u].pc \in {"report", "done"}
                                 \/ AtStep("cancel", u) /\ wasRunning
               /\ thread[u].status = "CANCELLED" => thread[u].cancelled
               /\ thread[u].pc = "report" => thread[u].status # "CANCELLED"
      BY DEF Inv, ThreadInv, FlagAgrees
    <2>2. wasRunning' = wasRunning
      BY <1>1, ThreadShape
    <2>3. CASE u # s
      BY <1>1, <1>3, <2>1, <2>2, <2>3, ThreadShape
    <2>4. CASE u = s
      <3>1. /\ thread'[s].cancelled = thread[s].cancelled
            /\ \/ /\ running'[s] = running[s] /\ thread'[s].status = thread[s].status
                  /\ thread[s].pc \in {"open", "loop", "read", "post"}
                  /\ thread'[s].pc \in {"loop", "read", "post", "finish"}
               \/ /\ running'[s] = running[s]
                  /\ thread[s].pc = "finish" /\ thread'[s].pc = "exchange"
                  /\ thread'[s].status = "CANCELLED" => thread[s].cancelled
               \/ /\ running'[s] = FALSE /\ thread'[s].status = thread[s].status
                  /\ thread[s].pc = "exchange" /\ thread'[s].pc \in {"report", "done"}
                  /\ thread'[s].pc = "report" => running[s]
               \/ /\ running'[s] = running[s] /\ thread'[s].status = thread[s].status
                  /\ thread[s].pc = "report" /\ thread'[s].pc = "done"
        BY <1>1, ThreadShape
      <3>2. QED
        BY <1>3, <1>4, <2>1, <2>2, <2>4, <3>1
    <2>5. QED
      BY <2>3, <2>4
  <1>8. ThreadInv'
    BY <1>7 DEF ThreadInv, FlagAgrees
  <1>9. SessionInv'
    <2>1. \A u, k : u \in Streams => (GoneBy(k, u) => GoneBy(k, u)')
      BY <1>5 DEF GoneBy, JoinedBy
    <2>2. QED
      BY <2>1 DEF Inv, SessionInv
  <1>10. QED
    BY <1>1, <1>2, <1>6, <1>8, <1>9 DEF Inv

-----------------------------------------------------------------------------
(* The theorems.                                                           *)

LEMMA ViewStep ==
    ASSUME Inv, UNCHANGED <<streamVars, gui, view, loggedInOnce>>, LoginViewTypeOK'
    PROVE  Inv'
  <1>1. TypeInv' /\ Ordered(gui')
    BY DEF Inv, TypeInv, StreamsTypeOK, streamVars
  <1>2. \A op, x : AtStep(op, x)' <=> AtStep(op, x)
    BY DEF AtStep
  <1>3. HeadInv' /\ ThreadInv'
    BY <1>2 DEF Inv, HeadInv, ThreadInv, FlagAgrees, streamVars
  <1>4. \A s, k : GoneBy(k, s)' <=> GoneBy(k, s)
    BY DEF GoneBy, JoinedBy, streamVars
  <1>5. SessionInv'
    BY <1>4 DEF Inv, SessionInv
  <1>6. QED
    BY <1>1, <1>3, <1>5 DEF Inv

LEMMA Initially ==
    ASSUME Init
    PROVE  Inv
  <1>1. TypeInv
    <2>1. gui \in Seq(Step)
      BY DEF Init
    <2>2. StreamsTypeOK
      BY DEF Init, StreamsInit, StreamsTypeOK
    <2>3. QED
      BY <2>1, <2>2 DEF Init, LoginViewInit, TypeInv, LoginViewTypeOK
  <1>2. gui = <<>> /\ view = "login" /\ \A s \in Streams : thread[s] = NoThread /\ running[s] = FALSE
    BY DEF Init, StreamsInit
  <1>3. Ordered(gui) /\ HeadInv
    BY <1>2 DEF Ordered, HeadInv, AtStep
  <1>4. ThreadInv /\ SessionInv
    BY <1>2 DEF ThreadInv, FlagAgrees, SessionInv, GoneBy
  <1>5. QED
    BY <1>1, <1>3, <1>4 DEF Inv

LEMMA NextKept ==
    ASSUME Inv, [Next]_vars
    PROVE  Inv'
  <1>1. CASE User
    BY <1>1, UserStep
  <1>2. CASE HandleTimer
    BY <1>2, ViewStep DEF HandleTimer, onConnectivityStateChanged, Inv, TypeInv, LoginViewTypeOK
  <1>3. CASE GuiSteps
    <2>1. CASE ConnectReturns \/ CallReturns
      BY <2>1, CallStep
    <2>2. ASSUME NEW s \in Streams, StreamStep(s)
          PROVE  Inv'
      BY <2>2, FlagStep, CancelStep, JoinStep, LaunchStep DEF StreamStep
    <2>3. QED
      BY <1>3, <2>1, <2>2 DEF GuiSteps
  <1>4. CASE \E s \in Streams : ThreadSteps(s)
    BY <1>4, ThreadStep DEF ThreadSteps
  <1>5. CASE Network
    <2>1. CASE ChannelChanges /\ UNCHANGED <<streamVars, gui, view, loggedInOnce>>
      BY <2>1, ViewStep DEF ChannelChanges, Inv, TypeInv, LoginViewTypeOK
    <2>2. ASSUME NEW s \in Streams, ServerSteps(s), UNCHANGED <<loginViewVars, gui, view, loggedInOnce>>
          PROVE  Inv'
      BY <2>2, ThreadStep
    <2>3. QED
      BY <1>5, <2>1, <2>2 DEF Network
  <1>6. CASE UNCHANGED vars
    BY <1>6, ViewStep DEF vars, Inv, TypeInv, LoginViewTypeOK, loginViewVars
  <1>7. QED
    BY <1>1, <1>2, <1>3, <1>4, <1>5, <1>6 DEF Next

\* The flags, threads and programs keep their types, and a raised flag means
\* a thread at work that nobody told to stop.
THEOREM ProcessTypeCorrect == Spec => []TypeOK
  <1>1. Inv => TypeOK
    BY DEF Inv, TypeInv, ThreadInv, TypeOK
  <1>2. QED
    BY <1>1, Initially, NextKept, PTL DEF Spec

\* start...Stream never assigns to a std::thread that was not joined, however
\* the stream it held ended and whatever its thread is doing.
THEOREM ThreadsAreJoined == Spec => []NeverOverwritten
  <1>1. Inv => NeverOverwritten
    BY DEF Inv, HeadInv, NeverOverwritten
  <1>2. QED
    BY <1>1, Initially, NextKept, PTL DEF Spec

\* Once a session is over and the GUI thread is back, nothing of its streams
\* is left, also when the window was closed before they were started.
THEOREM NothingLeftBehind == Spec => []QuietWithoutSession
  <1>1. ASSUME Inv, gui = <<>>, view # "chat", NEW s \in Streams
        PROVE  thread[s] = NoThread /\ ~running[s]
    <2>1. GoneBy(0, s) /\ ~JoinedBy(gui, 0, s)
      BY <1>1 DEF Inv, SessionInv, JoinedBy
    <2>2. thread[s] = NoThread
      BY <2>1 DEF GoneBy
    <2>3. QED
      BY <1>1, <2>2 DEF Inv, ThreadInv, FlagAgrees
  <1>2. Inv => QuietWithoutSession
    BY <1>1 DEF QuietWithoutSession
  <1>3. QED
    BY <1>2, Initially, NextKept, PTL DEF Spec

\* A stream that the client cancelled is not reported as an error: its flag
\* was cleared before.
THEOREM CancelIsSilent == Spec => []OwnCancelIsSilent
  <1>1. Inv => OwnCancelIsSilent
    BY DEF Inv, ThreadInv, OwnCancelIsSilent, At
  <1>2. QED
    BY <1>1, Initially, NextKept, PTL DEF Spec

\* The safe part of GuiReturns: stop...Stream joins no thread that is waiting
\* for a silent server.
THEOREM NoJoinHangs == Spec => []JoinsNeverHang
  <1>1. ASSUME Inv, NEW s \in Streams, AtStep("join", s), thread[s] # NoThread,
               thread[s].pc \in {"read", "finish"}
        PROVE  thread[s].cancelled
    <2>1. ~AtStep("cancel", s)
      BY <1>1 DEF AtStep
    <2>2. ~running[s]
      BY <1>1 DEF Inv, HeadInv
    <2>3. QED
      BY <1>1, <2>1, <2>2 DEF Inv, ThreadInv
  <1>2. Inv => JoinsNeverHang
    BY <1>1 DEF JoinsNeverHang
  <1>3. QED
    BY <1>2, Initially, NextKept, PTL DEF Spec

\* What StreamCalls assumes of a client: no stream of a session is left when
\* its Disconnect, or the next session's Connect, is sent.
THEOREM StreamsStayInSession == Spec => []StreamsWithinSession
  <1>1. ASSUME Inv, NEW s \in Streams, AtStep("call", "Disconnect") \/ AtStep("call", "Connect")
        PROVE  thread[s] = NoThread /\ ~running[s]
    <2>1. 1 \in 1..Len(gui) /\ \A op, x : AtStep(op, x) <=> gui[1] = <<op, x>>
      BY <1>1, HeadIsFirst DEF Inv, TypeInv, AtStep
    <2>2. \A i \in 1..1 : gui[i] # <<"join", s>> /\ gui[i] # <<"launch", s>>
      BY <1>1, <2>1
    <2>3. \A k \in {0, 1} : ~JoinedBy(gui, k, s)
      BY <2>2 DEF JoinedBy
    <2>4. ASSUME gui[1] = <<"call", "Disconnect">>
          PROVE  thread[s] = NoThread
      <3>1. GoneBy(0, s)
        BY <1>1, <2>1, <2>4 DEF Inv, SessionInv
      <3>2. QED
        BY <2>3, <3>1 DEF GoneBy
    <2>5. ASSUME gui[1] = <<"call", "Connect">>
          PROVE  thread[s] = NoThread
      <3>1. Len(gui) = 1 /\ GoneBy(Len(gui), s)
        BY <1>1, <2>1, <2>5 DEF Inv, SessionInv
      <3>2. QED
        BY <2>3, <3>1 DEF GoneBy
    <2>6. thread[s] = NoThread
      BY <1>1, <2>1, <2>4, <2>5
    <2>7. QED
      BY <1>1, <2>6 DEF Inv, ThreadInv, FlagAgrees
  <1>2. Inv => StreamsWithinSession
    BY <1>1 DEF StreamsWithinSession
  <1>3. QED
    BY <1>2, Initially, NextKept, PTL DEF Spec
===============================================================================

-------------------------- MODULE ServerLogs_proofs --------------------------
(***************************************************************************)
(* Proofs about what the server records, for every set of peers, names and *)
(* threads and every bound: the history of public messages obeys the       *)
(* validators, and the statistics count what the logs hold.                *)
(***************************************************************************)
EXTENDS ChatSystem_proofs, FiniteSetTheorems

-----------------------------------------------------------------------------
(* A client has at most one SendMessage under way.                         *)

SendsInv ==
    /\ \A p \in Peers : view[p] = "crashed" => awaiting[p] = NoThread
    /\ \A t \in Threads : Busy(t, "SendMessage") =>
          awaiting[calls[t].peer] = t \/ view[calls[t].peer] = "crashed"
    /\ \A t, u \in Threads :
          Busy(t, "SendMessage") /\ Busy(u, "SendMessage") /\ calls[t].peer = calls[u].peer => t = u

LEMMA SendsFrame ==
    ASSUME SendsInv, UNCHANGED <<view, awaiting>>,
           \A t \in Threads : calls[t] = NoCall => calls'[t] = NoCall,
           \A t \in Threads : calls[t] # NoCall => calls'[t] = NoCall \/ SameCall(calls[t], calls'[t])
    PROVE  SendsInv'
  <1>1. \A t \in Threads : Busy(t, "SendMessage")' =>
                             Busy(t, "SendMessage") /\ calls'[t].peer = calls[t].peer
    BY DEF Busy, SameCall
  <1>2. QED
    BY <1>1 DEF SendsInv

LEMMA StartSends ==
    ASSUME TypeInv, SendsInv, NEW p \in Peers, awaiting[p] = NoThread, view[p] # "crashed",
           NEW t \in Threads, NEW call \in Call, Starts(t, call), call.peer = p,
           NEW v, v # "crashed",
           view' = [view EXCEPT ![p] = v], awaiting' = [awaiting EXCEPT ![p] = t]
    PROVE  SendsInv'
  <1>1. /\ calls'[t] = call /\ \A u \in Threads : u # t => calls'[u] = calls[u]
        /\ view'[p] = v /\ awaiting'[p] = t
        /\ \A q \in Peers : q # p => view'[q] = view[q] /\ awaiting'[q] = awaiting[q]
    BY DEF Starts, TypeInv, TypeOK, ServiceTypeOK, ClientTypeOK
  <1>2. \A u \in Threads : calls[u] # NoCall => calls[u].peer \in Peers
    BY CallOfOp DEF TypeInv, TypeOK, ServiceTypeOK, CallsTyped, Call, ConnectCall, DisconnectCall,
                    SendMessageCall
  <1>3. \A u \in Threads : u # NoThread
    BY ClientAssumption
  <1>4. \A u \in Threads : u # t /\ Busy(u, "SendMessage")' =>
                             Busy(u, "SendMessage") /\ calls'[u].peer = calls[u].peer
                               /\ calls[u].peer # p /\ calls[u].peer \in Peers
    BY <1>1, <1>2, <1>3 DEF SendsInv, Busy
  <1>5. QED
    BY <1>1, <1>4 DEF SendsInv

LEMMA EndSends ==
    ASSUME TypeInv, SendsInv, NEW p \in Peers, NEW t \in Threads, awaiting[p] = t, Ends(t),
           NEW v, v # "crashed",
           view' = [view EXCEPT ![p] = v], awaiting' = [awaiting EXCEPT ![p] = NoThread]
    PROVE  SendsInv'
  <1>1. /\ calls'[t] = NoCall /\ \A u \in Threads : u # t => calls'[u] = calls[u]
        /\ view'[p] = v /\ awaiting'[p] = NoThread
        /\ \A q \in Peers : q # p => view'[q] = view[q] /\ awaiting'[q] = awaiting[q]
    BY DEF Ends, TypeInv, TypeOK, ServiceTypeOK, ClientTypeOK
  <1>2. \A u \in Threads : calls[u] # NoCall => calls[u].peer \in Peers
    BY CallOfOp DEF TypeInv, TypeOK, ServiceTypeOK, CallsTyped, Call, ConnectCall, DisconnectCall,
                    SendMessageCall
  <1>3. view[p] # "crashed"
    BY ClientAssumption DEF SendsInv
  <1>4. \A u \in Threads : Busy(u, "SendMessage")' =>
                             Busy(u, "SendMessage") /\ calls'[u].peer = calls[u].peer
                               /\ calls[u].peer # p /\ calls[u].peer \in Peers
    BY <1>1, <1>2, <1>3 DEF SendsInv, Busy
  <1>5. QED
    BY <1>1, <1>4 DEF SendsInv

LEMMA QuitSends ==
    ASSUME TypeInv, SendsInv, NEW p \in Peers, ConnectTimesOut(p) \/ Crash(p) \/ CloseUnused(p)
    PROVE  SendsInv'
  <1>1. UNCHANGED calls
    BY DEF ConnectTimesOut, Crash, CloseUnused
  <1>2. \A q \in Peers : q # p => view'[q] = view[q] /\ awaiting'[q] = awaiting[q]
    BY DEF ConnectTimesOut, Crash, CloseUnused, SetView, TypeInv, TypeOK, ClientTypeOK
  <1>3. awaiting'[p] = NoThread
    BY DEF ConnectTimesOut, Crash, CloseUnused, Responsive, TypeInv, TypeOK, ClientTypeOK
  <1>4. \A u \in Threads : calls[u] # NoCall => calls[u].peer \in Peers
    BY CallOfOp DEF TypeInv, TypeOK, ServiceTypeOK, CallsTyped, Call, ConnectCall, DisconnectCall,
                    SendMessageCall
  <1>5. \A u \in Threads : Busy(u, "SendMessage") /\ calls[u].peer = p => view'[p] = "crashed"
    <2>1. CASE ConnectTimesOut(p)
      BY <2>1 DEF ConnectTimesOut, SendsInv, Busy
    <2>2. CASE Crash(p)
      BY <2>2 DEF Crash, SetView, TypeInv, TypeOK, ClientTypeOK
    <2>3. CASE CloseUnused(p)
      BY <2>3, ClientAssumption DEF CloseUnused, Responsive, SendsInv, Busy
    <2>4. QED
      BY <2>1, <2>2, <2>3
  <1>6. QED
    BY <1>1, <1>2, <1>3, <1>4, <1>5 DEF SendsInv, Busy

LEMMA ClientSends ==
    ASSUME TypeInv, SendsInv, NEW p \in Peers, UserStep(p) \/ ReplyStep(p)
    PROVE  SendsInv'
  <1>1. ClientTypeOK
    BY DEF TypeInv, TypeOK
  <1>2. 0 \in Time
    BY ClockAssumption DEF Time
  <1>3. view = [view EXCEPT ![p] = view[p]]
    BY <1>1 DEF ClientTypeOK
  <1>4. ASSUME NEW call \in Call, call.pc \in {"check", "duration", "lookup"}, Invoke(p, call),
               call.peer = p, Responsive(p), view[p] # "crashed",
               NEW v, v # "crashed", view' = [view EXCEPT ![p] = v]
        PROVE  SendsInv'
    <2>1. PICK t \in Threads : Starts(t, call) /\ awaiting' = [awaiting EXCEPT ![p] = t]
      BY <1>4, NoCallAssumption DEF Invoke, Starts
    <2>2. QED
      BY <1>4, <2>1, StartSends DEF Responsive
  <1>5. ASSUME NEW n \in NamesOf[p], Login(p, n)
        PROVE  SendsInv'
    <2>1. LET c == NewConnect(p, n) IN c \in Call /\ c.pc = "check" /\ c.peer = p
      BY <1>2, ClientAssumption DEF NewConnect, ConnectCall, Call
    <2>2. QED
      BY <1>3, <1>4, <1>5, <2>1 DEF Login
  <1>6. ASSUME NEW next \in {"leaving", "closing"}, PrepareClose(p, next), Responsive(p),
               view[p] # "crashed", pseudonym[p] # NoName
        PROVE  SendsInv'
    <2>1. LET c == NewDisconnect(p, pseudonym[p]) IN c \in Call /\ c.pc = "duration" /\ c.peer = p
      BY <1>1, <1>2, <1>6 DEF NewDisconnect, DisconnectCall, Call, ClientTypeOK
    <2>2. QED
      BY <1>4, <1>6, <2>1 DEF PrepareClose, SetView
  <1>7. ASSUME NEW recipient \in Recipients, NEW content \in Lengths,
               SendMessage(p, recipient, content)
        PROVE  SendsInv'
    <2>1. LET c == NewSendMessage(p, pseudonym[p], recipient, content) IN
          c \in Call /\ c.pc = "lookup" /\ c.peer = p
      BY <1>1, <1>2, <1>7, ClientAssumption DEF NewSendMessage, SendMessageCall, Call, ClientTypeOK,
                                                SendMessage
    <2>2. view[p] # "crashed" /\ Responsive(p)
      BY <1>7 DEF SendMessage
    <2>3. QED
      BY <1>3, <1>4, <1>7, <2>1, <2>2 DEF SendMessage
  <1>8. CASE ReplyStep(p)
    <2>1. /\ awaiting[p] \in Threads /\ Ends(awaiting[p])
          /\ awaiting' = [awaiting EXCEPT ![p] = NoThread]
      BY <1>1, <1>8 DEF ReplyStep, LoginSucceeded, LoginRejected, Disconnected, MessageSent, Returned,
                        Return, ClientTypeOK, Ends, Answered, At
    <2>2. view[p] # "crashed"
      BY <2>1, ClientAssumption DEF SendsInv
    <2>3. PICK v : v # "crashed" /\ view' = [view EXCEPT ![p] = v]
      BY <1>3, <1>8, <2>2 DEF ReplyStep, LoginSucceeded, LoginRejected, Disconnected, MessageSent,
                              SetView
    <2>4. QED
      BY <2>1, <2>3, EndSends
  <1>9. CASE Disconnect(p) \/ CloseWindow(p)
    BY <1>1, <1>6, <1>9 DEF Disconnect, CloseWindow, ClientTypeOK
  <1>10. QED
    BY <1>5, <1>7, <1>8, <1>9, QuitSends DEF UserStep

LEMMA NextSends ==
    ASSUME TypeInv, WalkInv, SendsInv, [Next]_vars
    PROVE  SendsInv'
  <1>1. CASE UNCHANGED <<serverVars, clientVars>>
    BY <1>1, SendsFrame DEF serverVars, clientVars, SameCall
  <1>2. ASSUME NEW t \in Threads, HandlerStep(t)
        PROVE  SendsInv'
    BY <1>2, HandlerShape, SendsFrame DEF Shape, clientVars, SameCall
  <1>3. CASE ObserverStep
    BY <1>3, ObserverShape, ReturnsCalls, SendsFrame DEF clientVars
  <1>4. ASSUME NEW t \in Threads, DropAnswer(t)
        PROVE  SendsInv'
    <2>1. \A u \in Threads : calls'[u] = NoCall \/ calls'[u] = calls[u]
      BY <1>4 DEF DropAnswer, TypeInv, TypeOK, ServiceTypeOK
    <2>2. QED
      BY <1>4, <2>1, SendsFrame DEF DropAnswer, clientVars, SameCall
  <1>5. QED
    BY <1>1, <1>2, <1>3, <1>4, ClientSends DEF Next, vars

-----------------------------------------------------------------------------
(* Validated messages on their way into the history.                       *)

\* The public message of the call in t has passed the validators and is not
\* in the history yet.
Fresh(t) ==
    /\ Busy(t, "SendMessage")
    /\ calls[t].recipient = Everyone
    /\ calls[t].pc = "notify" \/ (calls[t].pc = "dispatching" /\ dispatch.next = 1)

\* d is the message c.
SameMessage(c, d) ==
    d.peer = c.peer /\ d.recipient = c.recipient /\ d.content = c.content /\ d.timestamp = c.timestamp

LimitsInv ==
    /\ \A t \in Threads :
          calls[t] # NoCall /\ calls[t].pc = "recipient" => calls[t].recipient # Everyone
    /\ \A i \in DOMAIN messageHistory :
          LET sender == messageHistory[i].sender IN
          lastMessageTime[sender] # Never /\ messageHistory[i].sentAt <= lastMessageTime[sender]
    /\ \A t \in Threads : Fresh(t) =>
          /\ calls[t].content \in MinLength..MaxLength
          /\ lastMessageTime[calls[t].peer] = calls[t].timestamp
          /\ \A i \in DOMAIN messageHistory :
                messageHistory[i].sender = calls[t].peer
                => calls[t].timestamp - messageHistory[i].sentAt >= MinInterval
    /\ MessagesObeyLimits

\* A step that neither records a time nor stores a message, and validates
\* none.
LEMMA LimitsFrame ==
    ASSUME LimitsInv, UNCHANGED <<messageHistory, lastMessageTime>>,
           \A t \in Threads : Fresh(t)' => Fresh(t) /\ SameMessage(calls[t], calls'[t]),
           \A t \in Threads : calls'[t] # NoCall /\ calls'[t].pc = "recipient" =>
                                calls'[t].recipient # Everyone
    PROVE  LimitsInv'
  BY DEF LimitsInv, SameMessage, MessagesObeyLimits

\* The handler in t moves on and everyone else stays where they are.
LEMMA OthersFresh ==
    ASSUME WalkInv, NEW t \in Threads, Shape(t), NEW u \in Threads, u # t
    PROVE  calls'[u] = calls[u] /\ (Fresh(u)' => Fresh(u))
  <1>1. calls'[u] = calls[u]
    BY DEF Shape
  <1>2. calls[u] # NoCall /\ calls[u].pc = "dispatching" => dispatch' = dispatch
    BY DEF Shape, WalkInv
  <1>3. QED
    BY <1>1, <1>2 DEF Fresh, Busy

LEMMA SteppingLimits ==
    ASSUME WalkInv, LimitsInv, NEW t \in Threads, Shape(t), UNCHANGED <<messageHistory, lastMessageTime>>,
           Fresh(t)' => Fresh(t) /\ SameMessage(calls[t], calls'[t]),
           calls'[t].pc = "recipient" => calls'[t].recipient # Everyone
    PROVE  LimitsInv'
  <1>1. \A u \in Threads : u # t => calls'[u] = calls[u] /\ (Fresh(u)' => Fresh(u))
    BY OthersFresh
  <1>2. \A u \in Threads : u # t => SameMessage(calls[u], calls'[u])
    BY <1>1 DEF SameMessage
  <1>3. \A u \in Threads : calls'[u] # NoCall /\ calls'[u].pc = "recipient" =>
                             calls'[u].recipient # Everyone
    BY <1>1 DEF LimitsInv
  <1>4. \A u \in Threads : Fresh(u)' => Fresh(u) /\ SameMessage(calls[u], calls'[u])
    BY <1>1, <1>2
  <1>5. QED
    BY <1>3, <1>4, LimitsFrame

LEMMA ValidateLimits ==
    ASSUME TypeInv, WalkInv, SendsInv, LimitsInv, NEW t \in Threads, Shape(t), SendValidate(t)
    PROVE  LimitsInv'
  <1> DEFINE c == calls[t]
             p == c.peer
             e(pc) == [c EXCEPT !.pc = pc, !.timestamp = now]
             f == [c EXCEPT !.pc = "refused"]
  <1>1. c \in SendMessageCall /\ c # NoCall /\ c.pc = "validate" /\ c.op = "SendMessage"
    BY CallOfOp DEF SendValidate, At, TypeInv, TypeOK, ServiceTypeOK, CallsTyped
  <1>2. p \in Peers /\ c.content \in Nat /\ now \in Time /\ Time \subseteq Nat
    <2>1. p \in Peers /\ c.content \in Lengths
      BY <1>1 DEF SendMessageCall
    <2>2. now \in Time
      BY DEF TypeInv, TypeOK
    <2>3. Time \subseteq Nat
      BY ClockAssumption DEF Time
    <2>4. QED
      BY <2>1, <2>2, <2>3, LengthsAssumption
  <1>3. UNCHANGED messageHistory
    BY DEF SendValidate, messageVars
  <1>4. CASE calls' = [calls EXCEPT ![t] = f] /\ UNCHANGED lastMessageTime
    <2>1. calls'[t].pc = "refused"
      BY <1>1, <1>4 DEF SendMessageCall, TypeInv, TypeOK, ServiceTypeOK
    <2>2. QED
      BY <1>3, <1>4, <2>1, SteppingLimits DEF Fresh
  <1>5. CASE /\ contentAccepted(c.content) /\ rateAccepted(p, now)
             /\ RecordMessageTime(p, now)
             /\ Continue(t, e(IF c.recipient = Everyone THEN "notify" ELSE "recipient"))
    <2> DEFINE d == calls'[t]
    <2>1. /\ d.peer = p /\ d.content = c.content /\ d.recipient = c.recipient /\ d.timestamp = now
          /\ d.pc = "recipient" => d.recipient # Everyone
      BY <1>1, <1>5 DEF Continue, SendMessageCall, TypeInv, TypeOK, ServiceTypeOK
    <2>2. /\ lastMessageTime'[p] = now
          /\ \A q \in Peers : q # p => lastMessageTime'[q] = lastMessageTime[q]
      BY <1>2, <1>5 DEF RecordMessageTime, TypeInv, TypeOK, ValidationTypeOK
    <2>3. /\ lastMessageTime[p] \in Nat \cup {Never}
          /\ lastMessageTime[p] # Never => now - lastMessageTime[p] >= MinInterval
          /\ MinInterval \in Nat /\ now # Never /\ now \in Nat
      BY <1>2, <1>5, ClockAssumption DEF rateAccepted, MinInterval, Never, TypeInv, TypeOK,
                                         ValidationTypeOK
    <2>4. c.content \in MinLength..MaxLength
      BY <1>2, <1>5 DEF contentAccepted
    <2>5. \A i \in DOMAIN messageHistory :
            messageHistory[i].sender \in Peers /\ messageHistory[i].sentAt \in Nat
      <3>1. \A i \in DOMAIN messageHistory : messageHistory[i] \in Message
        BY DEF TypeInv, TypeOK, MessagesTypeOK
      <3>2. QED
        BY <1>2, <3>1 DEF Message
    <2>6. \A i \in DOMAIN messageHistory : messageHistory[i].sender = p =>
            /\ now - messageHistory[i].sentAt >= MinInterval
            /\ messageHistory[i].sentAt <= now
      <3> SUFFICES ASSUME NEW i \in DOMAIN messageHistory, messageHistory[i].sender = p
                   PROVE  /\ now - messageHistory[i].sentAt >= MinInterval
                          /\ messageHistory[i].sentAt <= now
        OBVIOUS
      <3>1. lastMessageTime[p] # Never /\ messageHistory[i].sentAt <= lastMessageTime[p]
        BY DEF LimitsInv
      <3> DEFINE s == messageHistory[i].sentAt
                 l == lastMessageTime[p]
      <3>2. s \in Nat /\ l \in Nat /\ s <= l /\ now - l >= MinInterval
        BY <2>3, <2>5, <3>1
      <3> HIDE DEF s, l
      <3>3. now - s >= MinInterval /\ s <= now
        BY <2>3, <3>2
      <3>4. QED
        BY <3>3 DEF s
    <2>7. \A u \in Threads : u # t /\ Fresh(u)' =>
             Fresh(u) /\ calls'[u] = calls[u] /\ calls[u].peer # p /\ calls[u].peer \in Peers
      <3>1. \A u \in Threads : u # t => calls'[u] = calls[u] /\ (Fresh(u)' => Fresh(u))
        BY OthersFresh
      <3>2. \A u \in Threads : Busy(u, "SendMessage") => calls[u].peer \in Peers
        BY CallOfOp DEF Busy, SendMessageCall, TypeInv, TypeOK, ServiceTypeOK, CallsTyped
      <3>3. \A u \in Threads : u # t /\ Busy(u, "SendMessage") => calls[u].peer # p
        BY <1>1 DEF SendsInv, Busy
      <3>4. QED
        BY <3>1, <3>2, <3>3 DEF Fresh
    <2>8. \A u \in Threads : calls'[u] # NoCall /\ calls'[u].pc = "recipient" =>
                               calls'[u].recipient # Everyone
      BY <2>1 DEF Shape, LimitsInv
    <2>9. \A i \in DOMAIN messageHistory' :
             LET sender == messageHistory'[i].sender IN
             lastMessageTime'[sender] # Never /\ messageHistory'[i].sentAt <= lastMessageTime'[sender]
      BY <1>3, <2>2, <2>3, <2>5, <2>6 DEF LimitsInv
    <2>10. MessagesObeyLimits'
      BY <1>3 DEF LimitsInv, MessagesObeyLimits
    <2>11. ASSUME NEW u \in Threads, Fresh(u)'
           PROVE  /\ calls'[u].content \in MinLength..MaxLength
                  /\ lastMessageTime'[calls'[u].peer] = calls'[u].timestamp
                  /\ \A i \in DOMAIN messageHistory' :
                        messageHistory'[i].sender = calls'[u].peer
                        => calls'[u].timestamp - messageHistory'[i].sentAt >= MinInterval
      <3>1. CASE u = t
        BY <1>3, <2>1, <2>2, <2>4, <2>6, <3>1
      <3>2. CASE u # t
        BY <1>3, <2>2, <2>7, <2>11, <3>2 DEF LimitsInv
      <3>3. QED
        BY <3>1, <3>2
    <2>12. QED
      BY <2>8, <2>9, <2>10, <2>11 DEF LimitsInv
  <1>6. QED
    BY <1>4, <1>5 DEF SendValidate, Goto, Continue

LEMMA HandlerLimits ==
    ASSUME TypeInv, WalkInv, SendsInv, LimitsInv, NEW t \in Threads, HandlerStep(t)
    PROVE  LimitsInv'
  <1>1. Shape(t)
    BY HandlerShape
  <1>2. CASE \/ ConnectCheck(t) \/ ConnectRoster(t) \/ ConnectNotify(t)
             \/ DisconnectDuration(t) \/ DisconnectNotify(t)
    <2>1. calls[t].op \in {"Connect", "Disconnect"}
      BY <1>2 DEF ConnectCheck, ConnectRoster, ConnectNotify, DisconnectDuration, DisconnectNotify,
                  Notify, At
    <2>2. UNCHANGED <<messageHistory, lastMessageTime>>
      BY <1>2 DEF ConnectCheck, ConnectRoster, ConnectNotify, DisconnectDuration, DisconnectNotify,
                  Notify, LocalStep, messageVars
    <2>3. calls'[t] # NoCall /\ calls'[t].op = calls[t].op
      BY <1>1 DEF Shape, SameCall
    <2>4. ~Fresh(t)'
      BY <2>1, <2>3 DEF Fresh, Busy
    <2>5. calls'[t].pc # "recipient"
      <3>1. TypeInv'
        BY HandlerTyped
      <3>2. QED
        BY <2>1, <2>3, <3>1 DEF TypeInv, TypeOK, ServiceTypeOK, Call, ConnectCall, DisconnectCall,
                                SendMessageCall
    <2>6. QED
      BY <1>1, <2>2, <2>4, <2>5, SteppingLimits
  <1>3. CASE SendLookup(t) \/ SendRecipient(t) \/ SendNotify(t)
    <2> DEFINE c == calls[t]
               d == calls'[t]
    <2>1. c \in SendMessageCall /\ c # NoCall
      BY <1>3, CallOfOp DEF SendLookup, SendRecipient, SendNotify, Notify, At, TypeInv, TypeOK,
                            ServiceTypeOK, CallsTyped
    <2>2. UNCHANGED <<messageHistory, lastMessageTime>>
      BY <1>3 DEF SendLookup, SendRecipient, SendNotify, Notify, LocalStep, messageVars
    <2>3. CASE SendLookup(t)
      <3>1. d.pc \in {"validate", "refused"}
        BY <2>1, <2>3 DEF SendLookup, Continue, Goto, SendMessageCall, TypeInv, TypeOK, ServiceTypeOK
      <3>2. QED
        BY <1>1, <2>2, <3>1, SteppingLimits DEF Fresh
    <2>4. CASE SendRecipient(t)
      <3>1. d.recipient = c.recipient /\ d.pc # "recipient"
        BY <2>1, <2>4 DEF SendRecipient, Continue, Goto, SendMessageCall, TypeInv, TypeOK,
                          ServiceTypeOK
      <3>2. c.recipient # Everyone
        BY <2>1, <2>4 DEF SendRecipient, At, LimitsInv
      <3>3. QED
        BY <1>1, <2>2, <3>1, <3>2, SteppingLimits DEF Fresh
    <2>5. CASE SendNotify(t)
      <3>1. SameMessage(c, d) /\ d.pc = "dispatching" /\ c.pc = "notify" /\ c.op = "SendMessage"
        BY <2>1, <2>5 DEF SendNotify, Notify, At, Goto, Continue, SendMessageCall, TypeInv, TypeOK,
                          ServiceTypeOK, SameMessage
      <3>2. Fresh(t)' => Fresh(t)
        BY <2>1, <3>1 DEF Fresh, Busy, SameMessage
      <3>3. QED
        BY <1>1, <2>2, <3>1, <3>2, SteppingLimits
    <2>6. QED
      BY <1>3, <2>3, <2>4, <2>5
  <1>4. QED
    BY <1>1, <1>2, <1>3, ValidateLimits DEF HandlerStep

\* A message joins the history.
LEMMA StoreLimits ==
    ASSUME TypeInv, LimitsInv, NEW t \in Threads, Fresh(t), NEW m \in Message,
           m.sender = calls[t].peer, m.content = calls[t].content, m.sentAt = calls[t].timestamp,
           messageHistory' = Append(messageHistory, m), UNCHANGED lastMessageTime,
           \A u \in Threads : Fresh(u)' =>
             Fresh(u) /\ calls'[u] = calls[u] /\ calls[u].peer # m.sender,
           \A u \in Threads : calls'[u] # NoCall /\ calls'[u].pc = "recipient" =>
                                calls'[u].recipient # Everyone
    PROVE  LimitsInv'
  <1> DEFINE k == Len(messageHistory)
  <1>1. /\ k \in Nat /\ DOMAIN messageHistory = 1..k /\ DOMAIN messageHistory' = 1..(k + 1)
        /\ messageHistory'[k + 1] = m
        /\ \A i \in 1..k : messageHistory'[i] = messageHistory[i]
    BY DEF TypeInv, TypeOK, MessagesTypeOK
  <1> HIDE DEF k
  <1>2. /\ m.content \in MinLength..MaxLength
        /\ lastMessageTime[m.sender] = m.sentAt
        /\ \A i \in 1..k : messageHistory[i].sender = m.sender =>
                            m.sentAt - messageHistory[i].sentAt >= MinInterval
    BY <1>1 DEF LimitsInv
  <1>3. m.sentAt \in Nat /\ m.sentAt # Never /\ m.sentAt <= m.sentAt
    BY ClockAssumption DEF Message, Time, Never
  <1>4. \A i \in 1..(k + 1) : i \in 1..k \/ i = k + 1
    BY <1>1
  <1>5. \A i \in DOMAIN messageHistory' :
             LET sender == messageHistory'[i].sender IN
             lastMessageTime'[sender] # Never /\ messageHistory'[i].sentAt <= lastMessageTime'[sender]
    BY <1>1, <1>2, <1>3, <1>4 DEF LimitsInv
  <1>6. ASSUME NEW u \in Threads, Fresh(u)'
        PROVE  /\ calls'[u].content \in MinLength..MaxLength
               /\ lastMessageTime'[calls'[u].peer] = calls'[u].timestamp
               /\ \A i \in DOMAIN messageHistory' :
                     messageHistory'[i].sender = calls'[u].peer
                     => calls'[u].timestamp - messageHistory'[i].sentAt >= MinInterval
    BY <1>1, <1>4, <1>6 DEF LimitsInv
  <1>7. MessagesObeyLimits'
    <2> SUFFICES ASSUME NEW i \in 1..(k + 1)
                 PROVE  /\ messageHistory'[i].content \in MinLength..MaxLength
                        /\ \A j \in 1..(i - 1) :
                              messageHistory'[j].sender = messageHistory'[i].sender
                              => messageHistory'[i].sentAt - messageHistory'[j].sentAt >= MinInterval
      BY <1>1 DEF MessagesObeyLimits
    <2>1. CASE i = k + 1
      <3>1. 1..(i - 1) = 1..k
        BY <1>1, <2>1
      <3>2. QED
        BY <1>1, <1>2, <2>1, <3>1
    <2>2. CASE i \in 1..k
      <3>1. \A j \in 1..(i - 1) : j \in 1..k
        BY <1>1, <2>2
      <3>2. QED
        BY <1>1, <2>2, <3>1 DEF LimitsInv, MessagesObeyLimits
    <2>3. QED
      BY <1>4, <2>1, <2>2
  <1>8. QED
    BY <1>5, <1>6, <1>7 DEF LimitsInv

LEMMA ObserverLimits ==
    ASSUME TypeInv, WalkInv, SendsInv, LimitsInv, ObserverStep
    PROVE  LimitsInv'
  <1> PICK o : o = dispatch.owner
    OBVIOUS
  <1>1. dispatch # Unlocked /\ Returns /\ o \in Threads
    BY ObserverShape DEF Returns
  <1>2. dispatch.next \in 1..4 /\ dispatch.next + 1 # 1
    BY <1>1 DEF TypeInv, TypeOK, DispatcherTypeOK, Dispatch
  <1>3. ~Fresh(o)' /\ calls'[o].pc # "recipient"
    <2>1. CASE dispatch' = Unlocked
      BY <1>1, <2>1 DEF Returns, Fresh, Answer
    <2>2. CASE dispatch' # Unlocked
      BY <1>1, <1>2, <2>2 DEF Returns, Fresh
    <2>3. QED
      BY <2>1, <2>2
  <1>4. \A u \in Threads : u # o => calls'[u] = calls[u] /\ (Fresh(u)' => Fresh(u))
    BY <1>1 DEF Returns, WalkInv, Fresh, Busy
  <1>5. \A u \in Threads : calls'[u] # NoCall /\ calls'[u].pc = "recipient" =>
                             calls'[u].recipient # Everyone
    BY <1>3, <1>4 DEF LimitsInv
  <1>6. CASE MessagesStore
    <2> DEFINE e == dispatch.event
               m == [author |-> e.pseudonym, content |-> e.content, sender |-> e.peer,
                     sentAt |-> e.sentAt]
    <2>1. e \in MessageSentEvent /\ e.kind = "MessageSent" /\ dispatch.next = 1
      <3>1. e \in MessageSentEvent /\ e.kind = "MessageSent"
        BY <1>6, NotifiedEvent DEF MessagesStore
      <3>2. Observers["MessageSent"][dispatch.next] = "messages"
        BY <1>6 DEF MessagesStore, Notifies
      <3>3. dispatch.next \in 1..Len(Observers["MessageSent"])
        BY <1>1, <3>1 DEF TypeInv, WalkOwned
      <3>4. dispatch.next = 1 \/ dispatch.next = 2
        BY <1>2, <3>3 DEF Observers
      <3>5. QED
        BY <3>1, <3>2, <3>4 DEF Observers
    <2>2. m \in Message
      BY <2>1 DEF MessageSentEvent, Message
    <2>3. /\ Fresh(o) /\ calls[o].peer = e.peer /\ calls[o].content = e.content
          /\ calls[o].timestamp = e.sentAt
      BY <1>1, <2>1 DEF WalkInv, RaisedBy, Returns, Fresh, Busy
    <2>4. \A u \in Threads : Fresh(u)' =>
             Fresh(u) /\ calls'[u] = calls[u] /\ calls[u].peer # e.peer
      BY <1>1, <1>3, <1>4, <2>3 DEF SendsInv, Fresh
    <2>5. messageHistory' = Append(messageHistory, m) /\ UNCHANGED lastMessageTime
      BY <1>6 DEF MessagesStore, MessagesOnMessageSent
    <2>6. m.sender = e.peer /\ m.content = e.content /\ m.sentAt = e.sentAt
      OBVIOUS
    <2> HIDE DEF m
    <2>7. QED
      BY <1>1, <1>5, <2>2, <2>3, <2>4, <2>5, <2>6, StoreLimits
  <1>7. CASE RegistryConnected \/ RegistryDisconnected \/ DatabaseLogs \/ EventsLog \/ PrivateQueues
    <2>1. UNCHANGED <<messageHistory, lastMessageTime>>
      BY <1>7 DEF RegistryConnected, RegistryDisconnected, DatabaseLogs, EventsLog, PrivateQueues,
                  messageVars
    <2>2. QED
      BY <1>3, <1>4, <1>5, <2>1, LimitsFrame DEF SameMessage
  <1>8. QED
    BY <1>6, <1>7 DEF ObserverStep

LEMMA CallsLimits ==
    ASSUME TypeInv, LimitsInv, UNCHANGED <<messageHistory, lastMessageTime, dispatch>>,
           \/ UNCHANGED calls
           \/ \E t \in Threads, call \in Call : Starts(t, call)
           \/ \E t \in Threads : Ends(t)
    PROVE  LimitsInv'
  <1>1. \A u \in Threads : \/ calls'[u] = calls[u]
                           \/ calls'[u] = NoCall
                           \/ calls'[u] # NoCall /\ calls'[u].pc \in {"check", "duration", "lookup"}
    BY DEF Starts, Ends, TypeInv, TypeOK, ServiceTypeOK
  <1>2. QED
    BY <1>1, LimitsFrame DEF Fresh, Busy, SameMessage, LimitsInv

LEMMA NextLimits ==
    ASSUME TypeInv, WalkInv, SendsInv, LimitsInv, [Next]_vars
    PROVE  LimitsInv'
  <1>1. CASE UNCHANGED <<serverVars, clientVars>>
    BY <1>1, CallsLimits DEF serverVars, messageVars
  <1>2. ASSUME NEW p \in Peers, UserStep(p) \/ ReplyStep(p)
        PROVE  LimitsInv'
    <2>1. UNCHANGED <<messageHistory, lastMessageTime>>
      BY <1>2 DEF UserStep, Login, ConnectTimesOut, Disconnect, CloseWindow, CloseUnused,
                  PrepareClose, SendMessage, Crash, ReplyStep, LoginSucceeded, LoginRejected,
                  Disconnected, MessageSent, LocalStep, messageVars
    <2>2. QED
      BY <1>2, <2>1, ClientShape, CallsLimits
  <1>3. ASSUME NEW t \in Threads, DropAnswer(t)
        PROVE  LimitsInv'
    BY <1>3, CallsLimits DEF DropAnswer, Ends, LocalStep, messageVars
  <1>4. QED
    BY <1>1, <1>2, <1>3, HandlerLimits, ObserverLimits DEF Next, vars

\* Whatever handlers overlap, the history holds only messages whose length is
\* in bounds, and a peer's messages are at least the interval apart: the time
\* is recorded before the message is announced, and no client has two
\* messages under way.
THEOREM LimitsObeyed == Spec => []MessagesObeyLimits
  <1> DEFINE IInv == TypeInv /\ WalkInv /\ SendsInv /\ LimitsInv
  <1>1. Init => IInv
    <2> SUFFICES ASSUME Init
                 PROVE  IInv
      OBVIOUS
    <2>1. /\ \A t \in Threads : calls[t] = NoCall
          /\ \A p \in Peers : view[p] = "login"
          /\ messageHistory = <<>>
      BY DEF Init, ServiceInit, ClientInit, MessagesInit
    <2>2. SendsInv
      BY <2>1 DEF SendsInv, Busy
    <2>3. LimitsInv
      BY <2>1 DEF LimitsInv, Fresh, Busy, MessagesObeyLimits
    <2>4. QED
      BY <2>2, <2>3, InitTyped, InitSession
  <1>2. IInv /\ [Next]_vars => IInv'
    BY NextTyped, WalkKept, NextSends, NextLimits
  <1>3. IInv => MessagesObeyLimits
    BY DEF LimitsInv
  <1>4. QED
    BY <1>1, <1>2, <1>3, PTL DEF Spec

-----------------------------------------------------------------------------
(* The statistics.                                                         *)

\* Whose message, arrival or departure an event is about.
Subject(event) ==
    IF event.kind = "PrivateMessageSent" THEN event.senderPseudonym ELSE event.pseudonym

\* The walk is about n, with an event of this kind, and has come to observer k.
About(kind, n, k) ==
    /\ dispatch # Unlocked
    /\ dispatch.event.kind = kind /\ Subject(dispatch.event) = n /\ dispatch.next = k

\* Entries of the three logs that are about n.
Arrivals(n) ==
    {i \in DOMAIN clientEvents : clientEvents[i].type = "ADD" /\ clientEvents[i].pseudonym = n}
Authored(n) == {i \in DOMAIN messageHistory : messageHistory[i].author = n}
Whispered(n) == {i \in DOMAIN privateSent : privateSent[i].author = n}

\* What the table says of n, zero without a row.
Connections(n) == IF statistics[n] = NoRow THEN 0 ELSE statistics[n].nb_of_connection
Messages(n) == IF statistics[n] = NoRow THEN 0 ELSE statistics[n].tx_messages
Seconds(n) == IF statistics[n] = NoRow THEN 0 ELSE statistics[n].cumulated_connection_time_sec

\* One observer of the event is ahead of the other.
Ahead(kind, n, k) == IF About(kind, n, k) THEN 1 ELSE 0

\* Table and logs agree but for the event under way.
CountsAgree(n) ==
    /\ Connections(n) = Cardinality(Arrivals(n)) + Ahead("ClientConnected", n, 3)
    /\ Messages(n) + Ahead("MessageSent", n, 2)
         = Cardinality(Authored(n)) + Cardinality(Whispered(n)) + Ahead("PrivateMessageSent", n, 2)
    /\ statistics[n] # NoRow => Connections(n) # 0

CountInv == \A n \in Pseudonyms : CountsAgree(n)

\* There is a row for n, or the walk is about to insert it.
HasRow(n) == statistics[n] # NoRow \/ About("ClientConnected", n, 2)

\* The call in t has looked up its author's name.
Looked(t) == Busy(t, "SendMessage") /\ calls[t].pc \in {"validate", "recipient", "notify"}

\* Whoever is in the registry, or writes under a name found there, has a row.
RowInv ==
    /\ \A p \in Peers : isPeerConnected(p) => HasRow(clients[p].pseudonym)
    /\ \A t \in Threads : Looked(t) => HasRow(calls[t].pseudonym)
    /\ dispatch # Unlocked /\ dispatch.event.kind \in {"MessageSent", "PrivateMessageSent"} =>
          statistics[Subject(dispatch.event)] # NoRow

\* The Disconnect in t has read how long its client was connected.
Measured(t) == Busy(t, "Disconnect") /\ calls[t].pc = "notify"

\* The seconds of a name are over before its session began, and a session that
\* ends adds no more than has passed since.
TimeInv ==
    /\ \A n \in Pseudonyms : Seconds(n) <= InSeconds(now)
    /\ \A p \in Peers : isPeerConnected(p) =>
          Seconds(clients[p].pseudonym) <= InSeconds(clients[p].initialTimePoint)
    /\ \A t \in Threads : Measured(t) =>
          Seconds(calls[t].pseudonym) + InSeconds(calls[t].connectionDuration) <= InSeconds(now)
    /\ \A n \in Pseudonyms :
          About("ClientDisconnected", n, 1) \/ About("ClientDisconnected", n, 2) =>
             Seconds(n) + InSeconds(dispatch.event.connectionDuration) <= InSeconds(now)
    /\ \A n \in Pseudonyms : About("ClientDisconnected", n, 2) => PeersNamed(n) = {}

\* A client has one Disconnect under way.
OneDisconnect ==
    \A t, u \in Threads :
       Busy(t, "Disconnect") /\ Busy(u, "Disconnect") /\ calls[t].peer = calls[u].peer => t = u

-----------------------------------------------------------------------------
(* Arithmetic and counting.                                                *)

LEMMA OneMore ==
    ASSUME NEW k \in Nat, NEW S, S \subseteq 1..k
    PROVE  /\ Cardinality(S) \in Nat
           /\ Cardinality(S \cup {k + 1}) = Cardinality(S) + 1
  <1>1. IsFiniteSet(1..k)
    BY FS_Interval
  <1>2. IsFiniteSet(S)
    BY <1>1, FS_Subset
  <1>3. k + 1 \notin S
    OBVIOUS
  <1>4. QED
    BY <1>2, <1>3, FS_AddElement, FS_CardinalityType

\* Whole seconds: no longer for being counted in parts, and never fewer later.
LEMMA DivSum ==
    ASSUME NEW T \in Nat \ {0}, NEW a \in Nat, NEW b \in Nat
    PROVE  (a \div T) + (b \div T) <= (a + b) \div T
  OBVIOUS

LEMMA DivGrows ==
    ASSUME NEW T \in Nat \ {0}, NEW a \in Nat, NEW b \in Nat, a <= b
    PROVE  a \div T \in Nat /\ b \div T \in Nat /\ a \div T <= b \div T
  OBVIOUS

LEMMA SecondsAdd ==
    ASSUME NEW a \in Nat, NEW b \in Nat
    PROVE  InSeconds(a) + InSeconds(b) <= InSeconds(a + b)
  BY DivSum, ClockAssumption DEF InSeconds

LEMMA SecondsGrow ==
    ASSUME NEW a \in Nat, NEW b \in Nat, a <= b
    PROVE  InSeconds(a) \in Nat /\ InSeconds(b) \in Nat /\ InSeconds(a) <= InSeconds(b)
  BY DivGrows, ClockAssumption DEF InSeconds

\* What is counted, and what the table says, are numbers.
LEMMA CountTypes ==
    ASSUME TypeOK, NEW n \in Pseudonyms
    PROVE  /\ Connections(n) \in Nat /\ Messages(n) \in Nat /\ Seconds(n) \in Nat
           /\ Cardinality(Arrivals(n)) \in Nat
           /\ Cardinality(Authored(n)) \in Nat
           /\ Cardinality(Whispered(n)) \in Nat
  <1>1. statistics[n] \in Row \cup {NoRow}
    BY DEF TypeOK, StatisticsTypeOK
  <1>2. Connections(n) \in Nat /\ Messages(n) \in Nat /\ Seconds(n) \in Nat
    BY <1>1 DEF Connections, Messages, Seconds, Row
  <1>3. /\ Len(clientEvents) \in Nat /\ Arrivals(n) \subseteq 1..Len(clientEvents)
        /\ Len(messageHistory) \in Nat /\ Authored(n) \subseteq 1..Len(messageHistory)
        /\ Len(privateSent) \in Nat /\ Whispered(n) \subseteq 1..Len(privateSent)
    BY DEF TypeOK, ClientEventsTypeOK, MessagesTypeOK, PrivateTypeOK, Arrivals, Authored, Whispered
  <1>4. QED
    BY <1>2, <1>3, OneMore

\* A log that grows by one entry.
LEMMA ArrivalsAppend ==
    ASSUME TypeOK, NEW e \in ClientEventData, clientEvents' = Append(clientEvents, e), NEW n
    PROVE  Cardinality(Arrivals(n))' =
             Cardinality(Arrivals(n)) + IF e.type = "ADD" /\ e.pseudonym = n THEN 1 ELSE 0
  <1> DEFINE k == Len(clientEvents)
  <1>1. /\ k \in Nat /\ DOMAIN clientEvents = 1..k /\ DOMAIN clientEvents' = 1..(k + 1)
        /\ clientEvents'[k + 1] = e /\ \A i \in 1..k : clientEvents'[i] = clientEvents[i]
    BY DEF TypeOK, ClientEventsTypeOK
  <1> HIDE DEF k
  <1>2. Arrivals(n) \subseteq 1..k
    BY <1>1 DEF Arrivals
  <1>3. Arrivals(n)' = IF e.type = "ADD" /\ e.pseudonym = n THEN Arrivals(n) \cup {k + 1} ELSE Arrivals(n)
    <2>1. \A i : i \in Arrivals(n)' <=> /\ i \in 1..(k + 1)
                                         /\ clientEvents'[i].type = "ADD" /\ clientEvents'[i].pseudonym = n
      BY <1>1 DEF Arrivals
    <2>2. \A i : i \in Arrivals(n) <=> /\ i \in 1..k
                                        /\ clientEvents'[i].type = "ADD" /\ clientEvents'[i].pseudonym = n
      BY <1>1 DEF Arrivals
    <2>3. \A i : i \in 1..(k + 1) <=> i \in 1..k \/ i = k + 1
      BY <1>1
    <2>4. CASE e.type = "ADD" /\ e.pseudonym = n
      <3>1. \A i : i \in Arrivals(n)' <=> i \in Arrivals(n) \/ i = k + 1
        BY <1>1, <2>1, <2>2, <2>3, <2>4
      <3>2. QED
        BY <2>4, <3>1
    <2>5. CASE ~(e.type = "ADD" /\ e.pseudonym = n)
      <3>1. \A i : i \in Arrivals(n)' <=> i \in Arrivals(n)
        BY <1>1, <2>1, <2>2, <2>3, <2>5
      <3>2. QED
        BY <2>5, <3>1
    <2>6. QED
      BY <2>4, <2>5
  <1>4. /\ Cardinality(Arrivals(n)) \in Nat
        /\ Cardinality(Arrivals(n) \cup {k + 1}) = Cardinality(Arrivals(n)) + 1
    BY <1>1, <1>2, OneMore
  <1>5. QED
    BY <1>3, <1>4

LEMMA AuthoredAppend ==
    ASSUME TypeOK, NEW m \in Message, messageHistory' = Append(messageHistory, m), NEW n
    PROVE  Cardinality(Authored(n))' = Cardinality(Authored(n)) + IF m.author = n THEN 1 ELSE 0
  <1> DEFINE k == Len(messageHistory)
  <1>1. /\ k \in Nat /\ DOMAIN messageHistory = 1..k /\ DOMAIN messageHistory' = 1..(k + 1)
        /\ messageHistory'[k + 1] = m /\ \A i \in 1..k : messageHistory'[i] = messageHistory[i]
    BY DEF TypeOK, MessagesTypeOK
  <1> HIDE DEF k
  <1>2. Authored(n) \subseteq 1..k
    BY <1>1 DEF Authored
  <1>3. Authored(n)' = IF m.author = n THEN Authored(n) \cup {k + 1} ELSE Authored(n)
    <2>1. \A i : i \in Authored(n)' <=> i \in 1..(k + 1) /\ messageHistory'[i].author = n
      BY <1>1 DEF Authored
    <2>2. \A i : i \in Authored(n) <=> i \in 1..k /\ messageHistory'[i].author = n
      BY <1>1 DEF Authored
    <2>3. \A i : i \in 1..(k + 1) <=> i \in 1..k \/ i = k + 1
      BY <1>1
    <2>4. CASE m.author = n
      <3>1. \A i : i \in Authored(n)' <=> i \in Authored(n) \/ i = k + 1
        BY <1>1, <2>1, <2>2, <2>3, <2>4
      <3>2. QED
        BY <2>4, <3>1
    <2>5. CASE ~(m.author = n)
      <3>1. \A i : i \in Authored(n)' <=> i \in Authored(n)
        BY <1>1, <2>1, <2>2, <2>3, <2>5
      <3>2. QED
        BY <2>5, <3>1
    <2>6. QED
      BY <2>4, <2>5
  <1>4. /\ Cardinality(Authored(n)) \in Nat
        /\ Cardinality(Authored(n) \cup {k + 1}) = Cardinality(Authored(n)) + 1
    BY <1>1, <1>2, OneMore
  <1>5. QED
    BY <1>3, <1>4

LEMMA WhisperedAppend ==
    ASSUME TypeOK, NEW m \in PrivateMessage, privateSent' = Append(privateSent, m), NEW n
    PROVE  Cardinality(Whispered(n))' = Cardinality(Whispered(n)) + IF m.author = n THEN 1 ELSE 0
  <1> DEFINE k == Len(privateSent)
  <1>1. /\ k \in Nat /\ DOMAIN privateSent = 1..k /\ DOMAIN privateSent' = 1..(k + 1)
        /\ privateSent'[k + 1] = m /\ \A i \in 1..k : privateSent'[i] = privateSent[i]
    BY DEF TypeOK, PrivateTypeOK
  <1> HIDE DEF k
  <1>2. Whispered(n) \subseteq 1..k
    BY <1>1 DEF Whispered
  <1>3. Whispered(n)' = IF m.author = n THEN Whispered(n) \cup {k + 1} ELSE Whispered(n)
    <2>1. \A i : i \in Whispered(n)' <=> i \in 1..(k + 1) /\ privateSent'[i].author = n
      BY <1>1 DEF Whispered
    <2>2. \A i : i \in Whispered(n) <=> i \in 1..k /\ privateSent'[i].author = n
      BY <1>1 DEF Whispered
    <2>3. \A i : i \in 1..(k + 1) <=> i \in 1..k \/ i = k + 1
      BY <1>1
    <2>4. CASE m.author = n
      <3>1. \A i : i \in Whispered(n)' <=> i \in Whispered(n) \/ i = k + 1
        BY <1>1, <2>1, <2>2, <2>3, <2>4
      <3>2. QED
        BY <2>4, <3>1
    <2>5. CASE ~(m.author = n)
      <3>1. \A i : i \in Whispered(n)' <=> i \in Whispered(n)
        BY <1>1, <2>1, <2>2, <2>3, <2>5
      <3>2. QED
        BY <2>5, <3>1
    <2>6. QED
      BY <2>4, <2>5
  <1>4. /\ Cardinality(Whispered(n)) \in Nat
        /\ Cardinality(Whispered(n) \cup {k + 1}) = Cardinality(Whispered(n)) + 1
    BY <1>1, <1>2, OneMore
  <1>5. QED
    BY <1>3, <1>4

-----------------------------------------------------------------------------
(* The walk.                                                               *)

\* Which observer is next, by its name.
LEMMA WhoseTurn ==
    ASSUME TypeInv, NEW o, NEW kind, Notifies(o, kind)
    PROVE  LET k == dispatch.next IN
           /\ kind = "ClientConnected" =>
                <<k, o>> \in {<<1, "registry">>, <<2, "database">>, <<3, "clientEvents">>}
           /\ kind = "ClientDisconnected" =>
                <<k, o>> \in {<<1, "registry">>, <<2, "database">>, <<3, "clientEvents">>,
                             <<4, "privateMessages">>}
           /\ kind = "MessageSent" => <<k, o>> \in {<<1, "messages">>, <<2, "database">>}
           /\ kind = "PrivateMessageSent" =>
                <<k, o>> \in {<<1, "database">>, <<2, "privateMessages">>}
           /\ LastObserver <=> k = Len(Observers[kind])
  <1>1. /\ dispatch.next \in 1..Len(Observers[kind]) /\ Observers[kind][dispatch.next] = o
        /\ dispatch.event.kind = kind
    BY NotifiedEvent DEF Notifies, TypeInv, WalkOwned
  <1>2. LastObserver <=> dispatch.next = Len(Observers[kind])
    BY <1>1 DEF LastObserver
  <1> DEFINE k == dispatch.next
  <1>3. CASE kind = "ClientConnected"
    <2>1. k = 1 \/ k = 2 \/ k = 3
      BY <1>1, <1>3 DEF Observers
    <2>2. QED
      BY <1>1, <1>2, <1>3, <2>1 DEF Observers
  <1>4. CASE kind = "ClientDisconnected"
    <2>1. k = 1 \/ k = 2 \/ k = 3 \/ k = 4
      BY <1>1, <1>4 DEF Observers
    <2>2. QED
      BY <1>1, <1>2, <1>4, <2>1 DEF Observers
  <1>5. CASE kind = "MessageSent"
    <2>1. k = 1 \/ k = 2
      BY <1>1, <1>5 DEF Observers
    <2>2. QED
      BY <1>1, <1>2, <1>5, <2>1 DEF Observers
  <1>6. CASE kind = "PrivateMessageSent"
    <2>1. k = 1 \/ k = 2
      BY <1>1, <1>6 DEF Observers
    <2>2. QED
      BY <1>1, <1>2, <1>6, <2>1 DEF Observers
  <1>7. QED
    BY <1>2, <1>3, <1>4, <1>5, <1>6

\* After a callback: the walk has come to the next observer, if there is one.
LEMMA AboutNext ==
    ASSUME TypeInv, NEW o, NEW kind, Notifies(o, kind), Returns, ObserverReturns,
           NEW k, k = dispatch.next, NEW m, NEW n, NEW j \in 1..4
    PROVE  About(m, n, j)' <=> /\ m = kind /\ n = Subject(dispatch.event)
                               /\ j = k + 1 /\ k # Len(Observers[kind])
  <1>1. dispatch # Unlocked /\ dispatch.event.kind = kind /\ k \in 1..4
    BY NotifiedEvent DEF Dispatch
  <1>2. LastObserver <=> k = Len(Observers[kind])
    BY WhoseTurn
  <1>3. dispatch' = Unlocked => ~About(m, n, j)'
    BY DEF About
  <1>4. dispatch' # Unlocked => (About(m, n, j)' <=> m = kind /\ n = Subject(dispatch.event) /\ j = k + 1)
    BY <1>1 DEF Returns, About, Subject
  <1>5. dispatch' # Unlocked => ~LastObserver
    BY DEF ObserverReturns, NextObserver
  <1>6. QED
    BY <1>2, <1>3, <1>4, <1>5 DEF Returns

\* What the database logger does to the table.
LEMMA TableSteps ==
    ASSUME TypeInv, DatabaseLogs, NEW e, e = dispatch.event, NEW k, k = dispatch.next,
           NEW n, n = Subject(e)
    PROVE  /\ n \in Pseudonyms /\ Notifies("database", e.kind)
           /\ \/ e.kind = "PrivateMessageSent" /\ k = 1
              \/ e.kind \in {"ClientConnected", "ClientDisconnected", "MessageSent"} /\ k = 2
           /\ \A m \in Pseudonyms : m # n => statistics'[m] = statistics[m]
           /\ \/ dbErrors' = dbErrors + 1 /\ UNCHANGED statistics
              \/ /\ dbErrors' = dbErrors
                 /\ statistics'[n] = NoRow <=> statistics[n] = NoRow /\ e.kind # "ClientConnected"
                 /\ Connections(n)' = IF e.kind = "ClientConnected" THEN Connections(n) + 1 ELSE Connections(n)
                 /\ e.kind \in {"ClientConnected", "ClientDisconnected"} => Messages(n)' = Messages(n)
                 /\ e.kind \in {"MessageSent", "PrivateMessageSent"} /\ statistics[n] # NoRow =>
                       Messages(n)' = Messages(n) + 1
                 /\ e.kind # "ClientDisconnected" => Seconds(n)' = Seconds(n)
                 /\ e.kind = "ClientDisconnected" =>
                       Seconds(n)' <= Seconds(n) + InSeconds(e.connectionDuration)
  <1> DEFINE row == statistics[n]
  <1>1. e.kind \in {"ClientConnected", "ClientDisconnected", "MessageSent", "PrivateMessageSent"}
        /\ Notifies("database", e.kind)
    BY DEF DatabaseLogs, Notifies
  <1>2. /\ e.kind = "ClientConnected" => e \in ClientConnectedEvent
        /\ e.kind = "ClientDisconnected" => e \in ClientDisconnectedEvent
        /\ e.kind = "MessageSent" => e \in MessageSentEvent
        /\ e.kind = "PrivateMessageSent" => e \in PrivateMessageSentEvent
    BY <1>1, NotifiedEvent
  <1>3. n \in Pseudonyms
    BY <1>1, <1>2 DEF Subject, ClientConnectedEvent, ClientDisconnectedEvent, MessageSentEvent,
                      PrivateMessageSentEvent
  <1>4. \/ e.kind = "PrivateMessageSent" /\ k = 1
        \/ e.kind \in {"ClientConnected", "ClientDisconnected", "MessageSent"} /\ k = 2
    BY <1>1, WhoseTurn
  <1>5. statistics \in [Pseudonyms -> Row \cup {NoRow}] /\ row \in Row \cup {NoRow}
    BY <1>3 DEF TypeInv, TypeOK, StatisticsTypeOK
  <1>6. ASSUME NEW new, SetRow(n, new)
        PROVE  /\ \A m \in Pseudonyms : m # n => statistics'[m] = statistics[m]
               /\ statistics'[n] = new /\ dbErrors' = dbErrors
    BY <1>3, <1>5, <1>6 DEF SetRow
  <1>7. CASE WriteFails
    BY <1>1, <1>3, <1>4, <1>7 DEF WriteFails
  <1>8. CASE e.kind = "ClientConnected" /\ ~WriteFails
    <2> DEFINE first == [nb_of_connection |-> 1, tx_messages |-> 0, cumulated_connection_time_sec |-> 0]
               more == [row EXCEPT !.nb_of_connection = @ + 1]
    <2>1. clientConnectionEvent(n)
      BY <1>1, <1>8 DEF DatabaseLogs, Notifies, DatabaseOnClientConnected, Subject
    <2>2. SetRow(n, IF row = NoRow THEN first ELSE more)
      BY <1>8, <2>1 DEF clientConnectionEvent
    <2>3. first # NoRow /\ (row # NoRow => more # NoRow)
      BY <1>5, NoRowAssumption DEF Row
    <2>4. row # NoRow => /\ more.nb_of_connection = row.nb_of_connection + 1
                         /\ more.tx_messages = row.tx_messages
                         /\ more.cumulated_connection_time_sec = row.cumulated_connection_time_sec
      BY <1>5 DEF Row
    <2>5. first.nb_of_connection = 1 /\ first.tx_messages = 0 /\ first.cumulated_connection_time_sec = 0
      OBVIOUS
    <2> HIDE DEF first, more
    <2>6. /\ statistics'[n] # NoRow /\ Connections(n)' = Connections(n) + 1
          /\ Messages(n)' = Messages(n) /\ Seconds(n)' = Seconds(n)
      <3>1. statistics'[n] = IF row = NoRow THEN first ELSE more
        BY <1>6, <2>2
      <3>2. QED
        BY <2>3, <2>4, <2>5, <3>1 DEF Connections, Messages, Seconds
    <2>7. QED
      BY <1>1, <1>3, <1>4, <1>6, <1>8, <2>2, <2>6
  <1>9. CASE e.kind \in {"MessageSent", "PrivateMessageSent"} /\ ~WriteFails
    <2> DEFINE more == [row EXCEPT !.tx_messages = @ + 1]
    <2>1. incrementTxMessage(n)
      BY <1>1, <1>9 DEF DatabaseLogs, Notifies, DatabaseOnMessageSent, DatabaseOnPrivateMessageSent,
                        Subject
    <2>2. SetRow(n, IF row = NoRow THEN NoRow ELSE more)
      BY <1>9, <2>1 DEF incrementTxMessage
    <2>3. row # NoRow => more # NoRow
      BY <1>5, NoRowAssumption DEF Row
    <2>4. row # NoRow => /\ more.nb_of_connection = row.nb_of_connection
                         /\ more.tx_messages = row.tx_messages + 1
                         /\ more.cumulated_connection_time_sec = row.cumulated_connection_time_sec
      BY <1>5 DEF Row
    <2> HIDE DEF more
    <2>5. /\ statistics'[n] = NoRow <=> row = NoRow
          /\ Connections(n)' = Connections(n) /\ Seconds(n)' = Seconds(n)
          /\ row # NoRow => Messages(n)' = Messages(n) + 1
      <3>1. statistics'[n] = IF row = NoRow THEN NoRow ELSE more
        BY <1>6, <2>2
      <3>2. QED
        BY <2>3, <2>4, <3>1 DEF Connections, Messages, Seconds
    <2>6. QED
      BY <1>1, <1>3, <1>4, <1>6, <1>9, <2>2, <2>5
  <1>10. CASE e.kind = "ClientDisconnected" /\ ~WriteFails
    <2> DEFINE seconds == InSeconds(e.connectionDuration)
               more == [row EXCEPT !.cumulated_connection_time_sec = @ + seconds]
    <2>1. updateCumulatedConnectionTime(n, seconds)
      BY <1>1, <1>10 DEF DatabaseLogs, Notifies, DatabaseOnClientDisconnected, Subject
    <2>2. SetRow(n, IF row = NoRow THEN NoRow ELSE more)
      BY <1>10, <2>1 DEF updateCumulatedConnectionTime
    <2>3. row # NoRow => more # NoRow
      <3>1. seconds \in Nat
        <4>1. e.connectionDuration \in Nat
          BY <1>2, <1>10, ClockAssumption DEF ClientDisconnectedEvent, Time
        <4>2. QED
          BY <4>1, SecondsGrow
      <3> HIDE DEF seconds
      <3>2. QED
        BY <1>5, <3>1, NoRowAssumption DEF Row
    <2>4. row # NoRow => /\ more.nb_of_connection = row.nb_of_connection
                         /\ more.tx_messages = row.tx_messages
                         /\ more.cumulated_connection_time_sec
                              = row.cumulated_connection_time_sec + seconds
      BY <1>5 DEF Row
    <2>5. seconds \in Nat
      <3>1. e.connectionDuration \in Nat
        BY <1>2, <1>10, ClockAssumption DEF ClientDisconnectedEvent, Time
      <3>2. QED
        BY <3>1, SecondsGrow
    <2>6. row # NoRow => row.cumulated_connection_time_sec \in Nat
      BY <1>5 DEF Row
    <2> HIDE DEF more, seconds
    <2>7. /\ statistics'[n] = NoRow <=> row = NoRow
          /\ Connections(n)' = Connections(n) /\ Messages(n)' = Messages(n)
          /\ Seconds(n)' <= Seconds(n) + seconds
      <3>1. statistics'[n] = IF row = NoRow THEN NoRow ELSE more
        BY <1>6, <2>2
      <3>2. QED
        BY <2>3, <2>4, <2>5, <2>6, <3>1 DEF Connections, Messages, Seconds
    <2>8. QED
      BY <1>1, <1>3, <1>4, <1>6, <1>10, <2>2, <2>7 DEF seconds
  <1>11. QED
    BY <1>1, <1>7, <1>8, <1>9, <1>10

-----------------------------------------------------------------------------
(* The counts.                                                             *)

LEMMA CountFrame ==
    ASSUME CountInv, UNCHANGED <<statistics, clientEvents, messageHistory, privateSent>>,
           \A n \in Pseudonyms :
              /\ About("ClientConnected", n, 3)' <=> About("ClientConnected", n, 3)
              /\ About("MessageSent", n, 2)' <=> About("MessageSent", n, 2)
              /\ About("PrivateMessageSent", n, 2)' <=> About("PrivateMessageSent", n, 2)
    PROVE  CountInv'
  <1> SUFFICES ASSUME NEW n \in Pseudonyms
               PROVE  CountsAgree(n)'
    BY DEF CountInv
  <1>1. /\ Ahead("ClientConnected", n, 3)' = Ahead("ClientConnected", n, 3)
        /\ Ahead("MessageSent", n, 2)' = Ahead("MessageSent", n, 2)
        /\ Ahead("PrivateMessageSent", n, 2)' = Ahead("PrivateMessageSent", n, 2)
    BY DEF Ahead
  <1>2. /\ Connections(n)' = Connections(n) /\ Messages(n)' = Messages(n)
        /\ Arrivals(n)' = Arrivals(n) /\ Authored(n)' = Authored(n) /\ Whispered(n)' = Whispered(n)
    BY DEF Connections, Messages, Arrivals, Authored, Whispered
  <1>3. QED
    BY <1>1, <1>2 DEF CountInv, CountsAgree

\* Rows and logs grow together, one observer of the event after the other.
LEMMA ObserverCounts ==
    ASSUME TypeInv, CountInv, RowInv, ObserverStep, dbErrors' = 0, dbErrors = 0
    PROVE  CountInv'
  <1> PICK e, k, s : e = dispatch.event /\ k = dispatch.next /\ s = Subject(e)
    OBVIOUS
  <1>1. TypeOK
    BY DEF TypeInv
  <1>2. dispatch # Unlocked /\ Returns /\ ObserverReturns
    BY ObserverShape
  <1>3. \A m, n, j : About(m, n, j) <=> m = e.kind /\ n = s /\ j = k
    BY <1>2 DEF About
  <1>4. ASSUME NEW o, NEW kind, Notifies(o, kind), NEW n
        PROVE  /\ About("ClientConnected", n, 3)' <=> kind = "ClientConnected" /\ n = s /\ k = 2
               /\ About("MessageSent", n, 2)' <=> kind = "MessageSent" /\ n = s /\ k = 1
               /\ About("PrivateMessageSent", n, 2)' <=> kind = "PrivateMessageSent" /\ n = s /\ k = 1
    <2> DEFINE length == Len(Observers[kind])
               Comes(m, j) == m = kind /\ n = s /\ j = k + 1 /\ k # length
    <2>1. /\ About("ClientConnected", n, 3)' <=> Comes("ClientConnected", 3)
          /\ About("MessageSent", n, 2)' <=> Comes("MessageSent", 2)
          /\ About("PrivateMessageSent", n, 2)' <=> Comes("PrivateMessageSent", 2)
      BY <1>2, <1>4, AboutNext
    <2>2. /\ kind = "ClientConnected" => length = 3
          /\ kind = "MessageSent" => length = 2
          /\ kind = "PrivateMessageSent" => length = 2
      BY DEF Observers
    <2>3. k = 1 \/ k = 2 \/ k = 3 \/ k = 4
      BY <1>4, NotifiedEvent DEF Dispatch
    <2> HIDE DEF length
    <2>4. /\ Comes("ClientConnected", 3) <=> kind = "ClientConnected" /\ n = s /\ k = 2
          /\ Comes("MessageSent", 2) <=> kind = "MessageSent" /\ n = s /\ k = 1
          /\ Comes("PrivateMessageSent", 2) <=> kind = "PrivateMessageSent" /\ n = s /\ k = 1
      BY <2>2, <2>3
    <2> HIDE DEF Comes
    <2>5. QED
      BY <2>1, <2>4
  <1>5. CASE RegistryConnected \/ RegistryDisconnected
    <2>1. PICK kind \in {"ClientConnected", "ClientDisconnected"} : Notifies("registry", kind)
      BY <1>5 DEF RegistryConnected, RegistryDisconnected
    <2>2. k = 1 /\ e.kind = kind
      BY <2>1, WhoseTurn, NotifiedEvent
    <2>3. UNCHANGED <<statistics, clientEvents, messageHistory, privateSent>>
      BY <1>5 DEF RegistryConnected, RegistryDisconnected, messageVars, privateVars, clientEventVars,
                  statisticsVars
    <2>4. QED
      BY <1>3, <1>4, <2>1, <2>2, <2>3, CountFrame
  <1>6. CASE DatabaseLogs
    <2> SUFFICES ASSUME NEW n \in Pseudonyms
                 PROVE  CountsAgree(n)'
      BY DEF CountInv
    <2>1. /\ s \in Pseudonyms /\ Notifies("database", e.kind)
          /\ \/ e.kind = "PrivateMessageSent" /\ k = 1
             \/ e.kind \in {"ClientConnected", "ClientDisconnected", "MessageSent"} /\ k = 2
          /\ \A m \in Pseudonyms : m # s => statistics'[m] = statistics[m]
          /\ statistics'[s] = NoRow <=> statistics[s] = NoRow /\ e.kind # "ClientConnected"
          /\ Connections(s)' = IF e.kind = "ClientConnected" THEN Connections(s) + 1 ELSE Connections(s)
          /\ e.kind \in {"ClientConnected", "ClientDisconnected"} => Messages(s)' = Messages(s)
          /\ e.kind \in {"MessageSent", "PrivateMessageSent"} /\ statistics[s] # NoRow =>
                Messages(s)' = Messages(s) + 1
      BY <1>6, TableSteps
    <2>2. /\ Arrivals(n)' = Arrivals(n) /\ Authored(n)' = Authored(n) /\ Whispered(n)' = Whispered(n)
      BY <1>6 DEF DatabaseLogs, messageVars, privateVars, clientEventVars, Arrivals, Authored, Whispered
    <2>3. /\ About("ClientConnected", n, 3)' <=> e.kind = "ClientConnected" /\ n = s
          /\ About("MessageSent", n, 2)' <=> FALSE
          /\ About("PrivateMessageSent", n, 2)' <=> e.kind = "PrivateMessageSent" /\ n = s
      BY <1>4, <2>1
    <2>4. /\ About("ClientConnected", n, 3) <=> FALSE
          /\ About("MessageSent", n, 2) <=> e.kind = "MessageSent" /\ n = s
          /\ About("PrivateMessageSent", n, 2) <=> FALSE
      BY <1>3, <2>1
    <2>5. CountsAgree(n)
      BY DEF CountInv
    <2>6. CASE n # s
      <3>1. Connections(n)' = Connections(n) /\ Messages(n)' = Messages(n) /\ statistics'[n] = statistics[n]
        BY <2>1, <2>6 DEF Connections, Messages
      <3>2. QED
        BY <2>2, <2>3, <2>4, <2>5, <2>6, <3>1 DEF CountsAgree, Ahead
    <2>7. CASE n = s
      <3>1. e.kind \in {"MessageSent", "PrivateMessageSent"} => statistics[s] # NoRow
        BY <1>2 DEF RowInv
      <3>2. /\ Connections(n) \in Nat /\ Messages(n) \in Nat /\ Cardinality(Arrivals(n)) \in Nat
            /\ Cardinality(Authored(n)) \in Nat /\ Cardinality(Whispered(n)) \in Nat
        BY <1>1, CountTypes
      <3>3. CASE e.kind = "ClientConnected"
        BY <2>1, <2>2, <2>3, <2>4, <2>5, <2>7, <3>2, <3>3 DEF CountsAgree, Ahead
      <3>4. CASE e.kind = "ClientDisconnected"
        BY <2>1, <2>2, <2>3, <2>4, <2>5, <2>7, <3>2, <3>4 DEF CountsAgree, Ahead
      <3>5. CASE e.kind = "MessageSent"
        BY <2>1, <2>2, <2>3, <2>4, <2>5, <2>7, <3>1, <3>2, <3>5 DEF CountsAgree, Ahead
      <3>6. CASE e.kind = "PrivateMessageSent"
        BY <2>1, <2>2, <2>3, <2>4, <2>5, <2>7, <3>1, <3>2, <3>6 DEF CountsAgree, Ahead
      <3>7. QED
        BY <2>1, <3>3, <3>4, <3>5, <3>6
    <2>8. QED
      BY <2>6, <2>7
  <1>7. CASE EventsLog
    <2>1. PICK kind \in {"ClientConnected", "ClientDisconnected"} :
             /\ Notifies("clientEvents", kind)
             /\ clientEvents' = Append(clientEvents,
                  [type |-> IF kind = "ClientConnected" THEN "ADD" ELSE "REMOVE",
                   pseudonym |-> e.pseudonym])
      BY <1>7 DEF EventsLog, EventsOnClientConnected, EventsOnClientDisconnected, broadcastClientEvent
    <2> DEFINE entry == [type |-> IF kind = "ClientConnected" THEN "ADD" ELSE "REMOVE",
                         pseudonym |-> e.pseudonym]
    <2>2. k = 3 /\ e.kind = kind /\ e.pseudonym \in Pseudonyms /\ s = e.pseudonym
      BY <2>1, NotifiedEvent, WhoseTurn DEF ClientConnectedEvent, ClientDisconnectedEvent, Subject
    <2>3. /\ entry \in ClientEventData /\ entry.pseudonym = s
          /\ entry.type = "ADD" <=> kind = "ClientConnected"
      BY <2>2 DEF ClientEventData
    <2>4. clientEvents' = Append(clientEvents, entry)
      BY <2>1
    <2> HIDE DEF entry
    <2> SUFFICES ASSUME NEW n \in Pseudonyms
                 PROVE  CountsAgree(n)'
      BY DEF CountInv
    <2>5. Cardinality(Arrivals(n))' =
             Cardinality(Arrivals(n)) + IF kind = "ClientConnected" /\ n = s THEN 1 ELSE 0
      BY <1>1, <2>3, <2>4, ArrivalsAppend
    <2>6. UNCHANGED <<statistics, messageHistory, privateSent>>
      BY <1>7 DEF EventsLog, messageVars, privateVars, statisticsVars
    <2>7. /\ Connections(n)' = Connections(n) /\ Messages(n)' = Messages(n)
          /\ Authored(n)' = Authored(n) /\ Whispered(n)' = Whispered(n)
      BY <2>6 DEF Connections, Messages, Authored, Whispered
    <2>8. ~About("ClientConnected", n, 3)' /\ ~About("MessageSent", n, 2)' /\ ~About("PrivateMessageSent", n, 2)'
      BY <1>4, <2>1, <2>2
    <2>9. /\ About("ClientConnected", n, 3) <=> kind = "ClientConnected" /\ n = s
          /\ ~About("MessageSent", n, 2) /\ ~About("PrivateMessageSent", n, 2)
      BY <1>3, <2>1, <2>2
    <2>10. Cardinality(Arrivals(n)) \in Nat
      BY <1>1, CountTypes
    <2>11. CountsAgree(n)
      BY DEF CountInv
    <2>12. QED
      BY <2>5, <2>6, <2>7, <2>8, <2>9, <2>10, <2>11 DEF CountsAgree, Ahead
  <1>8. CASE MessagesStore
    <2> DEFINE m == [author |-> e.pseudonym, content |-> e.content, sender |-> e.peer,
                     sentAt |-> e.sentAt]
    <2>1. Notifies("messages", "MessageSent") /\ messageHistory' = Append(messageHistory, m)
      BY <1>8 DEF MessagesStore, MessagesOnMessageSent
    <2>2. k = 1 /\ e.kind = "MessageSent" /\ e \in MessageSentEvent /\ s = e.pseudonym
      BY <2>1, NotifiedEvent, WhoseTurn DEF Subject
    <2>3. m \in Message /\ m.author = s
      BY <2>2 DEF MessageSentEvent, Message
    <2> HIDE DEF m
    <2> SUFFICES ASSUME NEW n \in Pseudonyms
                 PROVE  CountsAgree(n)'
      BY DEF CountInv
    <2>4. Cardinality(Authored(n))' = Cardinality(Authored(n)) + IF n = s THEN 1 ELSE 0
      BY <1>1, <2>1, <2>3, AuthoredAppend
    <2>5. UNCHANGED <<statistics, clientEvents, privateSent>>
      BY <1>8 DEF MessagesStore, privateVars, clientEventVars, statisticsVars
    <2>6. /\ Connections(n)' = Connections(n) /\ Messages(n)' = Messages(n)
          /\ Arrivals(n)' = Arrivals(n) /\ Whispered(n)' = Whispered(n)
      BY <2>5 DEF Connections, Messages, Arrivals, Whispered
    <2>7. /\ ~About("ClientConnected", n, 3)' /\ ~About("PrivateMessageSent", n, 2)'
          /\ About("MessageSent", n, 2)' <=> n = s
      BY <1>4, <2>1, <2>2
    <2>8. ~About("ClientConnected", n, 3) /\ ~About("MessageSent", n, 2) /\ ~About("PrivateMessageSent", n, 2)
      BY <1>3, <2>2
    <2>9. Cardinality(Authored(n)) \in Nat /\ Cardinality(Whispered(n)) \in Nat /\ Messages(n) \in Nat
      BY <1>1, CountTypes
    <2>10. CountsAgree(n)
      BY DEF CountInv
    <2>11. QED
      BY <2>4, <2>5, <2>6, <2>7, <2>8, <2>9, <2>10 DEF CountsAgree, Ahead
  <1>9. CASE PrivateQueues /\ e.kind = "ClientDisconnected"
    <2>1. Notifies("privateMessages", "ClientDisconnected") /\ UNCHANGED privateSent
      BY <1>9 DEF PrivateQueues, PrivateOnClientDisconnected, Notifies
    <2>2. UNCHANGED <<statistics, clientEvents, messageHistory>>
      BY <1>9 DEF PrivateQueues, messageVars, clientEventVars, statisticsVars
    <2>3. QED
      BY <1>3, <1>4, <1>9, <2>1, <2>2, CountFrame
  <1>10. CASE PrivateQueues /\ e.kind # "ClientDisconnected"
    <2> DEFINE m == [author |-> e.senderPseudonym, content |-> e.content,
                     to |-> e.recipientPseudonym, id |-> Len(privateSent) + 1]
    <2>1. Notifies("privateMessages", "PrivateMessageSent") /\ privateSent' = Append(privateSent, m)
      BY <1>10 DEF PrivateQueues, PrivateOnPrivateMessageSent, Notifies
    <2>2. k = 2 /\ e.kind = "PrivateMessageSent" /\ e \in PrivateMessageSentEvent /\ s = e.senderPseudonym
      BY <2>1, NotifiedEvent, WhoseTurn DEF Subject
    <2>3. m \in PrivateMessage /\ m.author = s
      <3>1. Len(privateSent) + 1 \in Nat
        BY <1>1 DEF TypeOK, PrivateTypeOK
      <3>2. QED
        BY <2>2, <3>1 DEF PrivateMessageSentEvent, PrivateMessage
    <2> HIDE DEF m
    <2> SUFFICES ASSUME NEW n \in Pseudonyms
                 PROVE  CountsAgree(n)'
      BY DEF CountInv
    <2>4. Cardinality(Whispered(n))' = Cardinality(Whispered(n)) + IF n = s THEN 1 ELSE 0
      BY <1>1, <2>1, <2>3, WhisperedAppend
    <2>5. UNCHANGED <<statistics, clientEvents, messageHistory>>
      BY <1>10 DEF PrivateQueues, messageVars, clientEventVars, statisticsVars
    <2>6. /\ Connections(n)' = Connections(n) /\ Messages(n)' = Messages(n)
          /\ Arrivals(n)' = Arrivals(n) /\ Authored(n)' = Authored(n)
      BY <2>5 DEF Connections, Messages, Arrivals, Authored
    <2>7. ~About("ClientConnected", n, 3)' /\ ~About("MessageSent", n, 2)' /\ ~About("PrivateMessageSent", n, 2)'
      BY <1>4, <2>1, <2>2
    <2>8. /\ ~About("ClientConnected", n, 3) /\ ~About("MessageSent", n, 2)
          /\ About("PrivateMessageSent", n, 2) <=> n = s
      BY <1>3, <2>2
    <2>9. Cardinality(Authored(n)) \in Nat /\ Cardinality(Whispered(n)) \in Nat /\ Messages(n) \in Nat
      BY <1>1, CountTypes
    <2>10. CountsAgree(n)
      BY DEF CountInv
    <2>11. QED
      BY <2>4, <2>5, <2>6, <2>7, <2>8, <2>9, <2>10 DEF CountsAgree, Ahead
  <1>11. QED
    BY <1>5, <1>6, <1>7, <1>8, <1>9, <1>10 DEF ObserverStep

-----------------------------------------------------------------------------
(* The rows.                                                               *)

\* Who has a row keeps it, and so does who is about to get one.
LEMMA ObserverRow ==
    ASSUME TypeInv, ObserverStep, dbErrors' = 0, dbErrors = 0, NEW n \in Pseudonyms, HasRow(n)
    PROVE  HasRow(n)'
  <1> PICK e, k, s : e = dispatch.event /\ k = dispatch.next /\ s = Subject(e)
    OBVIOUS
  <1>1. dispatch # Unlocked /\ Returns
    BY ObserverShape
  <1>2. CASE DatabaseLogs
    <2>1. /\ \A m \in Pseudonyms : m # s => statistics'[m] = statistics[m]
          /\ statistics'[s] = NoRow <=> statistics[s] = NoRow /\ e.kind # "ClientConnected"
      BY <1>2, TableSteps
    <2>2. About("ClientConnected", n, 2) => e.kind = "ClientConnected" /\ n = s
      BY DEF About
    <2>3. QED
      BY <2>1, <2>2 DEF HasRow
  <1>3. CASE ~DatabaseLogs
    <2>1. UNCHANGED statistics
      BY <1>3 DEF ObserverStep, RegistryConnected, RegistryDisconnected, EventsLog, MessagesStore,
                  PrivateQueues, statisticsVars
    <2>2. PICK o \in {"registry", "clientEvents", "messages", "privateMessages"} : Notifies(o, e.kind)
      BY <1>3 DEF ObserverStep, RegistryConnected, RegistryDisconnected, EventsLog, MessagesStore,
                  PrivateQueues, Notifies
    <2>3. e.kind = "ClientConnected" => k # 2
      BY <2>2, WhoseTurn
    <2>4. ~About("ClientConnected", n, 2)
      BY <2>3 DEF About
    <2>5. QED
      BY <2>1, <2>4 DEF HasRow
  <1>4. QED
    BY <1>2, <1>3

LEMMA ObserverRows ==
    ASSUME TypeInv, RowInv, ObserverStep, dbErrors' = 0, dbErrors = 0
    PROVE  RowInv'
  <1> PICK e, k, q, o : e = dispatch.event /\ k = dispatch.next /\ q = e.peer /\ o = dispatch.owner
    OBVIOUS
  <1>1. dispatch # Unlocked /\ Returns /\ ObserverReturns
    BY ObserverShape
  <1>2. \A n \in Pseudonyms : HasRow(n) => HasRow(n)'
    BY ObserverRow
  <1>3. TypeOK /\ clients \in [Peers -> ClientInfo \cup {NoClient}] /\ CallsTyped
    BY DEF TypeInv, TypeOK, RegistryTypeOK, ServiceTypeOK, CallsTyped
  <1>4. ASSUME NEW p \in Peers, isPeerConnected(p)
        PROVE  clients[p].pseudonym \in Pseudonyms
    BY <1>3, <1>4 DEF isPeerConnected, ClientInfo
  <1>5. ASSUME NEW t \in Threads, Looked(t)'
        PROVE  HasRow(calls[t].pseudonym)' /\ calls'[t] = calls[t]
    <2>1. calls'[t] = calls[t]
      <3>1. t # o => calls'[t] = calls[t]
        BY <1>1 DEF Returns
      <3>2. calls'[o] = calls[o] \/ calls'[o].pc = Answer(calls[o].op)
        BY <1>1 DEF Returns
      <3>3. calls[o].pc = "dispatching"
        BY <1>1 DEF Returns
      <3>4. QED
        BY <1>5, <3>1, <3>2, <3>3 DEF Looked, Busy, Answer
    <2>2. Looked(t)
      BY <1>5, <2>1 DEF Looked, Busy
    <2>3. calls[t].pseudonym \in Pseudonyms
      BY <1>3, <2>2, CallOfOp DEF Looked, Busy, SendMessageCall
    <2>4. HasRow(calls[t].pseudonym)
      BY <2>2 DEF RowInv
    <2>5. PICK m \in Pseudonyms : m = calls[t].pseudonym /\ m = calls'[t].pseudonym
      BY <2>1, <2>3
    <2>6. HasRow(m)'
      BY <1>2, <2>4, <2>5
    <2>7. QED
      BY <2>1, <2>5, <2>6
  <1>6. ASSUME dispatch' # Unlocked, dispatch'.event.kind \in {"MessageSent", "PrivateMessageSent"}
        PROVE  statistics'[Subject(dispatch'.event)] # NoRow
    <2>1. dispatch'.event = e
      BY <1>1, <1>6 DEF Returns
    <2>2. PICK s : s = Subject(e)
      OBVIOUS
    <2>3. statistics[s] # NoRow
      BY <1>1, <1>6, <2>1, <2>2 DEF RowInv
    <2>4. CASE DatabaseLogs
      BY <1>6, <2>1, <2>2, <2>3, <2>4, TableSteps
    <2>5. CASE ~DatabaseLogs
      BY <2>1, <2>2, <2>3, <2>5 DEF ObserverStep, RegistryConnected, RegistryDisconnected, EventsLog,
                                    MessagesStore, PrivateQueues, statisticsVars
    <2>6. QED
      BY <2>4, <2>5
  <1>7. ASSUME NEW p \in Peers, isPeerConnected(p)', clients'[p] = clients[p]
        PROVE  HasRow(clients[p].pseudonym)'
    <2>1. isPeerConnected(p)
      BY <1>7 DEF isPeerConnected
    <2>2. PICK m \in Pseudonyms : m = clients[p].pseudonym
      BY <1>4, <2>1
    <2>3. HasRow(m)
      BY <2>1, <2>2 DEF RowInv
    <2>4. HasRow(m)' /\ m = clients'[p].pseudonym
      BY <1>2, <1>7, <2>2, <2>3
    <2>5. QED
      BY <2>4
  <1>8. CASE RegistryConnected
    <2>1. Notifies("registry", "ClientConnected")
      BY <1>8 DEF RegistryConnected
    <2>2. /\ k = 1 /\ e.kind = "ClientConnected" /\ e \in ClientConnectedEvent
          /\ q \in Peers /\ e.pseudonym \in Pseudonyms
      BY <2>1, WhoseTurn, NotifiedEvent DEF ClientConnectedEvent
    <2>3. clients' = [clients EXCEPT ![q] = [pseudonym |-> e.pseudonym, initialTimePoint |-> now]]
      BY <1>8 DEF RegistryConnected, RegistryOnClientConnected
    <2>4. clients'[q].pseudonym = e.pseudonym /\ \A p \in Peers : p # q => clients'[p] = clients[p]
      BY <1>3, <2>2, <2>3
    <2>5. PICK s : s = e.pseudonym /\ s = Subject(e)
      BY <2>2 DEF Subject
    <2>6. About("ClientConnected", s, 2)'
      <3>1. Len(Observers["ClientConnected"]) = 3
        BY DEF Observers
      <3>2. 2 = k + 1 /\ k # 3
        BY <2>2
      <3>3. About("ClientConnected", s, 2)' <=>
               /\ "ClientConnected" = "ClientConnected" /\ s = Subject(dispatch.event)
               /\ 2 = k + 1 /\ k # Len(Observers["ClientConnected"])
        BY <1>1, <2>1, AboutNext
      <3>4. QED
        BY <2>5, <3>1, <3>2, <3>3
    <2>7. HasRow(s)'
      BY <2>6 DEF HasRow
    <2>8. \A p \in Peers : isPeerConnected(p)' => HasRow(clients[p].pseudonym)'
      BY <1>7, <2>4, <2>5, <2>7
    <2>9. QED
      BY <1>5, <1>6, <2>8 DEF RowInv
  <1>9. CASE ~RegistryConnected
    <2>1. \A p \in Peers : isPeerConnected(p)' => clients'[p] = clients[p]
      <3>1. CASE RegistryDisconnected
        <4>1. \/ clients' = clients
              \/ \E p \in Peers : clients' = [clients EXCEPT ![p] = NoClient]
          BY <3>1 DEF RegistryDisconnected, RegistryOnClientDisconnected, PeersNamed
        <4>2. QED
          BY <1>3, <4>1 DEF isPeerConnected
      <3>2. CASE DatabaseLogs \/ EventsLog \/ MessagesStore \/ PrivateQueues
        BY <3>2 DEF DatabaseLogs, EventsLog, MessagesStore, PrivateQueues
      <3>3. QED
        BY <1>9, <3>1, <3>2 DEF ObserverStep
    <2>2. \A p \in Peers : isPeerConnected(p)' => HasRow(clients[p].pseudonym)'
      BY <1>7, <2>1
    <2>3. QED
      BY <1>5, <1>6, <2>2 DEF RowInv
  <1>10. QED
    BY <1>8, <1>9

\* Outside the walk: no row and no peer comes or goes.
LEMMA RowFrame ==
    ASSUME TypeInv, RowInv, UNCHANGED <<clients, statistics>>,
           UNCHANGED dispatch \/ (dispatch = Unlocked /\ dispatch' # Unlocked),
           \A t \in Threads : Looked(t)' => HasRow(calls'[t].pseudonym),
           dispatch' # dispatch /\ dispatch'.event.kind \in {"MessageSent", "PrivateMessageSent"} =>
              HasRow(Subject(dispatch'.event))
    PROVE  RowInv'
  <1>1. \A n : HasRow(n) => HasRow(n)'
    BY DEF HasRow, About
  <1>2. \A p \in Peers : isPeerConnected(p)' => HasRow(clients[p].pseudonym)'
    <2> SUFFICES ASSUME NEW p \in Peers, isPeerConnected(p)'
                 PROVE  HasRow(clients[p].pseudonym)'
      OBVIOUS
    <2>1. PICK m : m = clients[p].pseudonym
      OBVIOUS
    <2>2. HasRow(m)
      BY <2>1 DEF RowInv, isPeerConnected
    <2>3. HasRow(m)' /\ m = clients'[p].pseudonym
      BY <1>1, <2>1, <2>2
    <2>4. QED
      BY <2>3
  <1>3. \A t \in Threads : Looked(t)' => HasRow(calls[t].pseudonym)'
    <2> SUFFICES ASSUME NEW t \in Threads, Looked(t)'
                 PROVE  HasRow(calls[t].pseudonym)'
      OBVIOUS
    <2>1. PICK m : m = calls'[t].pseudonym
      OBVIOUS
    <2>2. HasRow(m)
      BY <2>1
    <2>3. HasRow(m)'
      BY <1>1, <2>2
    <2>4. QED
      BY <2>1, <2>3
  <1>4. ASSUME dispatch' # Unlocked, dispatch'.event.kind \in {"MessageSent", "PrivateMessageSent"}
        PROVE  statistics'[Subject(dispatch'.event)] # NoRow
    <2>1. CASE UNCHANGED dispatch
      BY <1>4, <2>1 DEF RowInv, Subject
    <2>2. CASE dispatch = Unlocked
      <3>1. HasRow(Subject(dispatch'.event))
        BY <1>4, <2>2
      <3>2. \A n : HasRow(n) => statistics[n] # NoRow
        BY <2>2 DEF HasRow, About
      <3>3. QED
        BY <3>1, <3>2
    <2>3. QED
      BY <2>1, <2>2
  <1>5. QED
    BY <1>2, <1>3, <1>4 DEF RowInv

LEMMA HandlerRows ==
    ASSUME TypeInv, RowInv, NEW t \in Threads, HandlerStep(t)
    PROVE  RowInv'
  <1> DEFINE c == calls[t]
             d == calls'[t]
  <1>1. Shape(t) /\ TypeOK /\ CallsTyped
    BY HandlerShape DEF TypeInv, TypeOK, ServiceTypeOK, CallsTyped
  <1>2. UNCHANGED <<clients, statistics>>
    BY DEF HandlerStep, ConnectCheck, ConnectRoster, ConnectNotify, DisconnectDuration,
           DisconnectNotify, SendLookup, SendValidate, SendRecipient, SendNotify, Notify, LocalStep,
           statisticsVars
  <1>3. UNCHANGED dispatch \/ (dispatch = Unlocked /\ dispatch' # Unlocked)
    BY <1>1 DEF Shape
  <1>4. \A u \in Threads : u # t /\ Looked(u)' => HasRow(calls'[u].pseudonym)
    <2> SUFFICES ASSUME NEW u \in Threads, u # t, Looked(u)'
                 PROVE  HasRow(calls'[u].pseudonym)
      OBVIOUS
    <2>1. calls'[u] = calls[u]
      BY <1>1 DEF Shape
    <2>2. Looked(u)
      BY <2>1 DEF Looked, Busy
    <2>3. HasRow(calls[u].pseudonym)
      BY <2>2 DEF RowInv
    <2>4. QED
      BY <2>1, <2>3
  <1>5. CASE \/ ConnectCheck(t) \/ ConnectRoster(t) \/ ConnectNotify(t)
             \/ DisconnectDuration(t) \/ DisconnectNotify(t)
    <2>1. c.op \in {"Connect", "Disconnect"}
      BY <1>5 DEF ConnectCheck, ConnectRoster, ConnectNotify, DisconnectDuration, DisconnectNotify,
                  Notify, At
    <2>2. d # NoCall /\ d.op = c.op
      BY <1>1 DEF Shape, SameCall
    <2>3. ~Looked(t)'
      BY <2>1, <2>2 DEF Looked, Busy
    <2>4. dispatch' # dispatch =>
            dispatch'.event.kind \in {"ClientConnected", "ClientDisconnected"}
      BY <1>5 DEF ConnectCheck, ConnectRoster, ConnectNotify, DisconnectDuration, DisconnectNotify,
                  Notify, Lock, LocalStep
    <2>5. QED
      BY <1>2, <1>3, <1>4, <2>3, <2>4, RowFrame
  <1>6. CASE SendLookup(t)
    <2>1. c \in SendMessageCall /\ c # NoCall
      BY <1>1, <1>6, CallOfOp DEF SendLookup, At
    <2>2. UNCHANGED dispatch
      BY <1>6 DEF SendLookup, LocalStep
    <2>3. Looked(t)' => isPeerConnected(c.peer) /\ d.pseudonym = clients[c.peer].pseudonym
      <3>1. CASE isPeerConnected(c.peer)
        <4>1. d = [c EXCEPT !.pc = "validate", !.pseudonym = clients[c.peer].pseudonym]
          BY <1>1, <1>6, <3>1 DEF SendLookup, Continue, CallsTyped, getPseudonymForPeer
        <4>2. QED
          BY <2>1, <3>1, <4>1 DEF SendMessageCall
      <3>2. CASE ~isPeerConnected(c.peer)
        <4>1. d = [c EXCEPT !.pc = "refused"]
          BY <1>1, <1>6, <3>2 DEF SendLookup, Goto, Continue, CallsTyped
        <4>2. d.pc = "refused"
          BY <2>1, <4>1 DEF SendMessageCall
        <4>3. QED
          BY <4>2 DEF Looked
      <3>3. QED
        BY <3>1, <3>2
    <2>4. Looked(t)' => HasRow(d.pseudonym)
      BY <2>1, <2>3 DEF RowInv, SendMessageCall
    <2>5. QED
      BY <1>2, <1>3, <1>4, <2>2, <2>4, RowFrame
  <1>7. CASE SendValidate(t) \/ SendRecipient(t) \/ SendNotify(t)
    <2>1. c \in SendMessageCall /\ c # NoCall /\ c.op = "SendMessage"
      BY <1>1, <1>7, CallOfOp DEF SendValidate, SendRecipient, SendNotify, Notify, At
    <2>2. Looked(t)
      BY <1>7 DEF SendValidate, SendRecipient, SendNotify, Notify, At, Looked, Busy
    <2>3. HasRow(c.pseudonym)
      BY <2>2 DEF RowInv
    <2>4. d.pseudonym = c.pseudonym
      BY <1>1, <1>7, <2>1 DEF SendValidate, SendRecipient, SendNotify, Notify, Continue, Goto,
                              SendMessageCall, CallsTyped
    <2>5. dispatch' # dispatch => Subject(dispatch'.event) = c.pseudonym
      <3>1. SendNotify(t) => dispatch'.event = SentEvent(c)
        BY DEF SendNotify, Notify, Lock
      <3>2. Subject(SentEvent(c)) = c.pseudonym
        BY DEF Subject, SentEvent
      <3>3. QED
        BY <1>7, <3>1, <3>2 DEF SendValidate, SendRecipient, LocalStep
    <2>6. QED
      BY <1>2, <1>3, <1>4, <2>3, <2>4, <2>5, RowFrame
  <1>8. QED
    BY <1>5, <1>6, <1>7 DEF HandlerStep

LEMMA CallsRows ==
    ASSUME TypeInv, RowInv, UNCHANGED <<clients, statistics, dispatch>>,
           \/ UNCHANGED calls
           \/ \E t \in Threads, call \in Call : Starts(t, call)
           \/ \E t \in Threads : Ends(t)
    PROVE  RowInv'
  <1>1. \A u \in Threads : \/ calls'[u] = calls[u]
                           \/ calls'[u] = NoCall
                           \/ calls'[u] # NoCall /\ calls'[u].pc \in {"check", "duration", "lookup"}
    BY DEF Starts, Ends, TypeInv, TypeOK, ServiceTypeOK
  <1>2. \A u \in Threads : Looked(u)' => HasRow(calls'[u].pseudonym)
    BY <1>1 DEF Looked, Busy, RowInv
  <1>3. QED
    BY <1>2, RowFrame

\* As long as no write failed, table and logs stay together.
LEMMA NextTable ==
    ASSUME TypeInv, dbErrors = 0 => CountInv /\ RowInv, [Next]_vars, dbErrors' = 0
    PROVE  CountInv' /\ RowInv'
  <1>1. dbErrors = 0
    <2>1. ObserverStep => dbErrors' = dbErrors \/ dbErrors' = dbErrors + 1
      <3>1. DatabaseLogs => dbErrors' = dbErrors \/ dbErrors' = dbErrors + 1
        BY TableSteps
      <3>2. ~DatabaseLogs /\ ObserverStep => dbErrors' = dbErrors
        BY DEF ObserverStep, RegistryConnected, RegistryDisconnected, EventsLog, MessagesStore,
               PrivateQueues, statisticsVars
      <3>3. QED
        BY <3>1, <3>2
    <2>2. ~ObserverStep => dbErrors' = dbErrors
      BY DEF Next, vars, serverVars, statisticsVars, HandlerStep, ConnectCheck, ConnectRoster,
             ConnectNotify, DisconnectDuration, DisconnectNotify, SendLookup, SendValidate,
             SendRecipient, SendNotify, Notify, LocalStep, DropAnswer, UserStep, Login,
             ConnectTimesOut, Disconnect, CloseWindow, CloseUnused, PrepareClose, SendMessage, Crash,
             ReplyStep, LoginSucceeded, LoginRejected, Disconnected, MessageSent
    <2>3. dbErrors \in Nat
      BY DEF TypeInv, TypeOK, StatisticsTypeOK
    <2>4. QED
      BY <2>1, <2>2, <2>3
  <1>2. CountInv /\ RowInv
    BY <1>1
  <1>3. CASE UNCHANGED <<serverVars, clientVars>>
    <2>1. UNCHANGED <<clients, statistics, dispatch, calls, clientEvents, messageHistory, privateSent>>
      BY <1>3 DEF serverVars, statisticsVars, clientEventVars, messageVars, privateVars
    <2>2. QED
      BY <1>2, <2>1, CountFrame, CallsRows DEF About
  <1>4. ASSUME NEW t \in Threads, HandlerStep(t)
        PROVE  CountInv' /\ RowInv'
    <2>1. UNCHANGED <<statistics, clientEvents, messageHistory, privateSent>>
      BY <1>4 DEF HandlerStep, ConnectCheck, ConnectRoster, ConnectNotify, DisconnectDuration,
                  DisconnectNotify, SendLookup, SendValidate, SendRecipient, SendNotify, Notify,
                  LocalStep, statisticsVars, clientEventVars, messageVars, privateVars
    <2>2. dispatch' = dispatch \/ (dispatch = Unlocked /\ dispatch'.next = 1)
      BY <1>4, HandlerShape DEF Shape
    <2>3. \A kind, n : \A k \in {2, 3} : About(kind, n, k)' <=> About(kind, n, k)
      BY <2>2 DEF About
    <2>4. CountInv'
      BY <1>2, <2>1, <2>3, CountFrame
    <2>5. QED
      BY <1>2, <1>4, <2>4, HandlerRows
  <1>5. ASSUME NEW t \in Threads, DropAnswer(t)
        PROVE  CountInv' /\ RowInv'
    <2>1. UNCHANGED <<clients, statistics, dispatch, clientEvents, messageHistory, privateSent>>
      BY <1>5 DEF DropAnswer, LocalStep, statisticsVars, clientEventVars, messageVars, privateVars
    <2>2. Ends(t)
      BY <1>5 DEF DropAnswer, Ends
    <2>3. QED
      BY <1>2, <2>1, <2>2, CountFrame, CallsRows DEF About
  <1>6. ASSUME NEW p \in Peers, UserStep(p) \/ ReplyStep(p)
        PROVE  CountInv' /\ RowInv'
    <2>1. UNCHANGED <<clients, statistics, dispatch, clientEvents, messageHistory, privateSent>>
      BY <1>6 DEF UserStep, Login, ConnectTimesOut, Disconnect, CloseWindow, CloseUnused,
                  PrepareClose, SendMessage, Crash, ReplyStep, LoginSucceeded, LoginRejected,
                  Disconnected, MessageSent, LocalStep, statisticsVars, clientEventVars, messageVars,
                  privateVars
    <2>2. CountInv'
      BY <1>2, <2>1, CountFrame DEF About
    <2>3. QED
      BY <1>2, <1>6, <2>1, <2>2, ClientShape, CallsRows
  <1>7. CASE ObserverStep
    BY <1>1, <1>2, <1>7, ObserverCounts, ObserverRows
  <1>8. QED
    BY <1>3, <1>4, <1>5, <1>6, <1>7 DEF Next, vars

-----------------------------------------------------------------------------
(* The time spent connected.                                               *)

LEMMA OneFrame ==
    ASSUME OneDisconnect,
           \A t \in Threads : Busy(t, "Disconnect")' =>
              Busy(t, "Disconnect") /\ calls'[t].peer = calls[t].peer
    PROVE  OneDisconnect'
  BY DEF OneDisconnect

\* A client that does not wait for an answer has no Disconnect under way.
LEMMA OneMoreCall ==
    ASSUME TypeInv, SessionInv, OneDisconnect, NEW p \in Peers, Responsive(p), view[p] # "crashed",
           NEW call, call.peer = p, Invoke(p, call)
    PROVE  OneDisconnect'
  <1>1. PICK t \in Threads : calls' = [calls EXCEPT ![t] = call]
    BY DEF Invoke
  <1>2. calls'[t] = call /\ \A u \in Threads : u # t => calls'[u] = calls[u]
    BY <1>1 DEF TypeInv, TypeOK, ServiceTypeOK
  <1>3. \A u \in Threads : u # NoThread
    BY ClientAssumption
  <1>4. \A u \in Threads : Busy(u, "Disconnect") => calls[u].peer # p
    BY <1>3 DEF Responsive, SessionInv, CallsAwaited
  <1>5. \A u \in Threads : u # t /\ Busy(u, "Disconnect")' =>
           Busy(u, "Disconnect") /\ calls'[u].peer = calls[u].peer /\ calls'[u].peer # p
    BY <1>2, <1>4 DEF Busy
  <1>6. QED
    BY <1>2, <1>5 DEF OneDisconnect

LEMMA NextOne ==
    ASSUME TypeInv, WalkInv, SessionInv, OneDisconnect, [Next]_vars
    PROVE  OneDisconnect'
  <1>1. CASE UNCHANGED calls
    BY <1>1, OneFrame DEF Busy
  <1>2. ASSUME NEW t \in Threads, HandlerStep(t)
        PROVE  OneDisconnect'
    <2>1. \A u \in Threads : Busy(u, "Disconnect")' =>
             Busy(u, "Disconnect") /\ calls'[u].peer = calls[u].peer
      BY <1>2, HandlerShape DEF Shape, SameCall, Busy
    <2>2. QED
      BY <2>1, OneFrame
  <1>3. CASE ObserverStep
    <2>1. \A u \in Threads : Busy(u, "Disconnect")' =>
             Busy(u, "Disconnect") /\ calls'[u].peer = calls[u].peer
      BY <1>3, ObserverShape, ReturnsCalls DEF SameCall, Busy
    <2>2. QED
      BY <2>1, OneFrame
  <1>4. ASSUME NEW t \in Threads, Ends(t)
        PROVE  OneDisconnect'
    <2>1. \A u \in Threads : calls'[u] = NoCall \/ calls'[u] = calls[u]
      BY <1>4 DEF Ends, TypeInv, TypeOK, ServiceTypeOK
    <2>2. QED
      BY <2>1, OneFrame DEF Busy
  <1>5. ASSUME NEW p \in Peers, UserStep(p)
        PROVE  OneDisconnect'
    <2>1. ASSUME NEW n \in NamesOf[p], Login(p, n)
          PROVE  OneDisconnect'
      <3>1. NewConnect(p, n).peer = p
        BY DEF NewConnect
      <3>2. QED
        BY <2>1, <3>1, OneMoreCall DEF Login
    <2>2. ASSUME NEW next, PrepareClose(p, next), Responsive(p), view[p] # "crashed"
          PROVE  OneDisconnect'
      <3>1. NewDisconnect(p, pseudonym[p]).peer = p
        BY DEF NewDisconnect
      <3>2. QED
        BY <2>2, <3>1, OneMoreCall DEF PrepareClose
    <2>3. ASSUME NEW recipient \in Recipients, NEW content \in Lengths,
                 SendMessage(p, recipient, content)
          PROVE  OneDisconnect'
      <3>1. NewSendMessage(p, pseudonym[p], recipient, content).peer = p
        BY DEF NewSendMessage
      <3>2. view[p] # "crashed"
        BY <2>3 DEF SendMessage
      <3>3. QED
        BY <2>3, <3>1, <3>2, OneMoreCall DEF SendMessage
    <2>4. CASE Disconnect(p) \/ CloseWindow(p)
      BY <2>2, <2>4 DEF Disconnect, CloseWindow
    <2>5. CASE ConnectTimesOut(p) \/ CloseUnused(p) \/ Crash(p)
      BY <1>1, <2>5 DEF ConnectTimesOut, CloseUnused, Crash
    <2>6. QED
      BY <1>5, <2>1, <2>3, <2>4, <2>5 DEF UserStep
  <1>6. ASSUME NEW p \in Peers, ReplyStep(p)
        PROVE  OneDisconnect'
    <2>1. Ends(awaiting[p]) /\ awaiting[p] \in Threads
      BY <1>6 DEF ReplyStep, LoginSucceeded, LoginRejected, Disconnected, MessageSent, Returned,
                  Return, Ends, Answered, At, TypeInv, TypeOK, ClientTypeOK
    <2>2. QED
      BY <1>4, <2>1
  <1>7. ASSUME NEW t \in Threads, DropAnswer(t)
        PROVE  OneDisconnect'
    BY <1>4, <1>7 DEF DropAnswer, Ends
  <1>8. CASE UNCHANGED serverVars
    BY <1>1, <1>8 DEF serverVars
  <1>9. QED
    BY <1>2, <1>3, <1>5, <1>6, <1>7, <1>8 DEF Next, vars

\* What the time left behind is measured in.
LEMMA TimeTypes ==
    ASSUME TypeInv
    PROVE  /\ now \in Nat
           /\ \A n \in Pseudonyms : Seconds(n) \in Nat
           /\ \A p \in Peers : isPeerConnected(p) =>
                 /\ clients[p].pseudonym \in Pseudonyms
                 /\ clients[p].initialTimePoint \in Nat /\ clients[p].initialTimePoint <= now
           /\ \A t \in Threads : Measured(t) =>
                 calls[t].pseudonym \in Pseudonyms /\ calls[t].connectionDuration \in Nat
           /\ \A n, k : About("ClientDisconnected", n, k) =>
                 n \in Pseudonyms /\ dispatch.event.connectionDuration \in Nat
  <1>1. Time \subseteq Nat
    BY ClockAssumption DEF Time
  <1>2. TypeOK /\ CallsTyped /\ now \in Nat
    BY <1>1 DEF TypeInv, TypeOK, ServiceTypeOK, CallsTyped
  <1>3. \A n \in Pseudonyms : Seconds(n) \in Nat
    BY <1>2, CountTypes
  <1>4. ASSUME NEW p \in Peers, isPeerConnected(p)
        PROVE  /\ clients[p].pseudonym \in Pseudonyms
               /\ clients[p].initialTimePoint \in Nat /\ clients[p].initialTimePoint <= now
    BY <1>1, <1>4 DEF isPeerConnected, ClientInfo, TypeInv, TypeOK, RegistryTypeOK, TimesPassed
  <1>5. ASSUME NEW t \in Threads, Measured(t)
        PROVE  calls[t].pseudonym \in Pseudonyms /\ calls[t].connectionDuration \in Nat
    BY <1>1, <1>2, <1>5, CallOfOp DEF Measured, Busy, DisconnectCall
  <1>6. ASSUME NEW n, NEW k, About("ClientDisconnected", n, k)
        PROVE  n \in Pseudonyms /\ dispatch.event.connectionDuration \in Nat
    <2>1. dispatch.event \in ClientDisconnectedEvent
      BY <1>2, <1>6 DEF About, TypeOK, DispatcherTypeOK, Dispatch, Event, ClientConnectedEvent,
                        ClientDisconnectedEvent, MessageSentEvent, PrivateMessageSentEvent
    <2>2. QED
      BY <1>1, <1>6, <2>1 DEF About, Subject, ClientDisconnectedEvent
  <1>7. QED
    BY <1>2, <1>3, <1>4, <1>5, <1>6

\* A step that leaves clock, table and registry alone, and measures nothing
\* but what the bound allows.
LEMMA TimeFrame ==
    ASSUME TimeInv, UNCHANGED <<now, clients, statistics>>,
           \A t \in Threads : Measured(t)' =>
              Seconds(calls'[t].pseudonym) + InSeconds(calls'[t].connectionDuration) <= InSeconds(now),
           \A n \in Pseudonyms : About("ClientDisconnected", n, 1)' \/ About("ClientDisconnected", n, 2)' =>
              Seconds(n) + InSeconds(dispatch'.event.connectionDuration) <= InSeconds(now),
           \A n \in Pseudonyms : About("ClientDisconnected", n, 2)' => PeersNamed(n) = {}
    PROVE  TimeInv'
  <1>1. \A n : Seconds(n)' = Seconds(n) /\ PeersNamed(n)' = PeersNamed(n)
    BY DEF Seconds, PeersNamed, isPeerConnected
  <1>2. InSeconds(now)' = InSeconds(now)
    BY DEF InSeconds
  <1>3. \A n \in Pseudonyms : Seconds(n)' <= InSeconds(now)'
    BY <1>1, <1>2 DEF TimeInv
  <1>4. ASSUME NEW p \in Peers, isPeerConnected(p)'
        PROVE  Seconds(clients[p].pseudonym)' <= InSeconds(clients[p].initialTimePoint)'
    <2>1. Seconds(clients[p].pseudonym) <= InSeconds(clients[p].initialTimePoint)
      BY <1>4 DEF TimeInv, isPeerConnected
    <2>2. QED
      BY <2>1 DEF Seconds, InSeconds
  <1>5. ASSUME NEW t \in Threads, Measured(t)'
        PROVE  (Seconds(calls[t].pseudonym) + InSeconds(calls[t].connectionDuration))' <= InSeconds(now)'
    <2>1. Seconds(calls'[t].pseudonym) + InSeconds(calls'[t].connectionDuration) <= InSeconds(now)
      BY <1>5
    <2>2. QED
      BY <2>1 DEF Seconds, InSeconds
  <1>6. ASSUME NEW n \in Pseudonyms, About("ClientDisconnected", n, 1)' \/ About("ClientDisconnected", n, 2)'
        PROVE  (Seconds(n) + InSeconds(dispatch.event.connectionDuration))' <= InSeconds(now)'
    <2>1. Seconds(n) + InSeconds(dispatch'.event.connectionDuration) <= InSeconds(now)
      BY <1>6
    <2>2. QED
      BY <2>1 DEF Seconds, InSeconds
  <1>7. QED
    BY <1>1, <1>3, <1>4, <1>5, <1>6 DEF TimeInv

\* Nothing changes but the time, which only grows.
LEMMA TickTime ==
    ASSUME TypeInv, TimeInv, Tick, UNCHANGED <<serverVars, clientVars>>
    PROVE  TimeInv'
  <1>1. /\ now \in Nat /\ now' \in Nat /\ now <= now'
        /\ UNCHANGED <<clients, statistics, calls, dispatch>>
    BY TimeTypes DEF Tick, serverVars, statisticsVars
  <1>2. InSeconds(now) \in Nat /\ InSeconds(now') \in Nat /\ InSeconds(now) <= InSeconds(now')
    BY <1>1, SecondsGrow
  <1>3. \A a \in Nat : a <= InSeconds(now) => a <= InSeconds(now')
    BY <1>2
  <1>4. \A d \in Nat : InSeconds(d) \in Nat
    BY SecondsGrow
  <1>5. \A n \in Pseudonyms : Seconds(n)' <= InSeconds(now)'
    <2> SUFFICES ASSUME NEW n \in Pseudonyms
                 PROVE  Seconds(n)' <= InSeconds(now)'
      OBVIOUS
    <2>1. Seconds(n) \in Nat /\ Seconds(n) <= InSeconds(now)
      BY TimeTypes DEF TimeInv
    <2>2. Seconds(n) <= InSeconds(now')
      BY <1>3, <2>1
    <2>3. Seconds(n)' = Seconds(n)
      BY <1>1 DEF Seconds
    <2>4. QED
      BY <2>2, <2>3
  <1>6. ASSUME NEW p \in Peers, isPeerConnected(p)'
        PROVE  Seconds(clients[p].pseudonym)' <= InSeconds(clients[p].initialTimePoint)'
    <2>1. Seconds(clients[p].pseudonym) <= InSeconds(clients[p].initialTimePoint)
      BY <1>1, <1>6 DEF TimeInv, isPeerConnected
    <2>2. QED
      BY <1>1, <2>1 DEF Seconds, InSeconds
  <1>7. ASSUME NEW t \in Threads, Measured(t)'
        PROVE  (Seconds(calls[t].pseudonym) + InSeconds(calls[t].connectionDuration))' <= InSeconds(now)'
    <2>1. Measured(t)
      BY <1>1, <1>7 DEF Measured, Busy
    <2>2. Seconds(calls[t].pseudonym) + InSeconds(calls[t].connectionDuration) <= InSeconds(now)
      BY <2>1 DEF TimeInv
    <2>3. Seconds(calls[t].pseudonym) + InSeconds(calls[t].connectionDuration) \in Nat
      BY <1>4, <2>1, TimeTypes
    <2>4. Seconds(calls[t].pseudonym) + InSeconds(calls[t].connectionDuration) <= InSeconds(now')
      BY <1>3, <2>2, <2>3
    <2>5. QED
      BY <1>1, <2>4 DEF Seconds, InSeconds
  <1>8. ASSUME NEW n \in Pseudonyms, About("ClientDisconnected", n, 1)' \/ About("ClientDisconnected", n, 2)'
        PROVE  (Seconds(n) + InSeconds(dispatch.event.connectionDuration))' <= InSeconds(now)'
    <2>1. About("ClientDisconnected", n, 1) \/ About("ClientDisconnected", n, 2)
      BY <1>1, <1>8 DEF About
    <2>2. Seconds(n) + InSeconds(dispatch.event.connectionDuration) <= InSeconds(now)
      BY <2>1 DEF TimeInv
    <2>3. Seconds(n) + InSeconds(dispatch.event.connectionDuration) \in Nat
      BY <1>4, <2>1, TimeTypes
    <2>4. Seconds(n) + InSeconds(dispatch.event.connectionDuration) <= InSeconds(now')
      BY <1>3, <2>2, <2>3
    <2>5. QED
      BY <1>1, <2>4 DEF Seconds, InSeconds
  <1>9. \A n \in Pseudonyms : About("ClientDisconnected", n, 2)' => PeersNamed(n)' = {}
    BY <1>1 DEF TimeInv, About, PeersNamed, isPeerConnected
  <1>10. QED
    BY <1>5, <1>6, <1>7, <1>8, <1>9 DEF TimeInv

\* The time of a session starts where the seconds counted before it end.
LEMMA HandlerTime ==
    ASSUME TypeInv, SessionInv, NamesAreOwn, TimeInv, NEW t \in Threads, HandlerStep(t)
    PROVE  TimeInv'
  <1> DEFINE c == calls[t]
             d == calls'[t]
  <1>1. Shape(t) /\ TypeOK /\ CallsTyped
    BY HandlerShape DEF TypeInv, TypeOK, ServiceTypeOK, CallsTyped
  <1>2. UNCHANGED <<now, clients, statistics>>
    BY DEF HandlerStep, ConnectCheck, ConnectRoster, ConnectNotify, DisconnectDuration,
           DisconnectNotify, SendLookup, SendValidate, SendRecipient, SendNotify, Notify, LocalStep,
           statisticsVars
  <1>3. \A u \in Threads : u # t /\ Measured(u)' =>
              Seconds(calls'[u].pseudonym) + InSeconds(calls'[u].connectionDuration) <= InSeconds(now)
    <2> SUFFICES ASSUME NEW u \in Threads, u # t, Measured(u)'
                 PROVE  Seconds(calls'[u].pseudonym) + InSeconds(calls'[u].connectionDuration)
                          <= InSeconds(now)
      OBVIOUS
    <2>1. calls'[u] = calls[u]
      BY <1>1 DEF Shape
    <2>2. Measured(u)
      BY <2>1 DEF Measured, Busy
    <2>3. Seconds(calls[u].pseudonym) + InSeconds(calls[u].connectionDuration) <= InSeconds(now)
      BY <2>2 DEF TimeInv
    <2>4. QED
      BY <2>1, <2>3
  <1>4. \A n \in Pseudonyms :
          /\ UNCHANGED dispatch /\ (About("ClientDisconnected", n, 1)' \/ About("ClientDisconnected", n, 2)') =>
              Seconds(n) + InSeconds(dispatch'.event.connectionDuration) <= InSeconds(now)
          /\ About("ClientDisconnected", n, 2)' => PeersNamed(n) = {}
    BY <1>1 DEF TimeInv, About, Shape
  <1>5. CASE DisconnectDuration(t)
    <2>1. c \in DisconnectCall /\ c # NoCall /\ c.op = "Disconnect"
      BY <1>1, <1>5, CallOfOp DEF DisconnectDuration, At
    <2>2. UNCHANGED dispatch
      BY <1>5 DEF DisconnectDuration, LocalStep
    <2>3. CASE ~isPeerConnected(c.peer)
      <3>1. d = [c EXCEPT !.pc = "ok"]
        BY <1>1, <1>5, <2>3 DEF DisconnectDuration, Goto, Continue, CallsTyped
      <3>2. ~Measured(t)'
        BY <2>1, <3>1 DEF Measured, DisconnectCall
      <3>3. QED
        BY <1>2, <1>3, <1>4, <2>2, <3>2, TimeFrame
    <2>4. CASE isPeerConnected(c.peer)
      <3> DEFINE p == c.peer
                 n == c.pseudonym
                 began == clients[p].initialTimePoint
      <3>1. d = [c EXCEPT !.pc = "notify", !.connectionDuration = now - began]
        BY <1>1, <1>5, <2>4 DEF DisconnectDuration, Continue, CallsTyped, getConnectionDuration
      <3>2. d.pseudonym = n /\ d.connectionDuration = now - began
        BY <2>1, <3>1 DEF DisconnectCall
      <3>3. p \in Peers /\ clients[p].pseudonym = n /\ n \in Pseudonyms
        BY <2>1, <2>4 DEF SessionInv, NamesUsed, NamesAreOwn, DisconnectCall
      <3>4. began \in Nat /\ now \in Nat /\ now - began \in Nat
        BY <2>4, <3>3, TimeTypes
      <3>5. Seconds(n) <= InSeconds(began) /\ Seconds(n) \in Nat
        BY <2>4, <3>3, TimeTypes DEF TimeInv
      <3> HIDE DEF began, n, p
      <3>6. InSeconds(began) + InSeconds(now - began) <= InSeconds(began + (now - began))
        BY <3>4, SecondsAdd
      <3>7. began + (now - began) = now
        BY <3>4
      <3>8. InSeconds(began) \in Nat /\ InSeconds(now - began) \in Nat /\ InSeconds(now) \in Nat
        BY <3>4, SecondsGrow
      <3>9. Seconds(n) + InSeconds(now - began) <= InSeconds(now)
        BY <3>5, <3>6, <3>7, <3>8
      <3>10. Seconds(d.pseudonym) + InSeconds(d.connectionDuration) <= InSeconds(now)
        BY <3>2, <3>9
      <3>11. QED
        BY <1>2, <1>3, <1>4, <2>2, <3>10, TimeFrame
    <2>5. QED
      BY <2>3, <2>4
  <1>6. CASE DisconnectNotify(t)
    <2>1. c \in DisconnectCall /\ c # NoCall /\ c.op = "Disconnect"
      BY <1>1, <1>6, CallOfOp DEF DisconnectNotify, Notify, At
    <2>2. Measured(t)
      BY <1>6 DEF DisconnectNotify, Notify, At, Measured, Busy
    <2>3. Seconds(c.pseudonym) + InSeconds(c.connectionDuration) <= InSeconds(now)
      BY <2>2 DEF TimeInv
    <2>4. dispatch'.event = [kind |-> "ClientDisconnected", peer |-> c.peer, pseudonym |-> c.pseudonym,
                             connectionDuration |-> c.connectionDuration]
      BY <1>6 DEF DisconnectNotify, Notify, Lock
    <2>5. Subject(dispatch'.event) = c.pseudonym /\ dispatch'.event.connectionDuration = c.connectionDuration
      BY <2>4 DEF Subject
    <2>6. d = [c EXCEPT !.pc = "dispatching"]
      BY <1>1, <1>6 DEF DisconnectNotify, Notify, Goto, Continue, CallsTyped
    <2>7. ~Measured(t)'
      BY <2>1, <2>6 DEF Measured, DisconnectCall
    <2>8. \A n, k : About("ClientDisconnected", n, k)' => n = c.pseudonym
      BY <2>5 DEF About, Subject
    <2>9. \A n \in Pseudonyms : About("ClientDisconnected", n, 1)' \/ About("ClientDisconnected", n, 2)' =>
              Seconds(n) + InSeconds(dispatch'.event.connectionDuration) <= InSeconds(now)
      BY <2>3, <2>5, <2>8
    <2>10. QED
      BY <1>2, <1>3, <1>4, <2>7, <2>9, TimeFrame
  <1>7. CASE ~DisconnectDuration(t) /\ ~DisconnectNotify(t)
    <2>1. c.op \in {"Connect", "SendMessage"}
      BY <1>7 DEF HandlerStep, ConnectCheck, ConnectRoster, ConnectNotify, SendLookup, SendValidate,
                  SendRecipient, SendNotify, Notify, At
    <2>2. d.op = c.op
      BY <1>1 DEF Shape, SameCall
    <2>3. ~Measured(t)'
      BY <2>1, <2>2 DEF Measured, Busy
    <2>4. dispatch' # dispatch => dispatch'.event.kind # "ClientDisconnected"
      <3>1. ConnectNotify(t) => dispatch'.event.kind = "ClientConnected"
        BY DEF ConnectNotify, Notify, Lock
      <3>2. SendNotify(t) => dispatch'.event = SentEvent(c)
        BY DEF SendNotify, Notify, Lock
      <3>3. SentEvent(c).kind # "ClientDisconnected"
        BY DEF SentEvent
      <3>4. QED
        BY <1>7, <3>1, <3>2, <3>3 DEF HandlerStep, ConnectCheck, ConnectRoster, SendLookup, SendValidate,
                                      SendRecipient, LocalStep
    <2>5. dispatch' # dispatch => \A n, k : ~About("ClientDisconnected", n, k)'
      BY <2>4 DEF About
    <2>6. QED
      BY <1>2, <1>3, <1>4, <2>3, <2>5, TimeFrame
  <1>8. QED
    BY <1>5, <1>6, <1>7

\* A callback that changes no name's seconds.
LEMMA SecondsFrame ==
    ASSUME TypeInv, TimeInv, UNCHANGED <<now, clients>>,
           \A n \in Pseudonyms : Seconds(n)' = Seconds(n),
           \A t \in Threads : Measured(t)' => Measured(t) /\ calls'[t] = calls[t],
           \A n : ~About("ClientDisconnected", n, 1)' /\ ~About("ClientDisconnected", n, 2)'
    PROVE  TimeInv'
  <1>1. \A n \in Pseudonyms : Seconds(n)' <= InSeconds(now)'
    BY DEF TimeInv, InSeconds
  <1>2. ASSUME NEW p \in Peers, isPeerConnected(p)'
        PROVE  Seconds(clients[p].pseudonym)' <= InSeconds(clients[p].initialTimePoint)'
    <2>1. isPeerConnected(p) /\ clients'[p] = clients[p]
      BY <1>2 DEF isPeerConnected
    <2>2. PICK n \in Pseudonyms : n = clients[p].pseudonym /\ n = clients'[p].pseudonym
      BY <2>1, TimeTypes
    <2>3. Seconds(n) <= InSeconds(clients[p].initialTimePoint)
      BY <2>1, <2>2 DEF TimeInv
    <2>4. Seconds(n)' <= InSeconds(clients[p].initialTimePoint)'
      BY <2>1, <2>3 DEF InSeconds
    <2>5. QED
      BY <2>2, <2>4
  <1>3. ASSUME NEW t \in Threads, Measured(t)'
        PROVE  (Seconds(calls[t].pseudonym) + InSeconds(calls[t].connectionDuration))' <= InSeconds(now)'
    <2>1. Measured(t) /\ calls'[t] = calls[t]
      BY <1>3
    <2>2. PICK n \in Pseudonyms : n = calls[t].pseudonym /\ n = calls'[t].pseudonym
      BY <2>1, TimeTypes
    <2>3. Seconds(n) + InSeconds(calls[t].connectionDuration) <= InSeconds(now)
      BY <2>1, <2>2 DEF TimeInv
    <2>4. Seconds(n)' + InSeconds(calls[t].connectionDuration)' <= InSeconds(now)'
      BY <2>1, <2>3 DEF InSeconds
    <2>5. QED
      BY <2>2, <2>4
  <1>4. QED
    BY <1>1, <1>2, <1>3 DEF TimeInv

LEMMA ObserverTime ==
    ASSUME TypeInv, WalkInv, SessionInv, NamesAreOwn, OneDisconnect, TimeInv, ObserverStep
    PROVE  TimeInv'
  <1> PICK e, k, q, o, s : /\ e = dispatch.event /\ k = dispatch.next /\ q = e.peer
                           /\ o = dispatch.owner /\ s = Subject(e)
    OBVIOUS
  <1>1. dispatch # Unlocked /\ Returns /\ ObserverReturns
    BY ObserverShape
  <1>2. UNCHANGED now
    BY DEF ObserverStep, RegistryConnected, RegistryDisconnected, DatabaseLogs, EventsLog,
           MessagesStore, PrivateQueues
  <1>3. ASSUME NEW t \in Threads, Measured(t)'
        PROVE  t # o /\ Measured(t) /\ calls'[t] = calls[t]
    <2>1. t # o => calls'[t] = calls[t]
      BY <1>1 DEF Returns
    <2>2. calls[o].pc = "dispatching" /\ (calls'[o] = calls[o] \/ calls'[o].pc = Answer(calls[o].op))
      BY <1>1 DEF Returns
    <2>3. QED
      BY <1>3, <2>1, <2>2 DEF Measured, Busy, Answer
  <1>4. \A t \in Threads : Measured(t)' =>
            Seconds(calls'[t].pseudonym) + InSeconds(calls'[t].connectionDuration) <= InSeconds(now)
    BY <1>3 DEF TimeInv
  <1>5. ASSUME NEW x, NEW kind, Notifies(x, kind), NEW n
        PROVE  /\ ~About("ClientDisconnected", n, 1)'
               /\ About("ClientDisconnected", n, 2)' => kind = "ClientDisconnected" /\ n = s /\ x = "registry"
    <2>1. k = 1 \/ k = 2 \/ k = 3 \/ k = 4
      BY <1>5, NotifiedEvent DEF Dispatch
    <2>2. /\ About("ClientDisconnected", n, 1)' => 1 = k + 1
          /\ About("ClientDisconnected", n, 2)' => kind = "ClientDisconnected" /\ n = s /\ 2 = k + 1
      BY <1>1, <1>5, AboutNext
    <2>3. kind = "ClientDisconnected" /\ k = 1 => x = "registry"
      BY <1>5, WhoseTurn
    <2>4. QED
      BY <2>1, <2>2, <2>3
  <1>6. CASE RegistryConnected
    <2>1. /\ k = 1 /\ q \in Peers /\ e.kind = "ClientConnected"
          /\ e.pseudonym \in NamesOf[q] /\ e.pseudonym \in Pseudonyms
          /\ \A p \in Peers : p # q => clients'[p] = clients[p]
          /\ clients'[q].pseudonym = e.pseudonym /\ clients'[q] # NoClient
      BY <1>6, Entered DEF SessionInv
    <2>2. clients'[q].initialTimePoint = now
      BY <1>6, <2>1 DEF RegistryConnected, RegistryOnClientConnected, TypeInv, TypeOK, RegistryTypeOK
    <2>3. UNCHANGED statistics /\ Notifies("registry", "ClientConnected")
      BY <1>6 DEF RegistryConnected, statisticsVars
    <2>4. \A n : Seconds(n)' = Seconds(n)
      BY <2>3 DEF Seconds
    <2>5. \A n : ~About("ClientDisconnected", n, 1)' /\ ~About("ClientDisconnected", n, 2)'
      BY <1>5, <2>3
    <2>6. ASSUME NEW p \in Peers, isPeerConnected(p)'
          PROVE  Seconds(clients[p].pseudonym)' <= InSeconds(clients[p].initialTimePoint)'
      <3>1. CASE p = q
        <4>1. Seconds(e.pseudonym) <= InSeconds(now)
          BY <2>1 DEF TimeInv
        <4>2. QED
          BY <2>1, <2>2, <2>3, <3>1, <4>1 DEF Seconds, InSeconds
      <3>2. CASE p # q
        <4>1. Seconds(clients[p].pseudonym) <= InSeconds(clients[p].initialTimePoint)
          BY <2>1, <2>6, <3>2 DEF TimeInv, isPeerConnected
        <4>2. QED
          BY <2>1, <2>3, <3>2, <4>1 DEF Seconds, InSeconds
      <3>3. QED
        BY <3>1, <3>2
    <2>7. \A n \in Pseudonyms : Seconds(n)' <= InSeconds(now)'
      BY <1>2, <2>4 DEF TimeInv, InSeconds
    <2>8. \A t \in Threads : Measured(t)' =>
            (Seconds(calls[t].pseudonym) + InSeconds(calls[t].connectionDuration))' <= InSeconds(now)'
      BY <1>2, <1>4, <2>3 DEF Seconds, InSeconds
    <2>9. QED
      BY <2>5, <2>6, <2>7, <2>8 DEF TimeInv
  <1>7. CASE RegistryDisconnected
    <2>1. /\ k = 1 /\ q \in Peers /\ e.kind = "ClientDisconnected" /\ e.pseudonym \in NamesOf[q]
          /\ e.pseudonym \in Pseudonyms
          /\ \A p \in Peers : /\ isPeerConnected(p)' <=> isPeerConnected(p) /\ p # q
                              /\ p # q => clients'[p] = clients[p]
      BY <1>7, Erased DEF SessionInv
    <2>2. UNCHANGED statistics /\ Notifies("registry", "ClientDisconnected")
      BY <1>7 DEF RegistryDisconnected, statisticsVars
    <2>3. s = e.pseudonym /\ About("ClientDisconnected", s, 1)
      BY <1>1, <2>1 DEF Subject, About
    <2>4. PeersNamed(s)' = {}
      <3>1. \A p \in Peers : isPeerConnected(p) /\ p # q => clients[p].pseudonym # e.pseudonym
        BY <2>1 DEF SessionInv, NamesUsed, NamesAreOwn
      <3>2. QED
        BY <2>1, <2>3, <3>1 DEF PeersNamed
    <2>5. \A n : Seconds(n)' = Seconds(n)
      BY <2>2 DEF Seconds
    <2>6. Seconds(s) + InSeconds(e.connectionDuration) <= InSeconds(now)
      BY <2>1, <2>3 DEF TimeInv
    <2>7. ASSUME NEW n \in Pseudonyms,
                 About("ClientDisconnected", n, 1)' \/ About("ClientDisconnected", n, 2)'
          PROVE  /\ n = s
                 /\ (Seconds(n) + InSeconds(dispatch.event.connectionDuration))' <= InSeconds(now)'
      <3>1. n = s /\ dispatch' # Unlocked
        BY <1>5, <2>2, <2>7 DEF About
      <3>2. dispatch'.event = e
        BY <1>1, <3>1 DEF Returns
      <3>3. QED
        BY <1>2, <2>2, <2>6, <3>1, <3>2 DEF Seconds, InSeconds
    <2>8. ASSUME NEW p \in Peers, isPeerConnected(p)'
          PROVE  Seconds(clients[p].pseudonym)' <= InSeconds(clients[p].initialTimePoint)'
      <3>1. clients'[p] = clients[p] /\ isPeerConnected(p)
        BY <2>1, <2>8
      <3>2. Seconds(clients[p].pseudonym) <= InSeconds(clients[p].initialTimePoint)
        BY <3>1 DEF TimeInv
      <3>3. QED
        BY <2>2, <3>1, <3>2 DEF Seconds, InSeconds
    <2>9. \A n \in Pseudonyms : Seconds(n)' <= InSeconds(now)'
      BY <1>2, <2>5 DEF TimeInv, InSeconds
    <2>10. \A t \in Threads : Measured(t)' =>
            (Seconds(calls[t].pseudonym) + InSeconds(calls[t].connectionDuration))' <= InSeconds(now)'
      BY <1>2, <1>4, <2>2 DEF Seconds, InSeconds
    <2>11. QED
      BY <2>4, <2>7, <2>8, <2>9, <2>10 DEF TimeInv
  <1>8. CASE DatabaseLogs
    <2>1. /\ s \in Pseudonyms /\ Notifies("database", e.kind)
          /\ e.kind = "ClientDisconnected" => k = 2
          /\ \A m \in Pseudonyms : m # s => statistics'[m] = statistics[m]
          /\ e.kind # "ClientDisconnected" => Seconds(s)' = Seconds(s)
          /\ \/ Seconds(s)' = Seconds(s)
             \/ e.kind = "ClientDisconnected"
                  /\ Seconds(s)' <= Seconds(s) + InSeconds(e.connectionDuration)
      <3>1. UNCHANGED statistics => Seconds(s)' = Seconds(s)
        BY DEF Seconds
      <3>2. QED
        BY <1>8, <3>1, TableSteps
    <2>2. \A n : ~About("ClientDisconnected", n, 1)' /\ ~About("ClientDisconnected", n, 2)'
      BY <1>5, <2>1
    <2>3. UNCHANGED clients
      BY <1>8 DEF DatabaseLogs
    <2>4. \A m \in Pseudonyms : m # s => Seconds(m)' = Seconds(m)
      BY <2>1 DEF Seconds
    <2>5. CASE Seconds(s)' = Seconds(s)
      <3>1. \A m \in Pseudonyms : Seconds(m)' = Seconds(m)
        BY <2>4, <2>5
      <3>2. QED
        BY <1>2, <1>3, <2>2, <2>3, <3>1, SecondsFrame
    <2>6. CASE /\ e.kind = "ClientDisconnected"
               /\ Seconds(s)' <= Seconds(s) + InSeconds(e.connectionDuration)
      <3>1. About("ClientDisconnected", s, 2)
        BY <1>1, <2>1, <2>6 DEF About
      <3>2. PeersNamed(s) = {} /\ Seconds(s) + InSeconds(e.connectionDuration) <= InSeconds(now)
        BY <2>1, <3>1 DEF TimeInv
      <3>3. Seconds(s)' <= InSeconds(now)
        <4>1. Seconds(s) \in Nat /\ InSeconds(e.connectionDuration) \in Nat /\ InSeconds(now) \in Nat
          BY <2>1, <3>1, TimeTypes, SecondsGrow
        <4>2. Seconds(s)' \in Nat
          <5>1. TypeInv'
            BY ObserverTyped
          <5>2. statistics' \in [Pseudonyms -> Row \cup {NoRow}]
            BY <5>1 DEF TypeInv, TypeOK, StatisticsTypeOK
          <5>3. statistics'[s] \in Row \cup {NoRow}
            BY <2>1, <5>2
          <5>4. QED
            BY <5>3 DEF Seconds, Row
        <4>3. QED
          BY <2>6, <3>2, <4>1, <4>2
      <3>4. ASSUME NEW t \in Threads, Measured(t), t # o
            PROVE  calls[t].pseudonym # s
        <4>1. /\ o \in Threads /\ Busy(o, "Disconnect") /\ calls[o].pseudonym = s
          BY <1>1, <2>6 DEF Returns, WalkInv, RaisedBy, Busy, Subject
        <4>2. Busy(t, "Disconnect") /\ calls[t].peer # calls[o].peer
          BY <3>4, <4>1 DEF OneDisconnect, Measured
        <4>3. calls[t].peer \in Peers /\ calls[o].peer \in Peers
          BY <4>1, <4>2, CallOfOp DEF Busy, DisconnectCall, TypeInv, TypeOK, ServiceTypeOK, CallsTyped
        <4>4. calls[t].pseudonym \in NamesOf[calls[t].peer] /\ calls[o].pseudonym \in NamesOf[calls[o].peer]
          BY <4>1, <4>2 DEF SessionInv, NamesUsed, Busy
        <4>5. QED
          BY <4>1, <4>2, <4>3, <4>4 DEF NamesAreOwn
      <3>5. ASSUME NEW t \in Threads, Measured(t)'
            PROVE  (Seconds(calls[t].pseudonym) + InSeconds(calls[t].connectionDuration))' <= InSeconds(now)'
        <4>1. calls'[t] = calls[t] /\ Measured(t) /\ calls[t].pseudonym # s
          BY <1>3, <3>4, <3>5
        <4>2. calls[t].pseudonym \in Pseudonyms
          BY <4>1, TimeTypes
        <4>3. statistics'[calls[t].pseudonym] = statistics[calls[t].pseudonym]
          BY <2>1, <4>1, <4>2
        <4>4. Seconds(calls[t].pseudonym) + InSeconds(calls[t].connectionDuration) <= InSeconds(now)
          BY <4>1 DEF TimeInv
        <4>5. QED
          BY <1>2, <4>1, <4>3, <4>4 DEF Seconds, InSeconds
      <3>6. ASSUME NEW p \in Peers, isPeerConnected(p)'
            PROVE  Seconds(clients[p].pseudonym)' <= InSeconds(clients[p].initialTimePoint)'
        <4>1. isPeerConnected(p) /\ clients'[p] = clients[p]
          BY <2>3, <3>6 DEF isPeerConnected
        <4>2. clients[p].pseudonym # s /\ clients[p].pseudonym \in Pseudonyms
          BY <3>2, <4>1, TimeTypes DEF PeersNamed
        <4>3. statistics'[clients[p].pseudonym] = statistics[clients[p].pseudonym]
          BY <2>1, <4>2
        <4>4. Seconds(clients[p].pseudonym) <= InSeconds(clients[p].initialTimePoint)
          BY <4>1 DEF TimeInv
        <4>5. QED
          BY <4>1, <4>3, <4>4 DEF Seconds, InSeconds
      <3>7. \A n \in Pseudonyms : Seconds(n)' <= InSeconds(now)'
        <4>1. InSeconds(now)' = InSeconds(now)
          BY <1>2 DEF InSeconds
        <4>2. QED
          BY <2>4, <3>3, <4>1 DEF TimeInv
      <3>8. QED
        BY <2>2, <3>5, <3>6, <3>7 DEF TimeInv
    <2>7. QED
      BY <2>1, <2>5, <2>6
  <1>9. CASE EventsLog \/ MessagesStore \/ PrivateQueues
    <2>1. PICK x \in {"clientEvents", "messages", "privateMessages"} : Notifies(x, e.kind)
      BY <1>9 DEF EventsLog, MessagesStore, PrivateQueues, Notifies
    <2>2. \A n : ~About("ClientDisconnected", n, 1)' /\ ~About("ClientDisconnected", n, 2)'
      BY <1>5, <2>1
    <2>3. UNCHANGED <<clients, statistics>>
      BY <1>9 DEF EventsLog, MessagesStore, PrivateQueues, statisticsVars
    <2>4. QED
      BY <1>2, <1>4, <2>2, <2>3, TimeFrame
  <1>10. QED
    BY <1>6, <1>7, <1>8, <1>9 DEF ObserverStep

LEMMA CallsTime ==
    ASSUME TypeInv, TimeInv, UNCHANGED <<now, clients, statistics, dispatch>>,
           \/ UNCHANGED calls
           \/ \E t \in Threads, call \in Call : Starts(t, call)
           \/ \E t \in Threads : Ends(t)
    PROVE  TimeInv'
  <1>1. \A u \in Threads : \/ calls'[u] = calls[u]
                           \/ calls'[u] = NoCall
                           \/ calls'[u] # NoCall /\ calls'[u].pc \in {"check", "duration", "lookup"}
    BY DEF Starts, Ends, TypeInv, TypeOK, ServiceTypeOK
  <1>2. \A t \in Threads : Measured(t)' => Measured(t) /\ calls'[t] = calls[t]
    BY <1>1 DEF Measured, Busy
  <1>3. \A t \in Threads : Measured(t)' =>
           Seconds(calls'[t].pseudonym) + InSeconds(calls'[t].connectionDuration) <= InSeconds(now)
    BY <1>2 DEF TimeInv
  <1>4. \A n, k : About("ClientDisconnected", n, k)' <=> About("ClientDisconnected", n, k)
    BY DEF About
  <1>5. QED
    BY <1>3, <1>4, TimeFrame DEF TimeInv

LEMMA NextTime ==
    ASSUME TypeInv, WalkInv, SessionInv, NamesAreOwn, OneDisconnect, TimeInv, [Next]_vars
    PROVE  TimeInv'
  <1>1. CASE Tick /\ UNCHANGED <<serverVars, clientVars>>
    BY <1>1, TickTime
  <1>2. CASE UNCHANGED vars
    BY <1>2, CallsTime DEF vars, serverVars, statisticsVars
  <1>3. ASSUME NEW t \in Threads, DropAnswer(t)
        PROVE  TimeInv'
    BY <1>3, CallsTime DEF DropAnswer, Ends, LocalStep, statisticsVars
  <1>4. ASSUME NEW p \in Peers, UserStep(p) \/ ReplyStep(p)
        PROVE  TimeInv'
    <2>1. UNCHANGED <<now, clients, statistics, dispatch>>
      BY <1>4 DEF UserStep, Login, ConnectTimesOut, Disconnect, CloseWindow, CloseUnused,
                  PrepareClose, SendMessage, Crash, ReplyStep, LoginSucceeded, LoginRejected,
                  Disconnected, MessageSent, LocalStep, statisticsVars
    <2>2. QED
      BY <1>4, <2>1, ClientShape, CallsTime
  <1>5. QED
    BY <1>1, <1>2, <1>3, <1>4, HandlerTime, ObserverTime DEF Next

-----------------------------------------------------------------------------

\* Unless a write failed, the statistics count what the logs hold, whoever
\* competes for a name and whatever overlaps: an observer adds to a log or to
\* the table and the walk to the other, and nobody writes without a row.  With
\* names of their own, no name was connected for longer than has passed.
THEOREM StatisticsRight == Spec => []StatisticsMatchLogs
  <1> DEFINE Sessions == TypeInv /\ WalkInv /\ (NamesAreOwn => SessionInv)
             Table == dbErrors = 0 => CountInv /\ RowInv
             Times == NamesAreOwn => TimeInv /\ OneDisconnect
  <1>1. Init => Table /\ Times
    <2> SUFFICES ASSUME Init
                 PROVE  CountInv /\ RowInv /\ TimeInv /\ OneDisconnect
      OBVIOUS
    <2>1. /\ \A t \in Threads : calls[t] = NoCall
          /\ \A p \in Peers : clients[p] = NoClient
          /\ dispatch = Unlocked /\ now = 0
          /\ clientEvents = <<>> /\ messageHistory = <<>> /\ privateSent = <<>>
          /\ statistics = [n \in Pseudonyms |-> NoRow]
      BY DEF Init, ClockInit, ServiceInit, RegistryInit, MessagesInit, PrivateInit, ClientEventsInit,
             StatisticsInit, DispatcherInit
    <2>2. \A n \in Pseudonyms : CountsAgree(n)
      <3> SUFFICES ASSUME NEW n \in Pseudonyms
                   PROVE  CountsAgree(n)
        OBVIOUS
      <3>1. Arrivals(n) = {} /\ Authored(n) = {} /\ Whispered(n) = {}
        BY <2>1 DEF Arrivals, Authored, Whispered
      <3>2. Cardinality({}) = 0
        BY FS_EmptySet
      <3>3. \A kind, k : Ahead(kind, n, k) = 0
        BY <2>1 DEF Ahead, About
      <3>4. Connections(n) = 0 /\ Messages(n) = 0 /\ statistics[n] = NoRow
        BY <2>1 DEF Connections, Messages
      <3>5. QED
        BY <3>1, <3>2, <3>3, <3>4 DEF CountsAgree
    <2>3. RowInv
      BY <2>1 DEF RowInv, isPeerConnected, Looked, Busy
    <2>4. TimeInv
      <3>1. \A n \in Pseudonyms : Seconds(n) = 0
        BY <2>1 DEF Seconds
      <3>2. InSeconds(now) \in Nat
        BY <2>1, SecondsGrow
      <3>3. QED
        BY <2>1, <3>1, <3>2 DEF TimeInv, isPeerConnected, Measured, Busy, About
    <2>5. OneDisconnect
      BY <2>1 DEF OneDisconnect, Busy
    <2>6. QED
      BY <2>2, <2>3, <2>4, <2>5 DEF CountInv
  <1>2. Sessions /\ Table /\ Times /\ [Next]_vars => Table' /\ Times'
    <2>1. NamesAreOwn' <=> NamesAreOwn
      BY DEF NamesAreOwn
    <2>2. QED
      BY <2>1, NextTable, NextTime, NextOne
  <1>3. Sessions /\ Table /\ Times => StatisticsMatchLogs
    <2> SUFFICES ASSUME Sessions, Table, Times, dispatch = Unlocked, dbErrors = 0,
                        NEW n \in Pseudonyms
                 PROVE  IF Cardinality(Arrivals(n)) = 0
                          THEN statistics[n] = NoRow
                          ELSE /\ statistics[n] # NoRow
                               /\ statistics[n].nb_of_connection = Cardinality(Arrivals(n))
                               /\ statistics[n].tx_messages =
                                    Cardinality(Authored(n)) + Cardinality(Whispered(n))
                               /\ NamesAreOwn =>
                                    statistics[n].cumulated_connection_time_sec <= InSeconds(now)
      BY DEF StatisticsMatchLogs, Occurrences, Arrivals, Authored, Whispered
    <2>1. \A kind, k : Ahead(kind, n, k) = 0
      BY DEF Ahead, About
    <2>2. CountsAgree(n) /\ (NamesAreOwn => Seconds(n) <= InSeconds(now))
      BY DEF CountInv, TimeInv
    <2>3. /\ Cardinality(Arrivals(n)) \in Nat /\ Cardinality(Authored(n)) \in Nat
          /\ Cardinality(Whispered(n)) \in Nat /\ Connections(n) \in Nat /\ Messages(n) \in Nat
      BY CountTypes DEF TypeInv
    <2>4. /\ Connections(n) = Cardinality(Arrivals(n))
          /\ Messages(n) = Cardinality(Authored(n)) + Cardinality(Whispered(n))
          /\ statistics[n] # NoRow => Connections(n) # 0
      BY <2>1, <2>2, <2>3 DEF CountsAgree
    <2>5. QED
      BY <2>2, <2>4 DEF Connections, Messages, Seconds
  <1>4. QED
    BY <1>1, <1>2, <1>3, SessionSafe, PTL DEF Spec

===============================================================================

---------------------------- MODULE ServerProofs ----------------------------
(***************************************************************************)
(* Proofs about the server and its clients, for any number of clients, any *)
(* inputs and any size of the sockets' buffers.                            *)
(***************************************************************************)
EXTENDS Server, SequenceTheorems, WellFoundedInduction, TLAPS

-----------------------------------------------------------------------------
(***************************************************************************)
(* Every step keeps every variable in its type and the sockets within      *)
(* their buffers.                                                          *)
(***************************************************************************)

\* Parts are no whole lines and have no parts.
LEMMA PartsAre ==
    /\ WholeLine \subseteq Line /\ Part \subseteq Line
    /\ \A l : PartsOf(l) \subseteq Part
    /\ \A l \in Part : PartsOf(l) = {}
    /\ PartsOf("blank") = {} /\ "blank" \notin Part /\ "huge" \notin Part
BY DEF Line, WholeLine, Part, PartsOf

\* What is left of lines that have not arrived is nothing, or a part of the first.
LEMMA CutsAre ==
    ASSUME NEW lines \in Seq(Line), NEW rest \in Cuts(lines)
    PROVE  /\ rest \in Seq(Line) /\ Len(rest) <= Len(lines)
           /\ \/ rest = <<>>
              \/ lines # <<>> /\ Len(rest) = 1 /\ rest[1] \in PartsOf(lines[1])
<1>1. CASE rest = <<>>
    <2>1. <<>> \in Seq(Line) /\ Len(<<>>) = 0
        OBVIOUS
    <2> QED
        BY <1>1, <2>1
<1>2. CASE rest # <<>>
    <2>1. lines # <<>> /\ rest \in {<<p>> : p \in PartsOf(Head(lines))}
        BY <1>2 DEF Cuts
    <2>2. PICK p \in PartsOf(Head(lines)) : rest = <<p>>
        BY <2>1
    <2>3. p \in Line
        BY PartsAre
    <2>4. rest \in Seq(Line) /\ Len(rest) = 1 /\ rest[1] = p
        BY <2>2, <2>3
    <2>5. Head(lines) = lines[1] /\ Len(lines) \in Nat \ {0}
        BY <2>1
    <2> QED
        BY <2>1, <2>4, <2>5
<1> QED
    BY <1>1, <1>2

\* Closing connections empties their inboxes.
LEMMA ClosedTypes ==
    ASSUME TypeOK, NEW closing \in SUBSET Client, Closed(closing)
    PROVE  /\ conn' \in [Client -> {"none", "pending", "open", "closed"}]
           /\ reset' \in [Client -> BOOLEAN]
           /\ inbox' \in [Client -> Seq(Line)]
           /\ \A c \in Client : inbox'[c] = IF c \in closing THEN <<>> ELSE inbox[c]
           /\ \A c \in Client : Len(inbox'[c]) \in Nat /\ Len(inbox'[c]) <= Len(inbox[c])
<1>1. conn' \in [Client -> {"none", "pending", "open", "closed"}]
    BY DEF Closed, TypeOK
<1>2. reset' \in [Client -> BOOLEAN]
    BY DEF Closed, TypeOK
<1>3. \A c \in Client : inbox'[c] = IF c \in closing THEN <<>> ELSE inbox[c]
    BY DEF Closed
<1>4. <<>> \in Seq(Line) /\ Len(<<>>) = 0 /\ inbox \in [Client -> Seq(Line)]
    BY DEF TypeOK
<1>5. inbox' \in [Client -> Seq(Line)]
    BY <1>4 DEF Closed
<1>6. \A c \in Client : Len(inbox'[c]) \in Nat /\ Len(inbox'[c]) <= Len(inbox[c])
    <2>1. \A c \in Client : Len(inbox[c]) \in Nat
        BY <1>4
    <2> QED
        BY <1>3, <1>4, <2>1
<1> QED
    BY <1>1, <1>2, <1>3, <1>5, <1>6

\* The bounds survive a step that takes from the sockets.
LEMMA InboxShrinks ==
    ASSUME TypeOK, NEW c \in Client, WithinBounds(c),
           Len(inbox'[c]) <= Len(inbox[c]), Len(inbox'[c]) \in Nat,
           outbox'[c] = outbox[c], client'[c] = client[c],
           \/ place'[c] = place[c] /\ buffered'[c] = buffered[c] /\ ran'[c] = ran[c]
           \/ place'[c] \notin {"executing", "answering"}
    PROVE  WithinBounds(c)'
<1>1. Len(inbox[c]) \in Nat /\ SocketBuffer \in Nat
    BY ServerAssumption DEF TypeOK
<1> QED
    BY <1>1 DEF WithinBounds

LEMMA ProcessTypes ==
    ASSUME TypeOK, Signal \/ AcceptFails \/ ShutDown
    PROVE  TypeOK'
<1>1. CASE Signal
    BY <1>1 DEF TypeOK, WithinBounds, Signal, handler, peer
<1>2. CASE AcceptFails
    BY <1>2 DEF TypeOK, WithinBounds, AcceptFails, handler, peer
<1>3. CASE CloseListener
    <2>1. PICK closing \in SUBSET Client : Closed(closing)
        BY <1>3 DEF CloseListener
    <2>2. \A c \in Client : WithinBounds(c)'
        BY <1>3, <2>1, InboxShrinks, ClosedTypes DEF TypeOK, CloseListener, handler, peer
    <2> QED
        BY <1>3, <2>1, <2>2, ClosedTypes DEF TypeOK, CloseListener, handler, peer
<1>4. CASE Wait
    BY <1>4 DEF TypeOK, WithinBounds, Wait, handler, peer
<1>5. CASE CloseEngine
    BY <1>5 DEF TypeOK, WithinBounds, CloseEngine, handler, peer
<1>6. CASE Exit
    <2>1. PICK closing \in SUBSET Client : Closed(closing)
        BY <1>6 DEF Exit
    <2>2. buffered' \in [Client -> Seq(Line)]
        BY <1>6 DEF Exit
    <2>3. /\ place' \in [Client -> {"none", "reading", "executing", "answering", "done"}]
          /\ \A c \in Client : place'[c] \in {"none", "done"}
        BY <1>6 DEF Exit
    <2>4. \A c \in Client : WithinBounds(c)'
        BY <1>6, <2>1, <2>3, InboxShrinks, ClosedTypes DEF TypeOK, Exit, peer
    <2> QED
        BY <1>6, <2>1, <2>2, <2>3, <2>4, ClosedTypes DEF TypeOK, Exit, peer
<1> QED
    BY <1>1, <1>2, <1>3, <1>4, <1>5, <1>6 DEF ShutDown

\* The goroutine of one connection.
LEMMA HandlerTypes ==
    ASSUME TypeOK, NEW c \in Client, Accept(c) \/ CloseConn(c) \/ Handle(c)
    PROVE  TypeOK'
<1>t. /\ buffered \in [Client -> Seq(Line)] /\ inbox \in [Client -> Seq(Line)]
      /\ ran \in [Client -> Seq([line : Line, outcome : Outcome])]
      /\ outbox \in [Client -> Seq(Response)]
      /\ SocketBuffer \in Nat
    BY ServerAssumption DEF TypeOK
<1>1. CASE Accept(c)
    BY <1>1 DEF TypeOK, WithinBounds, Accept, server, peer
<1>2. CASE CloseConn(c)
    <2>1. Closed({c})
        BY <1>2 DEF CloseConn
    <2>2. PICK rest \in Cuts(inbox[c]) : buffered' = [buffered EXCEPT ![c] = @ \o rest]
        BY <1>2 DEF CloseConn
    <2>3. /\ buffered[c] \o rest \in Seq(Line)
          /\ buffered[c] # <<>> => buffered[c] \o rest # <<>>
        <3>1. buffered[c] \in Seq(Line) /\ rest \in Seq(Line)
            BY <1>t, CutsAre
        <3>2. buffered[c] \o rest \in Seq(Line) /\ Len(buffered[c] \o rest) = Len(buffered[c]) + Len(rest)
            BY <3>1, ConcatProperties
        <3> QED
            BY <3>1, <3>2, EmptySeq, LenProperties
    <2>4. buffered' \in [Client -> Seq(Line)]
        BY <1>t, <2>2, <2>3
    <2>5. \A d \in Client : buffered[d] # <<>> => buffered'[d] # <<>>
        BY <1>t, <2>2, <2>3
    <2>6. ASSUME NEW d \in Client PROVE WithinBounds(d)'
        <3>1. WithinBounds(d) /\ Len(inbox[d]) \in Nat
            BY <1>t DEF TypeOK
        <3>2. Len(inbox'[d]) \in Nat /\ Len(inbox'[d]) <= Len(inbox[d])
            BY <2>1, ClosedTypes
        <3> QED
            BY <1>2, <1>t, <2>5, <3>1, <3>2 DEF WithinBounds, CloseConn, peer
    <2> QED
        BY <1>2, <2>1, <2>4, <2>6, ClosedTypes DEF TypeOK, CloseConn, server, peer
<1>3. CASE Read(c)
    <2>1. PICK n \in 1..Len(inbox[c]) :
            /\ buffered' = [buffered EXCEPT ![c] = SubSeq(inbox[c], 1, n)]
            /\ inbox' = [inbox EXCEPT ![c] = SubSeq(@, n + 1, Len(@))]
        BY <1>3 DEF Read
    <2>2. /\ SubSeq(inbox[c], 1, n) \in Seq(Line)
          /\ SubSeq(inbox[c], n + 1, Len(inbox[c])) \in Seq(Line)
          /\ Len(SubSeq(inbox[c], n + 1, Len(inbox[c]))) <= Len(inbox[c])
        BY <1>t
    <2>3. buffered' \in [Client -> Seq(Line)] /\ inbox' \in [Client -> Seq(Line)]
        BY <1>t, <2>1, <2>2
    <2>4. \A d \in Client : Len(inbox'[d]) <= Len(inbox[d]) /\ Len(inbox'[d]) \in Nat
        BY <1>t, <2>1, <2>2, <2>3
    <2>5. \A d \in Client : place[d] = "executing" => buffered'[d] = buffered[d]
        BY <1>3, <1>t, <2>1 DEF Read
    <2>6. ASSUME NEW d \in Client PROVE WithinBounds(d)'
        <3>1. WithinBounds(d) /\ Len(inbox[d]) \in Nat
            BY <1>t DEF TypeOK
        <3> QED
            BY <1>3, <1>t, <2>4, <2>5, <3>1, SMTT(30) DEF WithinBounds, Read, peer
    <2> QED
        BY <1>3, <2>3, <2>6 DEF TypeOK, Read, server, peer
<1>4. CASE Scan(c)
    <2>1. CASE Skipped(Head(buffered[c]))
        <3>1. Tail(buffered[c]) \in Seq(Line)
            BY <1>4, <1>t DEF Scan
        <3>2. buffered' \in [Client -> Seq(Line)]
            BY <1>4, <1>t, <2>1, <3>1 DEF Scan
        <3> QED
            BY <1>4, <2>1, <3>2 DEF TypeOK, WithinBounds, Scan, server, peer
    <2>2. CASE ~Skipped(Head(buffered[c]))
        <3>1. late' \in [Client -> Nat]
            <4>1. late \in [Client -> Nat]
                BY DEF TypeOK
            <4>2. late' = [late EXCEPT ![c] = late'[c]] /\ late'[c] \in {late[c], late[c] + 1}
                BY <1>4, <2>2, <4>1 DEF Scan
            <4> QED
                BY <4>1, <4>2
        <3> QED
            BY <1>4, <2>2, <3>1 DEF TypeOK, WithinBounds, Scan, server, peer
    <2> QED
        BY <2>1, <2>2
<1>5. ASSUME Return(c) PROVE TypeOK'
    <2>1. Closed({c}) /\ buffered' \in [Client -> Seq(Line)]
        BY <1>5, <1>t DEF Return
    <2>2. \A d \in Client : WithinBounds(d)'
        BY <1>5, <2>1, InboxShrinks, ClosedTypes, ZenonT(30) DEF TypeOK, Return, peer
    <2> QED
        BY <1>5, <2>1, <2>2, ClosedTypes DEF TypeOK, Return, server, peer
<1>6. ASSUME NEW outcome \in Outcome, Executing(c), Executed(c, outcome),
             txn' \in [Client -> BOOLEAN],
             UNCHANGED <<server, late, peer, conn, inbox, outbox, reset>>
      PROVE  TypeOK'
    <2>1. buffered[c] # <<>> /\ buffered[c] \in Seq(Line)
        BY <1>6, <1>t DEF TypeOK, WithinBounds, Executing
    <2>2. Tail(buffered[c]) \in Seq(Line) /\ Head(buffered[c]) \in Line
        BY <2>1
    <2>3. /\ Append(ran[c], [line |-> Head(buffered[c]), outcome |-> outcome])
                \in Seq([line : Line, outcome : Outcome])
          /\ Append(ran[c], [line |-> Head(buffered[c]), outcome |-> outcome]) # <<>>
        <3>1. [line |-> Head(buffered[c]), outcome |-> outcome] \in [line : Line, outcome : Outcome]
            BY <2>2
        <3>2. ran[c] \in Seq([line : Line, outcome : Outcome])
            BY <1>t
        <3> QED
            BY <3>1, <3>2, AppendProperties, SMTT(30)
    <2>4. ran' \in [Client -> Seq([line : Line, outcome : Outcome])] /\ ran'[c] # <<>>
        BY <1>6, <1>t, <2>3 DEF Executed
    <2>5. buffered' \in [Client -> Seq(Line)]
        BY <1>6, <1>t, <2>2 DEF Executed
    <2>6. \A d \in Client : WithinBounds(d)'
        BY <1>6, <1>t, <2>4 DEF TypeOK, WithinBounds, Executed, peer
    <2> QED
        BY <1>6, <2>4, <2>5, <2>6 DEF TypeOK, Executed, server, peer
<1>7. CASE Begin(c)
    BY <1>7 DEF TypeOK, WithinBounds, Begin, server, peer
<1>8. CASE Answer(c)
    <2>1. ran[c] # <<>> /\ ResponseTo(Last(ran[c])) \in Response
        BY <1>8 DEF TypeOK, WithinBounds, Answer, ResponseTo, Response
    <2>2. /\ Append(outbox[c], ResponseTo(Last(ran[c]))) \in Seq(Response)
          /\ Len(Append(outbox[c], ResponseTo(Last(ran[c])))) = Len(outbox[c]) + 1
        BY <1>t, <2>1
    <2>3. outbox' \in [Client -> Seq(Response)]
        BY <1>8, <1>t, <2>2 DEF Answer
    <2>4. \A d \in Client : Len(outbox'[d]) <= SocketBuffer
        BY <1>8, <1>t, <2>2 DEF Answer, TypeOK, WithinBounds
    <2>5. \A d \in Client : WithinBounds(d)'
        BY <1>8, <2>4 DEF TypeOK, WithinBounds, Answer, peer
    <2> QED
        BY <1>8, <2>3, <2>5 DEF TypeOK, Answer, server, peer
<1>9. CASE Refuse(c) \/ EndStatement(c) \/ EngineIsGone(c)
    BY <1>6, <1>9 DEF Refuse, EndStatement, EngineIsGone, Outcome, TypeOK
<1> QED
    BY <1>1, <1>2, <1>3, <1>4, <1>5, <1>7, <1>8, <1>9 DEF Handle, EndOfInput, AnswerFails

\* The client.
LEMMA ClientTypes ==
    ASSUME TypeOK, NEW c \in Client, Dial(c) \/ RunClient(c) \/ Die(c)
    PROVE  TypeOK'
<1>t. /\ unsent \in [Client -> Seq(WholeLine)] /\ inbox \in [Client -> Seq(Line)]
      /\ received \in [Client -> Seq(Response)] /\ outbox \in [Client -> Seq(Response)]
      /\ client \in [Client -> {"off", "sending", "waiting", "ended", "dead"}]
      /\ SocketBuffer \in Nat
    BY ServerAssumption DEF TypeOK
<1>1. CASE Dial(c)
    BY <1>1, <1>t DEF TypeOK, WithinBounds, Dial, server, handler
<1>2. CASE Send(c)
    <2>1. /\ Append(inbox[c], Head(unsent[c])) \in Seq(Line)
          /\ Len(Append(inbox[c], Head(unsent[c]))) = Len(inbox[c]) + 1
          /\ Tail(unsent[c]) \in Seq(WholeLine)
        BY <1>2, <1>t, PartsAre DEF Send
    <2>2. inbox' \in [Client -> Seq(Line)] /\ unsent' \in [Client -> Seq(WholeLine)]
        BY <1>2, <1>t, <2>1 DEF Send
    <2>3. \A d \in Client : WithinBounds(d)'
        BY <1>2, <1>t, <2>1, SMTT(30) DEF TypeOK, WithinBounds, Send, handler
    <2> QED
        BY <1>2, <2>2, <2>3 DEF TypeOK, Send, server, handler
<1>3. CASE StopSending(c)
    BY <1>3, <1>t DEF TypeOK, WithinBounds, StopSending, server, handler
<1>4. CASE Receive(c)
    <2>1. /\ Append(received[c], Head(outbox[c])) \in Seq(Response)
          /\ Tail(outbox[c]) \in Seq(Response) /\ Len(Tail(outbox[c])) <= Len(outbox[c])
        BY <1>4, <1>t DEF Receive
    <2>2. received' \in [Client -> Seq(Response)] /\ outbox' \in [Client -> Seq(Response)]
        BY <1>4, <1>t, <2>1 DEF Receive
    <2>3. \A d \in Client : WithinBounds(d)'
        BY <1>4, <1>t, <2>1, <2>2 DEF TypeOK, WithinBounds, Receive, handler
    <2> QED
        BY <1>4, <2>2, <2>3 DEF TypeOK, Receive, server, handler
<1>5. CASE End(c)
    <2>1. outbox' \in [Client -> Seq(Response)] /\ outbox'[c] = <<>>
        <3>1. outbox' = [outbox EXCEPT ![c] = <<>>]
            BY <1>5 DEF End
        <3>2. <<>> \in Seq(Response)
            OBVIOUS
        <3> QED
            BY <1>t, <3>1, <3>2
    <2>2. ASSUME NEW d \in Client PROVE WithinBounds(d)'
        <3>1. WithinBounds(d)
            BY DEF TypeOK
        <3>2. CASE d = c
            BY <1>5, <1>t, <2>1, <3>1, <3>2 DEF WithinBounds, End, handler
        <3>3. CASE d # c
            BY <1>5, <1>t, <3>1, <3>3 DEF WithinBounds, End, handler
        <3> QED
            BY <3>2, <3>3
    <2> QED
        BY <1>5, <2>1, <2>2 DEF TypeOK, End, server, handler
<1>6. CASE Die(c)
    <2> DEFINE sent == inbox[c] \o (IF unsent[c] = <<>> THEN <<>> ELSE <<Head(unsent[c])>>)
    <2>1. PICK n \in 0..Len(sent) : \E rest \in Cuts(SubSeq(sent, n + 1, Len(sent))) :
            inbox' = [inbox EXCEPT ![c] = SubSeq(sent, 1, n) \o rest]
        BY <1>6, Zenon DEF Die
    <2>a. PICK rest \in Cuts(SubSeq(sent, n + 1, Len(sent))) :
            inbox' = [inbox EXCEPT ![c] = SubSeq(sent, 1, n) \o rest]
        BY <2>1, Zenon
    <2>2. sent \in Seq(Line) /\ Len(sent) <= Len(inbox[c]) + 1
        BY <1>t, PartsAre
    <2> HIDE DEF sent
    <2> DEFINE got == SubSeq(sent, 1, n) \o rest
    <2>3. got \in Seq(Line) /\ Len(got) <= Len(sent)
        <3>1. SubSeq(sent, 1, n) \in Seq(Line) /\ Len(SubSeq(sent, 1, n)) = n
            BY <2>2
        <3>2. /\ SubSeq(sent, n + 1, Len(sent)) \in Seq(Line)
              /\ Len(SubSeq(sent, n + 1, Len(sent))) = Len(sent) - n
            BY <2>2
        <3>3. rest \in Seq(Line) /\ Len(rest) <= Len(sent) - n
            BY <3>2, CutsAre
        <3> QED
            BY <2>2, <3>1, <3>3, ConcatProperties
    <2> HIDE DEF got
    <2>4. inbox' \in [Client -> Seq(Line)] /\ Len(inbox'[c]) <= Len(inbox[c]) + 1
        BY <1>t, <2>a, <2>2, <2>3 DEF got
    <2>5. outbox' \in [Client -> Seq(Response)] /\ outbox'[c] = <<>>
        <3>1. outbox' = [outbox EXCEPT ![c] = <<>>]
            BY <1>6 DEF Die
        <3>2. <<>> \in Seq(Response)
            OBVIOUS
        <3> QED
            BY <1>t, <3>1, <3>2
    <2>6. ASSUME NEW d \in Client PROVE WithinBounds(d)'
        <3>1. WithinBounds(d) /\ Len(inbox[d]) \in Nat /\ Len(inbox'[d]) \in Nat
            <4>1. WithinBounds(d)
                BY DEF TypeOK
            <4>2. inbox[d] \in Seq(Line) /\ inbox'[d] \in Seq(Line)
                BY <1>t, <2>4
            <4> QED
                BY <4>1, <4>2
        <3>2. CASE d = c
            <4>1. client'[c] = "dead" /\ client[c] # "dead"
                BY <1>6, <1>t DEF Die
            <4> QED
                BY <1>6, <1>t, <2>4, <2>5, <3>1, <3>2, <4>1 DEF WithinBounds, Die, handler
        <3>3. CASE d # c
            BY <1>6, <1>t, <2>a, <3>1, <3>3 DEF WithinBounds, Die, handler
        <3> QED
            BY <3>2, <3>3
    <2> QED
        BY <1>6, <2>4, <2>5, <2>6 DEF TypeOK, Die, server, handler
<1> QED
    BY <1>1, <1>2, <1>3, <1>4, <1>5, <1>6 DEF RunClient

LEMMA StepTypes == TypeOK /\ [Next]_vars => TypeOK'
<1>1. TypeOK /\ UNCHANGED vars => TypeOK'
    BY DEF TypeOK, WithinBounds, vars, server, handler, peer
<1> QED
    BY <1>1, ProcessTypes, HandlerTypes, ClientTypes DEF Next

LEMMA InitTypes == Init => TypeOK
<1> SUFFICES ASSUME Init PROVE TypeOK
    OBVIOUS
<1>1. \A S : <<>> \in Seq(S)
    OBVIOUS
<1>2. /\ script \in [Client -> Seq(WholeLine)]
      /\ unsent \in [Client -> Seq(WholeLine)]
    BY ServerAssumption DEF Init
<1>3. /\ inbox \in [Client -> Seq(Line)] /\ buffered \in [Client -> Seq(Line)]
      /\ outbox \in [Client -> Seq(Response)] /\ received \in [Client -> Seq(Response)]
      /\ ran \in [Client -> Seq([line : Line, outcome : Outcome])]
    BY <1>1 DEF Init
<1>4. \A c \in Client : WithinBounds(c)
    BY ServerAssumption DEF Init, WithinBounds
<1>5. /\ late \in [Client -> Nat] /\ txn \in [Client -> BOOLEAN] /\ reset \in [Client -> BOOLEAN]
      /\ conn \in [Client -> {"none", "pending", "open", "closed"}]
      /\ place \in [Client -> {"none", "reading", "executing", "answering", "done"}]
      /\ client \in [Client -> {"off", "sending", "waiting", "ended", "dead"}]
    BY DEF Init
<1> QED
    BY <1>2, <1>3, <1>4, <1>5 DEF TypeOK, Init

(***************************************************************************)
(* Every variable keeps its type in every behaviour, and no socket ever    *)
(* holds more than its buffer (and, of a client that has died, the line it *)
(* was sending).                                                           *)
(***************************************************************************)
THEOREM TypeCorrect == Spec => []TypeOK
BY InitTypes, StepTypes, PTL DEF Spec

-----------------------------------------------------------------------------
(***************************************************************************)
(* The lines of an input that are not blank.                               *)
(***************************************************************************)

\* The recursive definition has a solution: a least length up to which there
\* is none cannot be.
LEMMA NonBlankDef ==
    ASSUME NEW input \in Seq(Line)
    PROVE  NonBlank(input) =
            [n \in 0..Len(input) |->
                IF n = 0 THEN <<>>
                ELSE IF input[n] = "blank" THEN NonBlank(input)[n - 1]
                     ELSE Append(NonBlank(input)[n - 1], input[n])]
<1> DEFINE Step(f, n) == IF n = 0 THEN <<>>
                         ELSE IF input[n] = "blank" THEN f[n - 1] ELSE Append(f[n - 1], input[n])
           Solves(f, m) == f = [n \in 0..m |-> Step(f, n)]
           Missing == {m \in Nat : ~ \E f : Solves(f, m)}
           Less == OpToRel(<, Nat)
<1>1. Missing = {}
    <2> SUFFICES ASSUME Missing # {} PROVE FALSE
        OBVIOUS
    <2>1. IsWellFoundedOn(Less, Nat)
        BY NatLessThanWellFounded
    <2>2. \A i, j \in Nat : i < j => <<i, j>> \in Less
        BY DEF OpToRel
    <2>3. Missing \subseteq Nat
        OBVIOUS
    <2>4. PICK m \in Missing : \A i \in Missing : ~(<<i, m>> \in Less)
        <3> HIDE DEF Less, Missing
        <3> QED BY <2>1, <2>3, WFMin
    <2>5. m \in Nat /\ ~ \E f : Solves(f, m)
        BY <2>4
    <2>6. m # 0
        <3>1. Solves([n \in 0..0 |-> <<>>], 0)
            OBVIOUS
        <3> QED
            <4> HIDE DEF Solves
            <4> QED BY <2>5, <3>1
    <2>7. m - 1 \in Nat /\ m - 1 \notin Missing
        <3>1. m - 1 \in Nat /\ m - 1 < m
            BY <2>5, <2>6
        <3> HIDE DEF Missing, Less
        <3> QED
            BY <2>2, <2>4, <2>5, <3>1
    <2>8. PICK f : Solves(f, m - 1)
        <3> HIDE DEF Solves
        <3> QED BY <2>7
    <2> DEFINE g == [n \in 0..m |-> Step(f, n)]
    <2>9. \A n \in 0..(m - 1) : g[n] = f[n]
        <3> HIDE DEF Step
        <3>1. \A n \in 0..(m - 1) : n \in 0..m
            BY <2>5
        <3>2. \A n \in 0..(m - 1) : f[n] = Step(f, n)
            BY <2>8
        <3> QED BY <3>1, <3>2
    <2>10. \A n \in 0..m : Step(g, n) = Step(f, n)
        <3>1. \A n \in 0..m : n # 0 => n - 1 \in 0..(m - 1)
            BY <2>5
        <3>2. \A n \in 0..m : n # 0 => g[n - 1] = f[n - 1]
            <4> HIDE DEF g
            <4> QED BY <2>9, <3>1
        <3> HIDE DEF g
        <3> QED BY <3>2
    <2>11. Solves(g, m)
        <3> HIDE DEF Step
        <3> QED BY <2>10
    <2> QED
        <3> HIDE DEF Solves, g
        <3> QED BY <2>5, <2>11
<1>2. NonBlank(input) = CHOOSE f : Solves(f, Len(input))
    BY DEF NonBlank
<1>3. Len(input) \in Nat
    OBVIOUS
<1>4. \E f : Solves(f, Len(input))
    <2> HIDE DEF Solves
    <2> QED BY <1>1, <1>3
<1>5. Solves(NonBlank(input), Len(input))
    <2> HIDE DEF Solves
    <2> QED BY <1>2, <1>4
<1> QED
    BY <1>5

LEMMA NonBlankStep ==
    ASSUME NEW input \in Seq(Line)
    PROVE  /\ NonBlank(input)[0] = <<>>
           /\ \A n \in 1..Len(input) :
                NonBlank(input)[n] = IF input[n] = "blank" THEN NonBlank(input)[n - 1]
                                     ELSE Append(NonBlank(input)[n - 1], input[n])
<1>1. Len(input) \in Nat
    OBVIOUS
<1> DEFINE K == NonBlank(input)
<1>2. K = [n \in 0..Len(input) |->
            IF n = 0 THEN <<>> ELSE IF input[n] = "blank" THEN K[n - 1] ELSE Append(K[n - 1], input[n])]
    BY NonBlankDef
<1> HIDE DEF K
<1>3. \A n \in 0..Len(input) :
        K[n] = IF n = 0 THEN <<>> ELSE IF input[n] = "blank" THEN K[n - 1] ELSE Append(K[n - 1], input[n])
    BY <1>2
<1>4. K[0] = <<>>
    BY <1>1, <1>3
<1>5. \A n \in 1..Len(input) : K[n] = IF input[n] = "blank" THEN K[n - 1] ELSE Append(K[n - 1], input[n])
    BY <1>1, <1>3
<1> QED
    BY <1>4, <1>5 DEF K

\* They are lines, and what is kept of the first n of them stays kept.
LEMMA NonBlankGrows ==
    ASSUME NEW input \in Seq(Line), NEW n \in 0..Len(input)
    PROVE  /\ NonBlank(input)[n] \in Seq(Line)
           /\ \A m \in 0..n :
                /\ Len(NonBlank(input)[m]) <= Len(NonBlank(input)[n])
                /\ \A i \in 1..Len(NonBlank(input)[m]) : NonBlank(input)[n][i] = NonBlank(input)[m][i]
<1> DEFINE K == NonBlank(input)
           Good(j) == /\ K[j] \in Seq(Line)
                      /\ \A m \in 0..j : /\ Len(K[m]) <= Len(K[j])
                                         /\ \A i \in 1..Len(K[m]) : K[j][i] = K[m][i]
           Bad == {j \in 0..Len(input) : ~Good(j)}
           Less == OpToRel(<, Nat)
<1>1. /\ Len(input) \in Nat /\ \A j \in 1..Len(input) : input[j] \in Line
      /\ K[0] = <<>>
      /\ \A j \in 1..Len(input) :
            K[j] = IF input[j] = "blank" THEN K[j - 1] ELSE Append(K[j - 1], input[j])
    BY NonBlankStep
<1> HIDE DEF K
<1> SUFFICES ASSUME Bad # {} PROVE FALSE
    BY DEF K
<1>2. IsWellFoundedOn(Less, Nat)
    BY NatLessThanWellFounded
<1>3. \A i, j \in Nat : i < j => <<i, j>> \in Less
    BY DEF OpToRel
<1>4. Bad \subseteq Nat
    OBVIOUS
<1>5. PICK j \in Bad : \A i \in Bad : ~(<<i, j>> \in Less)
    <2> HIDE DEF Less, Bad
    <2> QED BY <1>2, <1>4, WFMin
<1>6. j \in 0..Len(input) /\ ~Good(j)
    BY <1>5
<1>7. CASE j = 0
    <2>1. Good(0)
        BY <1>1
    <2> HIDE DEF Good
    <2> QED BY <1>6, <1>7, <2>1
<1>8. CASE j # 0
    <2>1. j - 1 \in 0..Len(input) /\ j \in 1..Len(input) /\ j - 1 \in Nat /\ j \in Nat /\ j - 1 < j
        BY <1>1, <1>6, <1>8
    <2>2. Good(j - 1)
        <3> HIDE DEF Good, Less
        <3>1. j - 1 \notin Bad
            BY <1>3, <1>5, <2>1
        <3> QED BY <2>1, <3>1
    <2>3. K[j - 1] \in Seq(Line)
        BY <2>2
    <2>4. K[j] \in Seq(Line) /\ Len(K[j - 1]) <= Len(K[j])
          /\ \A i \in 1..Len(K[j - 1]) : K[j][i] = K[j - 1][i]
        <3>1. CASE input[j] = "blank"
            BY <1>1, <2>1, <2>3, <3>1
        <3>2. CASE input[j] # "blank"
            <4>1. K[j] = Append(K[j - 1], input[j]) /\ input[j] \in Line
                BY <1>1, <2>1, <3>2
            <4> QED
                BY <2>3, <4>1, AppendProperties
        <3> QED
            BY <3>1, <3>2
    <2>5. ASSUME NEW m \in 0..j
          PROVE  Len(K[m]) <= Len(K[j]) /\ \A i \in 1..Len(K[m]) : K[j][i] = K[m][i]
        <3>1. CASE m = j
            BY <2>4, <3>1
        <3>2. CASE m # j
            <4>1. m \in 0..(j - 1)
                BY <2>1, <3>2
            <4>2. Len(K[m]) <= Len(K[j - 1]) /\ \A i \in 1..Len(K[m]) : K[j - 1][i] = K[m][i]
                BY <2>2, <4>1
            <4>3. Len(K[m]) \in Nat
                <5>1. m \in 0..Len(input) /\ m \in Nat /\ m < j
                    BY <1>6, <2>1, <4>1
                <5>2. m \notin Bad
                    <6> HIDE DEF Bad, Less
                    <6> QED BY <1>3, <1>5, <2>1, <5>1
                <5> QED
                    BY <5>1, <5>2
            <4> QED
                BY <2>3, <2>4, <4>2, <4>3
        <3> QED
            BY <3>1, <3>2
    <2> QED
        BY <1>6, <2>4, <2>5
<1> QED
    BY <1>7, <1>8

-----------------------------------------------------------------------------
(***************************************************************************)
(* The inductive invariant, part by part.                                  *)
(***************************************************************************)

\* What the three ways for a statement to end have in common: only a whole
\* one commits, and only after an error of Accept is one left behind.
LEMMA StatementEnds ==
    ASSUME IndInv, NEW c \in Client, Refuse(c) \/ EndStatement(c) \/ EngineIsGone(c)
    PROVE  \E outcome \in Outcome :
            /\ place[c] = "executing" /\ buffered[c] # <<>> /\ Executed(c, outcome)
            /\ txn' = [txn EXCEPT ![c] = FALSE]
            /\ outcome = "committed" => Parses(Head(buffered[c]))
            /\ outcome = "dangling" => serve = "failed"
            /\ UNCHANGED <<server, late, peer, conn, inbox, outbox, reset>>
<1>1. Executing(c) => place[c] = "executing" /\ buffered[c] # <<>>
    BY DEF IndInv, TypeOK, WithinBounds, Executing
<1>2. CASE Refuse(c)
    <2>1. txn' = [txn EXCEPT ![c] = FALSE]
        BY <1>2 DEF Refuse, IndInv, TypeOK
    <2> QED
        BY <1>1, <1>2, <2>1 DEF Refuse, Outcome
<1>3. CASE EndStatement(c)
    BY <1>1, <1>3 DEF EndStatement, Outcome, IndInv, TxnInStatement, Executing
<1>4. CASE EngineIsGone(c)
    BY <1>1, <1>4 DEF EngineIsGone, Outcome, IndInv, TxnInStatement, Executing
<1> QED
    BY <1>2, <1>3, <1>4

\* Serve waits for every goroutine, and none is started after it.
LEMMA OrderStep ==
    ASSUME IndInv, [Next]_vars
    PROVE  Order'
<1> USE DEF Order, WaitIsOver, InHandler
<1>0. TypeOK /\ Order
    BY DEF IndInv
<1>1. CASE Signal \/ AcceptFails \/ Wait \/ CloseEngine \/ CloseListener \/ UNCHANGED vars
    BY <1>0, <1>1
       DEF Signal, AcceptFails, Wait, CloseEngine, CloseListener, vars, server, handler
<1>2. CASE Exit
    BY <1>0, <1>2 DEF Exit
<1>3. ASSUME NEW c \in Client, Accept(c) PROVE Order'
    BY <1>0, <1>3 DEF Accept, server
<1>4. ASSUME NEW c \in Client, Read(c) \/ Begin(c) \/ CloseConn(c) PROVE Order'
    BY <1>0, <1>4 DEF Read, Begin, CloseConn, server
<1>5. ASSUME NEW c \in Client, Scan(c) PROVE Order'
    BY <1>0, <1>5 DEF Scan, server
<1>6. ASSUME NEW c \in Client, EndOfInput(c) \/ AnswerFails(c) PROVE Order'
    BY <1>0, <1>6 DEF EndOfInput, AnswerFails, Return, server
<1>7. ASSUME NEW c \in Client, Refuse(c) \/ EndStatement(c) \/ EngineIsGone(c) PROVE Order'
    BY <1>0, <1>7 DEF Refuse, EndStatement, EngineIsGone, Executing, Executed, server
<1>8. ASSUME NEW c \in Client, Answer(c) PROVE Order'
    BY <1>0, <1>8 DEF Answer, server
<1>9. ASSUME NEW c \in Client, Dial(c) \/ RunClient(c) \/ Die(c) PROVE Order'
    <2>1. UNCHANGED <<server, handler>>
        BY <1>9 DEF Dial, RunClient, Send, StopSending, Receive, End, Die
    <2> QED
        BY <1>0, <2>1 DEF server, handler
<1> QED
    BY <1>1, <1>2, <1>3, <1>4, <1>5, <1>6, <1>7, <1>8, <1>9 DEF Next, ShutDown, Handle

LEMMA LifecycleStep ==
    ASSUME IndInv, [Next]_vars, NEW d \in Client
    PROVE  Lifecycle(d)'
<1> USE DEF Lifecycle
<1>0. TypeOK /\ Lifecycle(d)
    BY DEF IndInv
<1>1. CASE Signal \/ AcceptFails \/ Wait \/ CloseEngine \/ UNCHANGED vars
    BY <1>0, <1>1 DEF Signal, AcceptFails, Wait, CloseEngine, vars, server, handler, peer
<1>2. CASE CloseListener
    BY <1>0, <1>2 DEF CloseListener, Closed, handler, peer
<1>3. CASE Exit
    BY <1>0, <1>3 DEF Exit, Closed, peer, TypeOK
<1>4. ASSUME NEW c \in Client, Accept(c) PROVE Lifecycle(d)'
    BY <1>0, <1>4 DEF Accept, TypeOK, peer
<1>5. ASSUME NEW c \in Client, CloseConn(c) PROVE Lifecycle(d)'
    BY <1>0, <1>5 DEF CloseConn, ConnMustClose, InHandler, Closed, TypeOK, peer
<1>6. ASSUME NEW c \in Client, Read(c) PROVE Lifecycle(d)'
    BY <1>0, <1>6 DEF Read, TypeOK, peer
<1>7. ASSUME NEW c \in Client, Scan(c) PROVE Lifecycle(d)'
    BY <1>0, <1>7 DEF Scan, TypeOK, peer
<1>8. ASSUME NEW c \in Client, EndOfInput(c) \/ AnswerFails(c) PROVE Lifecycle(d)'
    BY <1>0, <1>8, SMTT(30) DEF EndOfInput, AnswerFails, Return, Closed, TypeOK, peer
<1>9. ASSUME NEW c \in Client, Refuse(c) \/ EndStatement(c) \/ EngineIsGone(c)
      PROVE  Lifecycle(d)'
    BY <1>0, <1>9, SMTT(30) DEF Refuse, EndStatement, EngineIsGone, Executing, Executed, TypeOK, peer
<1>10. ASSUME NEW c \in Client, Begin(c) \/ Answer(c) PROVE Lifecycle(d)'
    BY <1>0, <1>10, SMTT(30) DEF Begin, Answer, TypeOK, peer
<1>11. ASSUME NEW c \in Client, Dial(c) PROVE Lifecycle(d)'
    BY <1>0, <1>11 DEF Dial, TypeOK, handler
<1>12. ASSUME NEW c \in Client, Send(c) \/ StopSending(c) PROVE Lifecycle(d)'
    BY <1>0, <1>12, ZenonT(30) DEF Send, StopSending, TypeOK, handler
<1>13. ASSUME NEW c \in Client, Receive(c) \/ End(c) PROVE Lifecycle(d)'
    BY <1>0, <1>13, SMTT(30) DEF Receive, End, TypeOK, handler
<1>14. ASSUME NEW c \in Client, Die(c) PROVE Lifecycle(d)'
    BY <1>0, <1>14 DEF Die, TypeOK, handler
<1> QED
    BY <1>1, <1>2, <1>3, <1>4, <1>5, <1>6, <1>7, <1>8, <1>9, <1>10, <1>11, <1>12, <1>13, <1>14
       DEF Next, ShutDown, Handle, RunClient

LEMMA LateStep ==
    ASSUME IndInv, [Next]_vars, NEW d \in Client
    PROVE  LateOnce(d)'
<1> USE DEF LateOnce
<1>0. TypeOK /\ LateOnce(d) /\ Lifecycle(d)
    BY DEF IndInv
<1>1. CASE Signal \/ AcceptFails \/ Wait \/ CloseEngine \/ UNCHANGED vars
    BY <1>0, <1>1 DEF Signal, AcceptFails, Wait, CloseEngine, vars, server, handler, peer
<1>2. CASE CloseListener
    BY <1>0, <1>2 DEF CloseListener, Closed, handler, peer
<1>3. CASE Exit
    BY <1>0, <1>3 DEF Exit, Closed, peer, TypeOK
<1>4. ASSUME NEW c \in Client, Accept(c) \/ CloseConn(c) \/ Read(c) \/ Begin(c) PROVE LateOnce(d)'
    BY <1>0, <1>4 DEF Accept, CloseConn, Read, Begin, Closed, TypeOK, peer
<1>5. ASSUME NEW c \in Client, Scan(c) PROVE LateOnce(d)'
    BY <1>0, <1>5 DEF Scan, TypeOK, peer
<1>6. ASSUME NEW c \in Client, EndOfInput(c) \/ AnswerFails(c) PROVE LateOnce(d)'
    BY <1>0, <1>6 DEF EndOfInput, AnswerFails, Return, Closed, TypeOK, peer
<1>7. ASSUME NEW c \in Client, Refuse(c) \/ EndStatement(c) \/ EngineIsGone(c) PROVE LateOnce(d)'
    BY <1>0, <1>7 DEF Refuse, EndStatement, EngineIsGone, Executing, Executed, TypeOK, peer
<1>8. ASSUME NEW c \in Client, Answer(c) PROVE LateOnce(d)'
    BY <1>0, <1>8 DEF Answer, TypeOK, peer
<1>9. ASSUME NEW c \in Client, Dial(c) PROVE LateOnce(d)'
    BY <1>0, <1>9 DEF Dial, Lifecycle, TypeOK, handler
<1>10. ASSUME NEW c \in Client, RunClient(c) \/ Die(c) PROVE LateOnce(d)'
    BY <1>0, <1>10 DEF RunClient, Send, StopSending, Receive, End, Die, handler
<1> QED
    BY <1>1, <1>2, <1>3, <1>4, <1>5, <1>6, <1>7, <1>8, <1>9, <1>10 DEF Next, ShutDown, Handle

\* Executing the first pending line: it goes from the buffer to the end of ran.
LEMMA ExecutedSeqs ==
    ASSUME TypeOK, NEW c \in Client, NEW outcome \in Outcome, buffered[c] # <<>>,
           Executed(c, outcome)
    PROVE  /\ Len(ran'[c]) = Len(ran[c]) + 1
           /\ \A i \in 1..Len(ran[c]) : ran'[c][i] = ran[c][i]
           /\ ran'[c][Len(ran[c]) + 1] = [line |-> Head(buffered[c]), outcome |-> outcome]
           /\ buffered'[c] = Tail(buffered[c]) /\ place'[c] = "answering"
           /\ \A d \in Client \ {c} :
                ran'[d] = ran[d] /\ buffered'[d] = buffered[d] /\ place'[d] = place[d]
<1>1. ran[c] \in Seq([line : Line, outcome : Outcome]) /\ buffered[c] \in Seq(Line)
    BY DEF TypeOK
<1>2. [line |-> Head(buffered[c]), outcome |-> outcome] \in [line : Line, outcome : Outcome]
    BY <1>1
<1>3. /\ ran'[c] = Append(ran[c], [line |-> Head(buffered[c]), outcome |-> outcome])
      /\ buffered'[c] = Tail(buffered[c]) /\ place'[c] = "answering"
      /\ \A d \in Client \ {c} :
            ran'[d] = ran[d] /\ buffered'[d] = buffered[d] /\ place'[d] = place[d]
    BY DEF TypeOK, Executed
<1>4. /\ Len(ran'[c]) = Len(ran[c]) + 1
      /\ \A i \in 1..Len(ran[c]) : ran'[c][i] = ran[c][i]
      /\ ran'[c][Len(ran[c]) + 1] = [line |-> Head(buffered[c]), outcome |-> outcome]
    BY <1>1, <1>2, <1>3, AppendProperties
<1> QED
    BY <1>3, <1>4

LEMMA TxnStep ==
    ASSUME IndInv, [Next]_vars, NEW d \in Client
    PROVE  TxnInStatement(d)'
<1> USE DEF TxnInStatement
<1>0. TypeOK /\ Order /\ TxnInStatement(d) /\ Lifecycle(d)
    BY DEF IndInv
<1>1. CASE Signal \/ AcceptFails \/ Wait \/ CloseListener \/ UNCHANGED vars
    BY <1>0, <1>1
       DEF Signal, AcceptFails, Wait, CloseListener, vars, server, handler, peer, Order
<1>2. CASE CloseEngine
    BY <1>0, <1>2 DEF CloseEngine, handler, Order, WaitIsOver, InHandler
<1>3. CASE Exit
    BY <1>0, <1>3 DEF Exit, Order, TypeOK
<1>4. ASSUME NEW c \in Client, Accept(c) PROVE TxnInStatement(d)'
    BY <1>0, <1>4 DEF Accept, TypeOK, Order, server, Lifecycle
<1>5. ASSUME NEW c \in Client, CloseConn(c) PROVE TxnInStatement(d)'
    <2>1. PICK rest \in Cuts(inbox[c]) : buffered' = [buffered EXCEPT ![c] = @ \o rest]
        BY <1>5 DEF CloseConn
    <2>2. buffered[d] # <<>> => Head(buffered'[d]) = Head(buffered[d])
        <3>1. CASE d = c
            <4>1. buffered[c] \in Seq(Line) /\ rest \in Seq(Line)
                BY <1>0, CutsAre DEF TypeOK
            <4>2. buffered[c] # <<>> => Head(buffered[c] \o rest) = Head(buffered[c])
                BY <4>1
            <4> QED
                BY <1>0, <2>1, <3>1, <4>2 DEF TypeOK
        <3>2. CASE d # c
            BY <1>0, <2>1, <3>2 DEF TypeOK
        <3> QED
            BY <3>1, <3>2
    <2>3. place[d] = "executing" => buffered[d] # <<>>
        BY <1>0 DEF TypeOK, WithinBounds
    <2> QED
        BY <1>0, <1>5, <2>2, <2>3 DEF CloseConn, server
<1>6. ASSUME NEW c \in Client, Read(c) PROVE TxnInStatement(d)'
    BY <1>0, <1>6 DEF Read, TypeOK, server
<1>7. ASSUME NEW c \in Client, Scan(c) PROVE TxnInStatement(d)'
    BY <1>0, <1>7 DEF Scan, Skipped, TypeOK, server, Order, WaitIsOver, InHandler
<1>8. ASSUME NEW c \in Client, EndOfInput(c) \/ AnswerFails(c) PROVE TxnInStatement(d)'
    BY <1>0, <1>8 DEF EndOfInput, AnswerFails, Return, TypeOK, server
<1>9. ASSUME NEW c \in Client, Refuse(c) \/ EndStatement(c) \/ EngineIsGone(c)
      PROVE  TxnInStatement(d)'
    <2>1. PICK outcome \in Outcome :
            /\ place[c] = "executing" /\ buffered[c] # <<>> /\ Executed(c, outcome)
            /\ txn' = [txn EXCEPT ![c] = FALSE]
            /\ outcome = "committed" => Parses(Head(buffered[c]))
            /\ outcome = "dangling" => serve = "failed"
            /\ UNCHANGED <<server, late, peer, conn, inbox, outbox, reset>>
        BY <1>9, StatementEnds
    <2>2. CASE d # c
        <3>1. ran'[d] = ran[d] /\ buffered'[d] = buffered[d] /\ place'[d] = place[d] /\ txn'[d] = txn[d]
            BY <1>0, <2>1, <2>2, ExecutedSeqs DEF TypeOK
        <3> QED
            BY <1>0, <2>1, <3>1 DEF server
    <2>3. CASE d = c
        <3>1. txn'[c] = FALSE /\ place'[c] = "answering" /\ serve' = serve
            BY <1>0, <2>1, ExecutedSeqs DEF TypeOK, server
        <3>2. /\ Len(ran[c]) \in Nat /\ Len(ran'[c]) = Len(ran[c]) + 1
              /\ \A i \in 1..Len(ran[c]) : ran'[c][i] = ran[c][i]
              /\ ran'[c][Len(ran[c]) + 1] = [line |-> Head(buffered[c]), outcome |-> outcome]
            <4>1. Len(ran[c]) \in Nat
                BY <1>0 DEF TypeOK
            <4> QED
                BY <1>0, <2>1, <4>1, ExecutedSeqs
        <3>3. ASSUME NEW i \in 1..Len(ran'[c])
              PROVE  /\ ran'[c][i].outcome = "committed" => Parses(ran'[c][i].line)
                     /\ ran'[c][i].outcome = "dangling" => serve' = "failed"
            <4>1. i \in 1..Len(ran[c]) \/ i = Len(ran[c]) + 1
                BY <3>2
            <4>2. CASE i \in 1..Len(ran[c])
                BY <1>0, <2>3, <3>1, <3>2, <4>2
            <4>3. CASE i = Len(ran[c]) + 1
                BY <2>1, <3>1, <3>2, <4>3
            <4> QED
                BY <4>1, <4>2, <4>3
        <3> QED
            BY <2>3, <3>1, <3>3
    <2> QED
        BY <2>2, <2>3
<1>10. ASSUME NEW c \in Client, Begin(c) PROVE TxnInStatement(d)'
    BY <1>0, <1>10 DEF Begin, Executing, Parses, TypeOK, server
<1>11. ASSUME NEW c \in Client, Answer(c) PROVE TxnInStatement(d)'
    BY <1>0, <1>11 DEF Answer, TypeOK, server
<1>12. ASSUME NEW c \in Client, Dial(c) \/ RunClient(c) \/ Die(c) PROVE TxnInStatement(d)'
    <2>1. UNCHANGED <<server, handler>>
        BY <1>12 DEF Dial, RunClient, Send, StopSending, Receive, End, Die
    <2> QED
        BY <1>0, <2>1 DEF server, handler
<1> QED
    BY <1>1, <1>2, <1>3, <1>4, <1>5, <1>6, <1>7, <1>8, <1>9, <1>10, <1>11, <1>12
       DEF Next, ShutDown, Handle

-----------------------------------------------------------------------------
(***************************************************************************)
(* Where the lines of the input are.                                       *)
(***************************************************************************)

\* How many responses a client has got or will get is a number.
LEMMA AnswersCounted ==
    ASSUME TypeOK, NEW c \in Client
    PROVE  /\ Len(received[c]) \in Nat /\ Len(outbox[c]) \in Nat
           /\ Len(received[c]) + Len(outbox[c]) \in Nat
<1>1. received[c] \in Seq(Response) /\ outbox[c] \in Seq(Response)
    BY DEF TypeOK
<1>2. Len(received[c]) \in Nat /\ Len(outbox[c]) \in Nat
    BY <1>1
<1>3. \A i, j \in Nat : i + j \in Nat
    OBVIOUS
<1> QED
    BY <1>2, <1>3, Zenon

\* Of the responses to a client that is cut off, none is added.
LEMMA AnswersStayWithin ==
    ASSUME TypeOK, TypeOK', NEW c \in Client, NEW n \in 0..Len(script[c]),
           Len(received'[c]) + Len(outbox'[c]) <= Len(received[c]) + Len(outbox[c]),
           Len(received[c]) + Len(outbox[c]) <= Len(NonBlank(script[c])[n])
    PROVE  Len(received'[c]) + Len(outbox'[c]) <= Len(NonBlank(script[c])[n])
<1> DEFINE K == NonBlank(script[c])[n]
<1>1. script[c] \in Seq(Line)
    BY DEF TypeOK, Line
<1>2. K \in Seq(Line)
    BY <1>1, NonBlankGrows
<1>3. Len(K) \in Nat
    <2> HIDE DEF K
    <2> QED
        BY <1>2
<1>4. Len(received[c]) + Len(outbox[c]) \in Nat /\ Len(received'[c]) + Len(outbox'[c]) \in Nat
    <2>1. (Len(received[c]) + Len(outbox[c]) \in Nat)'
        <3>1. received'[c] \in Seq(Response) /\ outbox'[c] \in Seq(Response)
            BY DEF TypeOK
        <3>2. Len(received'[c]) \in Nat /\ Len(outbox'[c]) \in Nat
            BY <3>1
        <3>3. \A i, j \in Nat : i + j \in Nat
            OBVIOUS
        <3> QED
            BY <3>2, <3>3, Zenon
    <2> QED
        BY <2>1, AnswersCounted
<1>5. \A i, j, k \in Nat : i <= j /\ j <= k => i <= k
    OBVIOUS
<1> QED
    BY <1>3, <1>4, <1>5, Zenon

\* Nothing moves, or lines move from the socket into the buffer.
LEMMA InputKept ==
    ASSUME TypeOK, TypeOK', NEW c \in Client, InputInOrder(c),
           script' = script, ran'[c] = ran[c], unsent'[c] = unsent[c], Pending(c)' = Pending(c),
           CutOff(c) => CutOff(c)',
           CutOff(c) => Len(received'[c]) + Len(outbox'[c]) <= Len(received[c]) + Len(outbox[c])
    PROVE  InputInOrder(c)'
<1>1. PICK n \in 0..Len(script[c]) : InputUpTo(c, n)
    BY DEF InputInOrder
<1>2. CutOff(c) /\ Len(received[c]) + Len(outbox[c]) <= Len(NonBlank(script[c])[n])
        => Len(received'[c]) + Len(outbox'[c]) <= Len(NonBlank(script[c])[n])
    BY AnswersStayWithin
<1>3. InputUpTo(c, n)'
    BY <1>1, <1>2 DEF InputUpTo
<1> QED
    BY <1>3 DEF InputInOrder

\* The client is cut off; of what was pending and of the line being sent a
\* part is left, which may end with the beginning of a line.
LEMMA InputCut ==
    ASSUME TypeOK, TypeOK', NEW c \in Client, NEW n \in 0..Len(script[c]), InputUpTo(c, n),
           script' = script, ran'[c] = ran[c], CutOff(c)',
           CutOff(c) /\ Pending(c) = <<>> => Pending(c)' = <<>>,
           CutOff(c) => Len(received'[c]) + Len(outbox'[c]) <= Len(received[c]) + Len(outbox[c]),
           \A i \in 1..Len(Pending(c)') :
                /\ n + i <= Len(script[c])
                /\ \/ Pending(c)'[i] = script[c][n + i]
                   \/ i = Len(Pending(c)') /\ Pending(c)'[i] \in PartsOf(script[c][n + i])
    PROVE  InputUpTo(c, n)'
<1>1. CutOff(c) /\ Len(received[c]) + Len(outbox[c]) <= Len(NonBlank(script[c])[n])
        => Len(received'[c]) + Len(outbox'[c]) <= Len(NonBlank(script[c])[n])
    BY AnswersStayWithin
<1> QED
    BY <1>1 DEF InputUpTo

LEMMA ConcatIs ==
    ASSUME NEW b \in Seq(Line), NEW s \in Seq(Line)
    PROVE  /\ b \o s \in Seq(Line) /\ Len(b \o s) = Len(b) + Len(s)
           /\ Len(b) \in Nat /\ Len(s) \in Nat
           /\ \A i \in 1..Len(b) : (b \o s)[i] = b[i]
           /\ \A i \in 1..Len(s) : (b \o s)[Len(b) + i] = s[i]
<1>1. /\ b \o s \in Seq(Line)
      /\ Len(b \o s) = Len(b) + Len(s)
      /\ \A i \in 1..Len(b) + Len(s) : (b \o s)[i] = IF i <= Len(b) THEN b[i] ELSE s[i - Len(b)]
    BY ConcatProperties
<1>2. Len(b) \in Nat /\ Len(s) \in Nat
    OBVIOUS
<1>3. \A i \in 1..Len(b) : (b \o s)[i] = b[i]
    BY <1>1, <1>2
<1>4. ASSUME NEW i \in 1..Len(s) PROVE (b \o s)[Len(b) + i] = s[i]
    <2>1. Len(b) + i \in 1..Len(b) + Len(s) /\ ~(Len(b) + i <= Len(b)) /\ (Len(b) + i) - Len(b) = i
        BY <1>2
    <2> QED
        BY <1>1, <2>1
<1> QED
    BY <1>1, <1>2, <1>3, <1>4

LEMMA PendingIs ==
    ASSUME NEW c \in Client, buffered[c] \in Seq(Line), inbox[c] \in Seq(Line)
    PROVE  /\ Pending(c) \in Seq(Line)
           /\ Len(Pending(c)) = Len(buffered[c]) + Len(inbox[c])
           /\ \A i \in 1..Len(buffered[c]) : Pending(c)[i] = buffered[c][i]
           /\ \A i \in 1..Len(inbox[c]) : Pending(c)[Len(buffered[c]) + i] = inbox[c][i]
BY ConcatIs DEF Pending

\* The lines in the buffer are the next ones of the input.
LEMMA BufferedIs ==
    ASSUME TypeOK, NEW c \in Client, NEW n \in 0..Len(script[c]), InputUpTo(c, n),
           NEW i \in 1..Len(buffered[c])
    PROVE  /\ n + i <= Len(script[c])
           /\ \/ buffered[c][i] = script[c][n + i]
              \/ inbox[c] = <<>> /\ i = Len(buffered[c]) /\ buffered[c][i] \in PartsOf(script[c][n + i])
<1>t. /\ buffered \in [Client -> Seq(Line)] /\ inbox \in [Client -> Seq(Line)]
      /\ buffered[c] \in Seq(Line) /\ inbox[c] \in Seq(Line)
    BY DEF TypeOK
<1>l. Len(buffered[c]) \in Nat /\ Len(inbox[c]) \in Nat
    BY <1>t
<1>p. /\ Len(Pending(c)) = Len(buffered[c]) + Len(inbox[c])
      /\ \A j \in 1..Len(buffered[c]) : Pending(c)[j] = buffered[c][j]
    BY <1>t, PendingIs
<1>1. i \in 1..Len(Pending(c)) /\ Pending(c)[i] = buffered[c][i]
    BY <1>p, <1>t
<1>2. /\ n + i <= Len(script[c])
      /\ \/ Pending(c)[i] = script[c][n + i]
         \/ i = Len(Pending(c)) /\ Pending(c)[i] \in PartsOf(script[c][n + i])
    BY <1>1 DEF InputUpTo
<1>3. i = Len(Pending(c)) => Len(inbox[c]) = 0 /\ i = Len(buffered[c])
    BY <1>p, <1>t
<1>4. Len(inbox[c]) = 0 => inbox[c] = <<>>
    BY <1>t
<1> QED
    BY <1>1, <1>2, <1>3, <1>4

\* A close drops what is in the socket; the buffer keeps its lines, or not.
LEMMA InputClosed ==
    ASSUME TypeOK, TypeOK', NEW c \in Client, InputInOrder(c),
           script' = script, ran'[c] = ran[c], conn'[c] = "closed", inbox'[c] = <<>>,
           \/ buffered'[c] \in {<<>>, buffered[c]}
           \/ \E rest \in Cuts(inbox[c]) : buffered'[c] = buffered[c] \o rest,
           received'[c] = received[c] /\ outbox'[c] = outbox[c]
    PROVE  InputInOrder(c)'
<1>1. PICK n \in 0..Len(script[c]) : InputUpTo(c, n)
    BY DEF InputInOrder
<1>2. /\ buffered[c] \in Seq(Line) /\ inbox[c] \in Seq(Line) /\ script[c] \in Seq(Line)
      /\ n \in Nat /\ Len(script[c]) \in Nat /\ buffered'[c] \in Seq(Line)
    <2>1. script[c] \in Seq(Line)
        BY PartsAre DEF TypeOK
    <2> QED
        BY <2>1 DEF TypeOK
<1>l. Len(buffered[c]) \in Nat /\ Len(inbox[c]) \in Nat
    BY <1>2
<1>3. /\ Len(Pending(c)) = Len(buffered[c]) + Len(inbox[c])
      /\ \A i \in 1..Len(buffered[c]) : Pending(c)[i] = buffered[c][i]
      /\ \A i \in 1..Len(inbox[c]) : Pending(c)[Len(buffered[c]) + i] = inbox[c][i]
    BY <1>2, PendingIs
<1>4. Pending(c)' = buffered'[c]
    BY <1>2, ConcatEmptySeq DEF Pending
<1>5. CutOff(c)'
    BY DEF CutOff
<1>6. \A i \in 1..Len(buffered[c]) :
            /\ n + i <= Len(script[c])
            /\ \/ buffered[c][i] = script[c][n + i]
               \/ inbox[c] = <<>> /\ i = Len(buffered[c]) /\ buffered[c][i] \in PartsOf(script[c][n + i])
    BY <1>1, BufferedIs
<1>r. PICK rest \in Cuts(inbox[c]) : buffered'[c] \in {<<>>, buffered[c], buffered[c] \o rest}
    <2>1. <<>> \in Cuts(inbox[c])
        BY DEF Cuts
    <2> QED
        BY <2>1, Zenon
<1>s. /\ rest \in Seq(Line)
      /\ \/ rest = <<>>
         \/ inbox[c] # <<>> /\ Len(rest) = 1 /\ rest[1] \in PartsOf(inbox[c][1])
    BY <1>2, CutsAre
<1>c. \/ buffered'[c] \in {<<>>, buffered[c]}
      \/ /\ inbox[c] # <<>> /\ Len(rest) = 1 /\ rest[1] \in PartsOf(inbox[c][1])
         /\ buffered'[c] = buffered[c] \o rest
    BY <1>2, <1>r, <1>s, ConcatEmptySeq
<1>6a. \A i \in 1..Len(Pending(c)') :
            /\ n + i <= Len(script[c])
            /\ \/ Pending(c)'[i] = script[c][n + i]
               \/ i = Len(Pending(c)') /\ Pending(c)'[i] \in PartsOf(script[c][n + i])
    <2>1. CASE buffered'[c] = buffered[c]
        BY <1>4, <1>6, <2>1
    <2>2. CASE buffered'[c] = <<>>
        BY <1>4, <2>2
    <2>3. CASE /\ inbox[c] # <<>> /\ Len(rest) = 1 /\ rest[1] \in PartsOf(inbox[c][1])
               /\ buffered'[c] = buffered[c] \o rest
        <3> DEFINE m == Len(buffered[c]) + 1
        <3>1. /\ Len(buffered'[c]) = m
              /\ \A j \in 1..Len(buffered[c]) : buffered'[c][j] = buffered[c][j]
              /\ buffered'[c][m] \in PartsOf(inbox[c][1])
            <4>1. /\ Len(buffered[c] \o rest) = Len(buffered[c]) + Len(rest)
                  /\ \A i \in 1..Len(buffered[c]) : (buffered[c] \o rest)[i] = buffered[c][i]
                  /\ \A i \in 1..Len(rest) : (buffered[c] \o rest)[Len(buffered[c]) + i] = rest[i]
                BY <1>2, <1>s, ConcatIs
            <4>2. 1 \in 1..Len(rest)
                BY <2>3
            <4> QED
                BY <2>3, <4>1, <4>2
        <3>2. \A i \in 1..Len(buffered[c]) : n + i <= Len(script[c]) /\ buffered[c][i] = script[c][n + i]
            BY <1>6, <2>3
        <3>3. \A i \in 1..m : i \in 1..Len(buffered[c]) \/ i = m
            BY <1>l
        <3>4. n + m <= Len(script[c]) /\ buffered'[c][m] \in PartsOf(script[c][n + m])
            <4>1. 1 \in 1..Len(inbox[c])
                BY <1>2, <1>l, <2>3, EmptySeq
            <4>2. m \in 1..Len(Pending(c)) /\ Pending(c)[m] = inbox[c][1]
                <5>1. Pending(c)[m] = inbox[c][1]
                    BY <1>3, <4>1
                <5>2. Len(Pending(c)) = Len(buffered[c]) + Len(inbox[c])
                    BY <1>3
                <5>3. \A x, y \in Nat : 1 \in 1..y => x + 1 \in 1..(x + y)
                    OBVIOUS
                <5>4. m \in 1..Len(Pending(c))
                    BY <1>l, <4>1, <5>2, <5>3, Zenon
                <5> QED
                    BY <5>1, <5>4
            <4>3. /\ n + m <= Len(script[c])
                  /\ Pending(c)[m] = script[c][n + m] \/ Pending(c)[m] \in PartsOf(script[c][n + m])
                BY <1>1, <4>2 DEF InputUpTo
            <4>4. inbox[c][1] \notin Part
                BY <3>1, PartsAre
            <4>5. inbox[c][1] = script[c][n + m]
                BY <4>2, <4>3, <4>4, PartsAre
            <4> QED
                BY <3>1, <4>3, <4>5
        <3> HIDE DEF m
        <3> QED
            BY <1>4, <3>1, <3>2, <3>3, <3>4
    <2> QED
        BY <1>c, <2>1, <2>2, <2>3
<1>7. Pending(c) = <<>> => Pending(c)' = <<>>
    <2> SUFFICES ASSUME Pending(c) = <<>> PROVE Pending(c)' = <<>>
        OBVIOUS
    <2>1. Len(buffered[c]) = 0 /\ Len(inbox[c]) = 0
        <3>1. Len(Pending(c)) = 0
            OBVIOUS
        <3>2. \A p, b, i \in Nat : p = b + i /\ p = 0 => b = 0 /\ i = 0
            OBVIOUS
        <3> HIDE DEF Pending
        <3> QED
            BY <1>3, <1>l, <3>1, <3>2
    <2>2. buffered[c] = <<>> /\ inbox[c] = <<>>
        BY <1>2, <2>1
    <2> QED
        BY <1>4, <1>c, <2>2
<1>8. InputUpTo(c, n)'
    <2>1. Len(received'[c]) + Len(outbox'[c]) <= Len(received[c]) + Len(outbox[c])
        <3>1. \A i \in Nat : i <= i
            OBVIOUS
        <3>2. Len(received'[c]) + Len(outbox'[c]) = Len(received[c]) + Len(outbox[c])
            OBVIOUS
        <3> QED
            BY <3>1, <3>2, AnswersCounted, Zenon
    <2> QED
        BY <1>1, <1>2, <1>5, <1>6a, <1>7, <2>1, InputCut
<1> QED
    BY <1>8 DEF InputInOrder

\* The first pending line leaves the buffer.
LEMMA PendingShifts ==
    ASSUME TypeOK, TypeOK', NEW c \in Client, buffered[c] # <<>>,
           buffered'[c] = Tail(buffered[c]), inbox'[c] = inbox[c]
    PROVE  /\ Len(Pending(c)) \in Nat \ {0} /\ Pending(c)[1] = Head(buffered[c])
           /\ Pending(c)' \in Seq(Line) /\ Len(Pending(c)') = Len(Pending(c)) - 1
           /\ \A i \in 1..Len(Pending(c)') : Pending(c)'[i] = Pending(c)[i + 1]
<1> DEFINE b == buffered[c]
           t == Tail(b)
           s == inbox[c]
<1>1. b \in Seq(Line) /\ s \in Seq(Line) /\ b # <<>>
    BY DEF TypeOK
<1>2. Pending(c) = b \o s /\ Pending(c)' = t \o s
    BY DEF Pending
<1>h. Head(buffered[c]) = Head(b)
    OBVIOUS
<1> HIDE DEF b, s
<1>3. t \in Seq(Line) /\ Len(t) = Len(b) - 1 /\ \A i \in 1..Len(t) : t[i] = b[i + 1]
    BY <1>1, HeadTailProperties
<1>4. Len(b) \in Nat \ {0} /\ Len(s) \in Nat /\ Head(b) = b[1]
    BY <1>1
<1> HIDE DEF t
<1>5. /\ Len(b \o s) = Len(b) + Len(s)
      /\ \A i \in 1..Len(b) + Len(s) : (b \o s)[i] = IF i <= Len(b) THEN b[i] ELSE s[i - Len(b)]
    BY <1>1, ConcatProperties
<1>6. /\ t \o s \in Seq(Line) /\ Len(t \o s) = Len(t) + Len(s)
      /\ \A i \in 1..Len(t) + Len(s) : (t \o s)[i] = IF i <= Len(t) THEN t[i] ELSE s[i - Len(t)]
    BY <1>1, <1>3, ConcatProperties
<1>7. (b \o s)[1] = b[1]
    BY <1>4, <1>5
<1>8. ASSUME NEW i \in 1..Len(t) + Len(s) PROVE (t \o s)[i] = (b \o s)[i + 1]
    <2>1. i + 1 \in 1..Len(b) + Len(s) /\ (i <= Len(t) <=> i + 1 <= Len(b))
          /\ i - Len(t) = (i + 1) - Len(b) /\ i \in Nat /\ Len(t) \in Nat
        BY <1>3, <1>4
    <2>2. CASE i <= Len(t)
        BY <1>3, <1>5, <1>6, <2>1, <2>2
    <2>3. CASE ~(i <= Len(t))
        BY <1>5, <1>6, <2>1, <2>3
    <2> QED
        BY <2>2, <2>3
<1>9. Len(b \o s) \in Nat \ {0} /\ Len(t \o s) = Len(b \o s) - 1
    BY <1>3, <1>4, <1>5, <1>6
<1> QED
    BY <1>2, <1>4, <1>6, <1>7, <1>8, <1>9, <1>h

\* A blank line is passed over, or another one executed.
LEMMA InputTaken ==
    ASSUME TypeOK, TypeOK', NEW c \in Client, InputInOrder(c), AnswersInOrder(c), buffered[c] # <<>>,
           buffered'[c] = Tail(buffered[c]), inbox'[c] = inbox[c],
           script' = script, unsent'[c] = unsent[c], CutOff(c)' <=> CutOff(c),
           received'[c] = received[c], outbox'[c] = outbox[c],
           \/ Head(buffered[c]) = "blank" /\ ran'[c] = ran[c]
           \/ /\ Head(buffered[c]) # "blank"
              /\ Len(ran'[c]) = Len(ran[c]) + 1
              /\ \A i \in 1..Len(ran[c]) : ran'[c][i] = ran[c][i]
              /\ ran'[c][Len(ran[c]) + 1].line = Head(buffered[c])
    PROVE  InputInOrder(c)'
<1> DEFINE s == script[c]
           P == Pending(c)
           Q == Pending(c)'
           u == unsent[c]
           r == ran[c]
           q == ran'[c]
           h == Head(buffered[c])
           answers == Len(received[c]) + Len(outbox[c])
           cut == CutOff(c)
           K == NonBlank(s)
<1>1. PICK n \in 0..Len(s) : InputUpTo(c, n)
    BY DEF InputInOrder
<1>2. /\ Len(P) \in Nat \ {0} /\ P[1] = h /\ Q \in Seq(Line) /\ Len(Q) = Len(P) - 1
      /\ \A i \in 1..Len(Q) : Q[i] = P[i + 1]
    BY PendingShifts
<1>3. /\ s \in Seq(Line) /\ Len(s) \in Nat /\ Len(r) \in Nat /\ Len(u) \in Nat /\ answers \in Nat
      /\ answers <= Len(r)
    <2>1. /\ s \in Seq(WholeLine) /\ u \in Seq(WholeLine)
          /\ received[c] \in Seq(Response) /\ outbox[c] \in Seq(Response)
          /\ r \in Seq([line : Line, outcome : Outcome])
        BY DEF TypeOK
    <2>2. answers <= Len(r)
        BY DEF AnswersInOrder
    <2>3. Len(received[c]) \in Nat /\ Len(outbox[c]) \in Nat
        BY <2>1
    <2>4. s \in Seq(Line)
        BY DEF TypeOK, Line
    <2>5. answers \in Nat
        <3>1. \A i, j \in Nat : i + j \in Nat
            OBVIOUS
        <3> QED
            BY <2>3, <3>1, Zenon
    <2> HIDE DEF s, u, r, answers
    <2> QED
        BY <2>1, <2>2, <2>4, <2>5
<1>4. /\ \A i \in 1..Len(K[n]) : i <= Len(r) /\ r[i].line = K[n][i]
      /\ Len(r) = Len(K[n]) \/ P = <<>>
      /\ \A i \in 1..Len(P) :
            /\ n + i <= Len(s)
            /\ P[i] = s[n + i] \/ (i = Len(P) /\ P[i] \in PartsOf(s[n + i]) /\ cut)
      /\ ~cut => /\ n + Len(P) + Len(u) = Len(s)
                 /\ \A i \in 1..Len(u) : u[i] = s[n + Len(P) + i]
    BY <1>1 DEF InputUpTo
<1>5. \/ h = "blank" /\ q = r
      \/ /\ h # "blank" /\ Len(q) = Len(r) + 1
         /\ \A i \in 1..Len(r) : q[i] = r[i]
         /\ q[Len(r) + 1].line = h
    OBVIOUS
<1>6. ASSUME NEW m \in 0..Len(s),
             \A i \in 1..Len(K[m]) : i <= Len(q) /\ q[i].line = K[m][i],
             \/ Len(q) = Len(K[m])
             \/ /\ Len(q) = Len(K[m]) + 1
                /\ m < Len(s) /\ q[Len(q)].line \in PartsOf(s[m + 1])
                /\ Q = <<>> /\ cut /\ answers <= Len(K[m]),
             \A i \in 1..Len(Q) :
                /\ m + i <= Len(s)
                /\ Q[i] = s[m + i] \/ (i = Len(Q) /\ Q[i] \in PartsOf(s[m + i]) /\ cut),
             ~cut => /\ m + Len(Q) + Len(u) = Len(s)
                     /\ \A i \in 1..Len(u) : u[i] = s[m + Len(Q) + i]
      PROVE  InputInOrder(c)'
    <2>1. InputUpTo(c, m)'
        BY <1>6 DEF InputUpTo
    <2> QED
        BY <2>1 DEF InputInOrder
<1>7. K[n] \in Seq(Line) /\ Len(K[n]) \in Nat
    <2>1. K[n] \in Seq(Line)
        BY <1>3, NonBlankGrows
    <2> HIDE DEF K
    <2> QED
        BY <2>1
<1>8. \A i \in 1..Len(s) : K[i] = IF s[i] = "blank" THEN K[i - 1] ELSE Append(K[i - 1], s[i])
    BY <1>3, NonBlankStep
<1> HIDE DEF s, P, Q, u, r, q, h, answers, cut, K
<1>9. Len(r) = Len(K[n])
    BY <1>2, <1>4
<1>10. /\ n + 1 <= Len(s)
       /\ h = s[n + 1] \/ (1 = Len(P) /\ h \in PartsOf(s[n + 1]) /\ cut)
    BY <1>2, <1>4, SMTT(30)
<1>11. CASE h = s[n + 1]
    <2>1. n + 1 \in 1..Len(s) /\ (n + 1) - 1 = n /\ n + 1 \in 0..Len(s) /\ h \in Line
        BY <1>3, <1>10, <1>11, ElementOfSeq
    <2>2. K[n + 1] = IF h = "blank" THEN K[n] ELSE Append(K[n], h)
        BY <1>8, <1>11, <2>1
    <2>a. ASSUME NEW i \in 1..Len(Q)
          PROVE  /\ (n + 1) + i <= Len(s)
                 /\ \/ Q[i] = s[(n + 1) + i]
                    \/ i = Len(Q) /\ Q[i] \in PartsOf(s[(n + 1) + i]) /\ cut
        <3>1. i + 1 \in 1..Len(P) /\ Q[i] = P[i + 1] /\ (i + 1 = Len(P) => i = Len(Q))
            BY <1>2
        <3>2. n + (i + 1) = (n + 1) + i
            BY <1>2, <1>3
        <3> QED
            BY <1>4, <3>1, <3>2
    <2>b. ~cut => /\ (n + 1) + Len(Q) + Len(u) = Len(s)
                  /\ \A i \in 1..Len(u) : u[i] = s[(n + 1) + Len(Q) + i]
        <3>1. (n + 1) + Len(Q) = n + Len(P)
            BY <1>2, <1>3
        <3> QED
            BY <1>4, <3>1
    <2>3. CASE h = "blank"
        <3>1. /\ \A i \in 1..Len(K[n + 1]) : i <= Len(q) /\ q[i].line = K[n + 1][i]
              /\ Len(q) = Len(K[n + 1])
            BY <1>4, <1>5, <1>9, <2>2, <2>3
        <3> QED
            BY <1>6, <2>1, <3>1, <2>a, <2>b
    <2>4. CASE h # "blank"
        <3>1. K[n + 1] = Append(K[n], h)
            BY <2>2, <2>4
        <3>2. /\ Len(K[n + 1]) = Len(K[n]) + 1
              /\ \A i \in 1..Len(K[n]) : K[n + 1][i] = K[n][i]
              /\ K[n + 1][Len(K[n]) + 1] = h
            BY <1>7, <2>1, <3>1, AppendProperties
        <3>3. /\ \A i \in 1..Len(K[n + 1]) : i <= Len(q) /\ q[i].line = K[n + 1][i]
              /\ Len(q) = Len(K[n + 1])
            <4>1. /\ Len(q) = Len(r) + 1 /\ \A i \in 1..Len(r) : q[i] = r[i]
                  /\ q[Len(r) + 1].line = h
                BY <1>5, <2>4
            <4>2. ASSUME NEW i \in 1..Len(K[n + 1]) PROVE i <= Len(q) /\ q[i].line = K[n + 1][i]
                <5>1. i \in 1..Len(K[n]) \/ i = Len(K[n]) + 1
                    BY <1>7, <3>2
                <5>2. CASE i \in 1..Len(K[n])
                    <6>1. i <= Len(r) /\ r[i].line = K[n][i]
                        BY <1>4, <5>2
                    <6> QED
                        BY <1>3, <1>7, <1>9, <3>2, <4>1, <5>2, <6>1
                <5>3. CASE i = Len(K[n]) + 1
                    BY <1>7, <1>9, <3>2, <4>1, <5>3
                <5> QED
                    BY <5>1, <5>2, <5>3
            <4> QED
                BY <1>9, <3>2, <4>1, <4>2
        <3> QED
            BY <1>6, <2>1, <3>3, <2>a, <2>b
    <2> QED
        BY <2>3, <2>4
<1>12. CASE 1 = Len(P) /\ h \in PartsOf(s[n + 1]) /\ cut
    <2>1. Len(Q) = 0 /\ Q = <<>>
        <3>1. Len(Q) = 0
            <4>1. Len(Q) = Len(P) - 1 /\ Len(P) = 1
                BY <1>2, <1>12, Zenon
            <4> QED
                BY <4>1
        <3> QED
            BY <1>2, <3>1, EmptySeq
    <2>2. /\ Len(q) = Len(r) + 1 /\ \A i \in 1..Len(r) : q[i] = r[i]
          /\ q[Len(r) + 1].line \in PartsOf(s[n + 1])
        BY <1>5, <1>12, PartsAre
    <2>3. /\ \A i \in 1..Len(K[n]) : i <= Len(q) /\ q[i].line = K[n][i]
          /\ Len(q) = Len(K[n]) + 1 /\ q[Len(q)].line \in PartsOf(s[n + 1])
        BY <1>3, <1>4, <1>7, <1>9, <2>2
    <2>4. n < Len(s) /\ n \in Nat
        BY <1>3, <1>10
    <2>5. answers <= Len(K[n])
        BY <1>3, <1>9
    <2>6. \A i \in 1..Len(Q) :
            /\ n + i <= Len(s)
            /\ Q[i] = s[n + i] \/ (i = Len(Q) /\ Q[i] \in PartsOf(s[n + i]) /\ cut)
        BY <2>1
    <2> QED
        BY <1>6, <1>12, <2>1, <2>3, <2>4, <2>5, <2>6, Zenon
<1> QED
    BY <1>10, <1>11, <1>12

\* The client sends its next line.
LEMMA InputSent ==
    ASSUME TypeOK, NEW c \in Client, InputInOrder(c), Send(c)
    PROVE  InputInOrder(c)'
<1> DEFINE s == script[c]
           b == buffered[c]
           x == inbox[c]
           u == unsent[c]
           h == Head(u)
           P == Pending(c)
           Q == Pending(c)'
<1>1. PICK n \in 0..Len(s) : InputUpTo(c, n)
    BY DEF InputInOrder
<1>2. /\ client[c] = "sending" /\ conn[c] # "closed" /\ u # <<>>
      /\ inbox'[c] = Append(x, h) /\ unsent'[c] = Tail(u) /\ buffered'[c] = b
      /\ script' = script /\ ran' = ran /\ client' = client /\ conn' = conn
    BY DEF Send, handler, TypeOK
<1>3. ~CutOff(c) /\ ~CutOff(c)'
    BY <1>2 DEF CutOff
<1>4. /\ b \in Seq(Line) /\ x \in Seq(Line) /\ u \in Seq(Line) /\ s \in Seq(Line)
    BY DEF TypeOK, Line
<1>5. P = b \o x /\ Q = b \o Append(x, h)
    BY <1>2 DEF Pending
<1>6. /\ \A i \in 1..Len(P) : n + i <= Len(s) /\ P[i] = s[n + i]
      /\ n + Len(P) + Len(u) = Len(s)
      /\ \A i \in 1..Len(u) : u[i] = s[n + Len(P) + i]
    BY <1>1, <1>3 DEF InputUpTo
<1>7. ASSUME \A i \in 1..Len(Q) : n + i <= Len(s) /\ Q[i] = s[n + i],
             n + Len(Q) + Len(Tail(u)) = Len(s),
             \A i \in 1..Len(Tail(u)) : Tail(u)[i] = s[n + Len(Q) + i]
      PROVE  InputInOrder(c)'
    <2>1. InputUpTo(c, n)'
        BY <1>1, <1>2, <1>3, <1>7 DEF InputUpTo
    <2> QED
        BY <1>2, <2>1 DEF InputInOrder
<1> HIDE DEF s, b, x, u, P, Q
<1>8. /\ Len(u) \in Nat \ {0} /\ h = u[1] /\ h \in Line
      /\ Len(Tail(u)) = Len(u) - 1 /\ \A i \in 1..Len(Tail(u)) : Tail(u)[i] = u[i + 1]
    BY <1>2, <1>4, HeadTailProperties
<1> HIDE DEF h
<1>9. /\ Append(x, h) \in Seq(Line) /\ Len(Append(x, h)) = Len(x) + 1
      /\ \A i \in 1..Len(x) : Append(x, h)[i] = x[i]
      /\ Append(x, h)[Len(x) + 1] = h
    BY <1>4, <1>8, AppendProperties
<1>10. /\ Len(P) = Len(b) + Len(x) /\ Len(b) \in Nat /\ Len(x) \in Nat
       /\ \A i \in 1..Len(b) : P[i] = b[i]
       /\ \A i \in 1..Len(x) : P[Len(b) + i] = x[i]
    BY <1>4, <1>5, ConcatIs
<1>11. /\ Len(Q) = Len(b) + Len(Append(x, h))
       /\ \A i \in 1..Len(b) : Q[i] = b[i]
       /\ \A i \in 1..Len(Append(x, h)) : Q[Len(b) + i] = Append(x, h)[i]
    BY <1>4, <1>5, <1>9, ConcatIs
<1>12. Len(Q) = Len(P) + 1 /\ Len(P) \in Nat
    BY <1>9, <1>10, <1>11
<1>13. Q[Len(P) + 1] = h
    <2>1. Len(x) + 1 \in 1..Len(Append(x, h)) /\ Len(b) + (Len(x) + 1) = Len(P) + 1
        BY <1>9, <1>10
    <2> QED
        BY <1>9, <1>11, <2>1
<1>14. ASSUME NEW i \in 1..Len(P) PROVE Q[i] = P[i]
    <2>1. CASE i \in 1..Len(b)
        BY <1>10, <1>11, <2>1
    <2>2. CASE i \notin 1..Len(b)
        <3>1. i - Len(b) \in 1..Len(x) /\ Len(b) + (i - Len(b)) = i
              /\ i - Len(b) \in 1..Len(Append(x, h))
            BY <1>9, <1>10, <1>12, <2>2
        <3> QED
            BY <1>9, <1>10, <1>11, <3>1
    <2> QED
        BY <2>1, <2>2
<1>15. Len(s) \in Nat /\ n \in Nat
    BY <1>4
<1>16. ASSUME NEW i \in 1..Len(Q) PROVE n + i <= Len(s) /\ Q[i] = s[n + i]
    <2>1. CASE i \in 1..Len(P)
        BY <1>6, <1>14, <2>1
    <2>2. CASE i = Len(P) + 1
        <3>1. 1 \in 1..Len(u) /\ n + Len(P) + 1 = n + i /\ n + i <= Len(s)
            BY <1>6, <1>8, <1>12, <1>15, <2>2
        <3> QED
            BY <1>6, <1>8, <1>13, <2>2, <3>1
    <2> QED
        BY <1>12, <2>1, <2>2
<1>17. n + Len(Q) + Len(Tail(u)) = Len(s)
    BY <1>6, <1>8, <1>12, <1>15
<1>18. ASSUME NEW i \in 1..Len(Tail(u)) PROVE Tail(u)[i] = s[n + Len(Q) + i]
    <2>1. i + 1 \in 1..Len(u) /\ n + Len(P) + (i + 1) = n + Len(Q) + i
        BY <1>8, <1>12, <1>15
    <2> QED
        BY <1>6, <1>8, <2>1
<1> QED
    BY <1>7, <1>16, <1>17, <1>18

\* The client dies, perhaps within a line.
LEMMA InputDied ==
    ASSUME TypeOK, TypeOK', NEW c \in Client, InputInOrder(c), Die(c), Lifecycle(c)
    PROVE  InputInOrder(c)'
<1> DEFINE s == script[c]
           b == buffered[c]
           x == inbox[c]
           u == unsent[c]
           P == Pending(c)
           Q == Pending(c)'
           next == IF u = <<>> THEN <<>> ELSE <<Head(u)>>
           sent == x \o next
<1>1. PICK n \in 0..Len(s) : InputUpTo(c, n)
    BY DEF InputInOrder
<1>2. /\ client[c] \in {"sending", "waiting"} /\ conn[c] = "open" /\ client'[c] = "dead"
      /\ buffered'[c] = b /\ script' = script /\ ran' = ran
    BY DEF Die, handler, TypeOK
<1>3. PICK k \in 0..Len(sent) : \E rest \in Cuts(SubSeq(sent, k + 1, Len(sent))) :
            inbox' = [inbox EXCEPT ![c] = SubSeq(sent, 1, k) \o rest]
    BY Zenon DEF Die
<1>r. PICK rest \in Cuts(SubSeq(sent, k + 1, Len(sent))) :
            inbox' = [inbox EXCEPT ![c] = SubSeq(sent, 1, k) \o rest]
    BY <1>3, Zenon
<1>i. inbox'[c] = SubSeq(sent, 1, k) \o rest
    <2> HIDE DEF sent
    <2> QED
        BY <1>r DEF TypeOK
<1>4. ~CutOff(c) /\ CutOff(c)'
    BY <1>2 DEF CutOff
<1>5. /\ b \in Seq(Line) /\ x \in Seq(Line) /\ u \in Seq(Line) /\ s \in Seq(Line)
    <2>1. b \in Seq(Line) /\ x \in Seq(Line) /\ u \in Seq(WholeLine) /\ s \in Seq(WholeLine)
        BY DEF TypeOK
    <2> HIDE DEF b, x, u, s
    <2> QED
        BY <2>1, PartsAre
<1>6. P = b \o x /\ Q = b \o (SubSeq(sent, 1, k) \o rest)
    BY <1>2, <1>i DEF Pending
<1>7. /\ \A i \in 1..Len(P) : n + i <= Len(s) /\ P[i] = s[n + i]
      /\ n + Len(P) + Len(u) = Len(s)
      /\ \A i \in 1..Len(u) : u[i] = s[n + Len(P) + i]
    BY <1>1, <1>4 DEF InputUpTo
<1>8. ASSUME \A i \in 1..Len(Q) :
                /\ n + i <= Len(s)
                /\ Q[i] = s[n + i] \/ (i = Len(Q) /\ Q[i] \in PartsOf(s[n + i]))
      PROVE  InputInOrder(c)'
    <2>2. InputUpTo(c, n)'
        BY <1>1, <1>2, <1>4, <1>8, InputCut
    <2> QED
        BY <1>2, <2>2 DEF InputInOrder
<1> HIDE DEF s, b, x, u, P, Q
<1>9. /\ next \in Seq(Line) /\ Len(next) <= 1 /\ Len(next) <= Len(u) /\ Len(u) \in Nat
      /\ Len(next) = 1 => next[1] = u[1]
    <2>1. CASE u = <<>>
        BY <1>5, <2>1
    <2>2. CASE u # <<>>
        <3>1. Head(u) \in Line /\ Head(u) = u[1] /\ Len(u) \in Nat \ {0}
            BY <1>5, <2>2, HeadTailProperties
        <3>2. next = <<Head(u)>>
            BY <2>2
        <3> HIDE DEF next
        <3>3. next \in Seq(Line) /\ Len(next) = 1 /\ next[1] = Head(u)
            BY <3>1, <3>2
        <3> QED
            BY <3>1, <3>3
    <2> QED
        BY <2>1, <2>2
<1> HIDE DEF next
<1>11. /\ sent \in Seq(Line) /\ Len(sent) = Len(x) + Len(next) /\ Len(x) \in Nat /\ Len(next) \in Nat
       /\ \A i \in 1..Len(x) : sent[i] = x[i]
       /\ \A i \in 1..Len(next) : sent[Len(x) + i] = next[i]
    BY <1>5, <1>9, ConcatIs
<1>12. /\ Len(P) = Len(b) + Len(x) /\ Len(b) \in Nat
       /\ \A i \in 1..Len(b) : P[i] = b[i]
       /\ \A i \in 1..Len(x) : P[Len(b) + i] = x[i]
    BY <1>5, <1>6, ConcatIs
<1>13. Len(s) \in Nat /\ n \in Nat /\ k \in Nat /\ k <= Len(sent)
    BY <1>5, <1>11
<1> HIDE DEF sent
<1>10. /\ rest \in Seq(Line)
       /\ rest = <<>> \/ (k + 1 <= Len(sent) /\ Len(rest) = 1 /\ rest[1] \in PartsOf(sent[k + 1]))
    <2> DEFINE after == SubSeq(sent, k + 1, Len(sent))
    <2>1. /\ after \in Seq(Line) /\ Len(after) = Len(sent) - k
          /\ k + 1 <= Len(sent) => after[1] = sent[k + 1]
        BY <1>11, <1>13
    <2>2. after # <<>> => k + 1 <= Len(sent)
        <3> HIDE DEF after
        <3> QED
            BY <1>11, <1>13, <2>1, EmptySeq
    <2> QED
        BY <1>r, <2>1, <2>2, CutsAre
<1> DEFINE cutAt == SubSeq(sent, 1, k)
           got == cutAt \o rest
<1>14. cutAt \in Seq(Line) /\ Len(cutAt) = k /\ \A i \in 1..k : cutAt[i] = sent[i]
    <2>1. \A i \in 1..k : sent[i] \in Line
        BY <1>11, <1>13, ElementOfSeq
    <2> QED
        BY <1>13, <2>1, SubSeqProperties
<1>q. Q = b \o got
    BY <1>6
<1> HIDE DEF cutAt
<1>15. /\ got \in Seq(Line) /\ Len(got) = k + Len(rest) /\ Len(rest) \in Nat
       /\ \A i \in 1..k : got[i] = sent[i]
       /\ \A i \in 1..Len(rest) : got[k + i] = rest[i]
    BY <1>10, <1>14, ConcatIs
<1> HIDE DEF got
<1>16. /\ Len(Q) = Len(b) + Len(got) /\ Len(got) \in Nat
       /\ \A i \in 1..Len(b) : Q[i] = b[i]
       /\ \A i \in 1..Len(got) : Q[Len(b) + i] = got[i]
    BY <1>5, <1>q, <1>15, ConcatIs, ZenonT(30)
<1>17. ASSUME NEW j \in 1..Len(sent) PROVE n + (Len(b) + j) <= Len(s) /\ sent[j] = s[n + (Len(b) + j)]
    <2>1. CASE j \in 1..Len(x)
        <3>1. Len(b) + j \in 1..Len(P)
            BY <1>11, <1>12, <2>1
        <3> QED
            BY <1>7, <1>11, <1>12, <2>1, <3>1
    <2>2. CASE j \notin 1..Len(x)
        <3>1. j = Len(x) + 1 /\ Len(next) = 1
            <4>1. ASSUME NEW p \in Nat, NEW l \in Nat, NEW m \in Nat, NEW o \in Nat,
                         p \in 1..l, l = m + o, o <= 1, p \notin 1..m
                  PROVE  p = m + 1 /\ o = 1
                BY <4>1
            <4>2. j \in Nat /\ Len(sent) \in Nat /\ j \in 1..Len(sent)
                BY <1>11, <1>13
            <4>3. /\ Len(sent) = Len(x) + Len(next) /\ Len(next) <= 1
                  /\ Len(x) \in Nat /\ Len(next) \in Nat
                BY <1>9, <1>11, Zenon
            <4> QED
                BY <2>2, <4>1, <4>2, <4>3, Zenon
        <3>2. 1 \in 1..Len(u) /\ 1 \in 1..Len(next) /\ n + Len(P) + 1 = n + (Len(b) + j)
            BY <1>9, <1>11, <1>12, <1>13, <3>1
        <3>3. sent[j] = u[1]
            BY <1>9, <1>11, <3>1, <3>2
        <3>4. n + Len(P) + 1 <= Len(s)
            BY <1>7, <1>9, <1>11, <1>12, <1>13, <3>2
        <3> QED
            BY <1>7, <3>2, <3>3, <3>4
    <2> QED
        BY <2>1, <2>2
<1>18. ASSUME NEW i \in 1..Len(Q)
       PROVE  /\ n + i <= Len(s)
              /\ Q[i] = s[n + i] \/ (i = Len(Q) /\ Q[i] \in PartsOf(s[n + i]))
    <2>1. CASE i \in 1..Len(b)
        <3>1. i \in 1..Len(P)
            BY <1>11, <1>12, <2>1
        <3> QED
            BY <1>7, <1>12, <1>16, <2>1, <3>1
    <2>2. CASE i \notin 1..Len(b)
        <3>1. PICK j \in 1..Len(got) : i = Len(b) + j
            <4>1. i - Len(b) \in 1..Len(got) /\ i = Len(b) + (i - Len(b))
                BY <1>12, <1>16, <2>2
            <4> QED
                BY <4>1
        <3>2. CASE j \in 1..k
            <4>1. j \in 1..Len(sent)
                BY <1>11, <1>13, <3>2
            <4> QED
                BY <1>15, <1>16, <1>17, <3>1, <3>2, <4>1
        <3>3. CASE j \notin 1..k
            <4>1. Len(rest) # 0
                BY <1>13, <1>15, <3>1, <3>3
            <4>2. rest # <<>>
                BY <4>1
            <4>3. k + 1 <= Len(sent) /\ Len(rest) = 1 /\ rest[1] \in PartsOf(sent[k + 1])
                BY <1>10, <4>2
            <4>4. j = k + 1 /\ j = Len(got)
                BY <1>13, <1>15, <3>1, <3>3, <4>3
            <4>5. 1 \in 1..Len(rest)
                BY <4>3
            <4>6. got[j] \in PartsOf(sent[j])
                BY <1>15, <4>3, <4>4, <4>5
            <4>7. j \in 1..Len(sent)
                BY <1>11, <1>13, <4>3, <4>4
            <4>8. n + i <= Len(s) /\ sent[j] = s[n + i]
                BY <1>17, <3>1, <4>7
            <4>9. Q[i] \in PartsOf(s[n + i]) /\ i = Len(Q)
                BY <1>16, <3>1, <4>4, <4>6, <4>8
            <4> QED
                BY <4>8, <4>9
        <3> QED
            BY <3>2, <3>3
    <2> QED
        BY <2>1, <2>2
<1> QED
    BY <1>8, <1>18

\* What a client, its connection and its goroutine are.
Same(d) ==
    /\ conn'[d] = conn[d] /\ place'[d] = place[d] /\ client'[d] = client[d]
    /\ buffered'[d] = buffered[d] /\ inbox'[d] = inbox[d] /\ outbox'[d] = outbox[d]
    /\ ran'[d] = ran[d] /\ unsent'[d] = unsent[d] /\ received'[d] = received[d]
    /\ reset'[d] = reset[d]

\* The steps of a client, its connection and its goroutine.
OwnStep(c) ==
    \/ Accept(c) \/ CloseConn(c) \/ Handle(c)
    \/ Dial(c) \/ RunClient(c) \/ Die(c)

\* No input is ever rewritten.
LEMMA ScriptKept ==
    ASSUME [Next]_vars
    PROVE  script' = script
<1> USE DEF peer
<1>1. CASE Signal \/ AcceptFails \/ CloseListener \/ Wait \/ CloseEngine \/ Exit \/ UNCHANGED vars
    BY <1>1 DEF Signal, AcceptFails, CloseListener, Wait, CloseEngine, Exit, vars
<1>2. ASSUME NEW c \in Client, OwnStep(c) PROVE script' = script
    BY <1>2 DEF OwnStep, Accept, CloseConn, Handle, Read, Scan, EndOfInput, Return, Refuse, Begin,
                EndStatement, EngineIsGone, Answer, AnswerFails, Dial, RunClient, Send,
                StopSending, Receive, End, Die
<1> QED
    BY <1>1, <1>2 DEF Next, ShutDown, OwnStep

\* Steps that one client's connection takes leave every other as it is.
LEMMA OthersKept ==
    ASSUME TypeOK, NEW c \in Client, NEW d \in Client, d # c, OwnStep(c)
    PROVE  Same(d) /\ UNCHANGED server
<1> USE DEF Same, handler, peer, server
<1>1. CASE Accept(c) \/ Begin(c) \/ Read(c) \/ Scan(c)
    BY <1>1 DEF Accept, Begin, Read, Scan, TypeOK
<1>2. CASE CloseConn(c)
    <2>1. PICK rest : buffered' = [buffered EXCEPT ![c] = @ \o rest]
        BY <1>2 DEF CloseConn
    <2>2. buffered'[d] = buffered[d]
        BY <2>1 DEF TypeOK
    <2> QED
        BY <1>2, <2>2 DEF CloseConn, Closed
<1>3. CASE EndOfInput(c) \/ AnswerFails(c)
    BY <1>3 DEF EndOfInput, AnswerFails, Return, Closed, TypeOK
<1>4. CASE Refuse(c) \/ EndStatement(c) \/ EngineIsGone(c)
    BY <1>4, SMTT(30) DEF Refuse, EndStatement, EngineIsGone, Executed, TypeOK
<1>5. CASE Answer(c)
    BY <1>5 DEF Answer, TypeOK
<1>6. CASE Dial(c) \/ RunClient(c)
    BY <1>6 DEF Dial, RunClient, Send, StopSending, Receive, End, TypeOK
<1>7. CASE Die(c)
    <2>1. PICK left : inbox' = [inbox EXCEPT ![c] = left]
        BY <1>7 DEF Die
    <2> QED
        BY <1>7, <2>1 DEF Die, TypeOK
<1> QED
    BY <1>1, <1>2, <1>3, <1>4, <1>5, <1>6, <1>7 DEF OwnStep, Handle

\* A response goes from the socket to the client's output.
LEMMA ReceivedSeqs ==
    ASSUME TypeOK, NEW c \in Client, Receive(c)
    PROVE  /\ Len(outbox[c]) \in Nat \ {0} /\ Len(received[c]) \in Nat
           /\ Len(received'[c]) = Len(received[c]) + 1 /\ Len(outbox'[c]) = Len(outbox[c]) - 1
<1> DEFINE o == outbox[c]
           r == received[c]
<1>1. /\ o \in Seq(Response) /\ r \in Seq(Response) /\ o # <<>>
      /\ received'[c] = Append(r, Head(o)) /\ outbox'[c] = Tail(o)
    BY DEF Receive, TypeOK
<1> HIDE DEF o, r
<1>2. Len(o) \in Nat \ {0} /\ Len(r) \in Nat /\ Len(Tail(o)) = Len(o) - 1
    BY <1>1, HeadTailProperties
<1>3. Len(Append(r, Head(o))) = Len(r) + 1
    BY <1>1
<1> QED
    BY <1>1, <1>2, <1>3 DEF o, r

\* Nothing happens to the lines of a client.
LEMMA InputFrame ==
    ASSUME TypeOK, TypeOK', NEW d \in Client, InputInOrder(d), script' = script,
           ran'[d] = ran[d], unsent'[d] = unsent[d],
           buffered'[d] = buffered[d], inbox'[d] = inbox[d],
           CutOff(d) => CutOff(d)',
           CutOff(d) => received'[d] = received[d] /\ outbox'[d] = outbox[d]
    PROVE  InputInOrder(d)'
<1>1. Pending(d)' = Pending(d)
    BY DEF Pending
<1>2. \A i \in Nat : i <= i
    OBVIOUS
<1>3. CutOff(d) => Len(received'[d]) + Len(outbox'[d]) <= Len(received[d]) + Len(outbox[d])
    BY <1>2, AnswersCounted, Zenon
<1> QED
    BY <1>1, <1>3, InputKept

\* The scanner reads lines: they are pending as before.
LEMMA InputRead ==
    ASSUME TypeOK, TypeOK', NEW c \in Client, InputInOrder(c), Read(c)
    PROVE  InputInOrder(c)'
<1> DEFINE x == inbox[c]
<1>1. /\ script' = script /\ ran' = ran /\ unsent' = unsent /\ conn' = conn /\ client' = client
      /\ received' = received /\ outbox' = outbox /\ buffered[c] = <<>>
    BY DEF Read, peer
<1>2. PICK n \in 1..Len(x) : buffered'[c] = SubSeq(x, 1, n) /\ inbox'[c] = SubSeq(x, n + 1, Len(x))
    BY DEF Read, TypeOK
<1>3. x \in Seq(Line)
    BY DEF TypeOK
<1>4. Pending(c)' = SubSeq(x, 1, n) \o SubSeq(x, n + 1, Len(x)) /\ Pending(c) = <<>> \o x
    BY <1>1, <1>2 DEF Pending
<1> HIDE DEF x
<1>5. SubSeq(x, 1, n) \o SubSeq(x, n + 1, Len(x)) = x /\ <<>> \o x = x
    <2>1. Len(x) \in Nat /\ n \in 1..Len(x)
        BY <1>3
    <2>2. SubSeq(x, 1, n) \o SubSeq(x, n + 1, Len(x)) = SubSeq(x, 1, Len(x))
        BY <1>3, <2>1, ConcatAdjacentSubSeq
    <2>3. SubSeq(x, 1, Len(x)) = x
        BY <1>3, SubSeqFull
    <2>4. <<>> \o x = x
        BY <1>3, ConcatEmptySeq
    <2> QED
        BY <2>2, <2>3, <2>4
<1>6. CutOff(c) => CutOff(c)'
    BY <1>1 DEF CutOff
<1>7. \A i \in Nat : i <= i
    OBVIOUS
<1>8. Len(received'[c]) + Len(outbox'[c]) <= Len(received[c]) + Len(outbox[c])
    BY <1>1, <1>7, AnswersCounted, Zenon
<1> QED
    BY <1>1, <1>4, <1>5, <1>6, <1>8, InputKept

\* A step of the goroutine of c.
LEMMA InputHandled ==
    ASSUME IndInv, TypeOK', NEW c \in Client, Handle(c)
    PROVE  InputInOrder(c)'
<1>0. TypeOK /\ InputInOrder(c) /\ AnswersInOrder(c) /\ Lifecycle(c)
    BY DEF IndInv
<1>1. CASE Read(c)
    BY <1>0, <1>1, InputRead
<1>2. CASE Scan(c)
    <2>1. /\ script' = script /\ ran' = ran /\ unsent' = unsent /\ conn' = conn /\ client' = client
          /\ received' = received /\ outbox' = outbox /\ inbox' = inbox /\ buffered[c] # <<>>
          /\ \/ Head(buffered[c]) = "blank" /\ buffered' = [buffered EXCEPT ![c] = Tail(@)]
             \/ buffered' = buffered
        BY <1>2 DEF Scan, Skipped, peer
    <2>2. CutOff(c)' <=> CutOff(c)
        BY <2>1 DEF CutOff
    <2>3. CASE Head(buffered[c]) = "blank" /\ buffered' = [buffered EXCEPT ![c] = Tail(@)]
        <3>1. buffered'[c] = Tail(buffered[c])
            BY <1>0, <2>3 DEF TypeOK
        <3> QED
            BY <1>0, <2>1, <2>2, <2>3, <3>1, InputTaken
    <2>4. CASE buffered' = buffered
        BY <1>0, <2>1, <2>2, <2>4, InputFrame
    <2> QED
        BY <2>1, <2>3, <2>4
<1>3. CASE EndOfInput(c) \/ AnswerFails(c)
    <2>1. /\ script' = script /\ ran' = ran /\ conn'[c] = "closed" /\ inbox'[c] = <<>>
          /\ buffered'[c] = <<>> /\ received' = received /\ outbox' = outbox
        BY <1>0, <1>3 DEF EndOfInput, AnswerFails, Return, Closed, peer, TypeOK
    <2> QED
        BY <1>0, <2>1, InputClosed
<1>4. CASE Refuse(c) \/ EndStatement(c) \/ EngineIsGone(c)
    <2>1. PICK outcome \in Outcome :
            /\ place[c] = "executing" /\ buffered[c] # <<>> /\ Executed(c, outcome)
            /\ UNCHANGED <<server, late, peer, conn, inbox, outbox, reset>>
        BY <1>4, StatementEnds
    <2>2. Head(buffered[c]) # "blank"
        BY <2>1 DEF IndInv, TxnInStatement
    <2>3. /\ Len(ran'[c]) = Len(ran[c]) + 1
          /\ \A i \in 1..Len(ran[c]) : ran'[c][i] = ran[c][i]
          /\ ran'[c][Len(ran[c]) + 1].line = Head(buffered[c])
          /\ buffered'[c] = Tail(buffered[c])
        <3>1. /\ Len(ran'[c]) = Len(ran[c]) + 1
              /\ \A i \in 1..Len(ran[c]) : ran'[c][i] = ran[c][i]
              /\ ran'[c][Len(ran[c]) + 1] = [line |-> Head(buffered[c]), outcome |-> outcome]
              /\ buffered'[c] = Tail(buffered[c])
            BY <1>0, <2>1, ExecutedSeqs, Zenon
        <3> QED
            BY <3>1
    <2>4. CutOff(c)' <=> CutOff(c)
        BY <2>1 DEF CutOff, peer
    <2> QED
        BY <1>0, <2>1, <2>2, <2>3, <2>4, InputTaken DEF peer
<1>5. CASE Begin(c)
    <2>1. CutOff(c)' <=> CutOff(c)
        BY <1>5 DEF Begin, CutOff, peer
    <2> QED
        BY <1>0, <1>5, <2>1, InputFrame DEF Begin, peer
<1>6. CASE Answer(c)
    <2>1. /\ script' = script /\ ran' = ran /\ unsent' = unsent /\ conn' = conn /\ client' = client
          /\ received' = received /\ inbox' = inbox /\ buffered' = buffered
          /\ CutOff(c) => outbox' = outbox
        BY <1>6 DEF Answer, peer, CutOff
    <2>2. CutOff(c)' <=> CutOff(c)
        BY <2>1 DEF CutOff
    <2> QED
        BY <1>0, <2>1, <2>2, InputFrame
<1> QED
    BY <1>1, <1>2, <1>3, <1>4, <1>5, <1>6 DEF Handle

\* A step of the client c.
LEMMA InputOfClient ==
    ASSUME IndInv, TypeOK', NEW c \in Client, Dial(c) \/ RunClient(c) \/ Die(c)
    PROVE  InputInOrder(c)'
<1>0. TypeOK /\ InputInOrder(c) /\ Lifecycle(c)
    BY DEF IndInv
<1>1. CASE Dial(c)
    <2>1. CutOff(c) => CutOff(c)'
        BY <1>0, <1>1 DEF Dial, CutOff, Lifecycle, TypeOK
    <2> QED
        BY <1>0, <1>1, <2>1, InputFrame DEF Dial, handler
<1>2. CASE Send(c)
    BY <1>0, <1>2, InputSent
<1>3. CASE StopSending(c)
    <2>1. CutOff(c) => CutOff(c)'
        BY <1>0, <1>3 DEF StopSending, CutOff, TypeOK
    <2> QED
        BY <1>0, <1>3, <2>1, InputFrame DEF StopSending, handler
<1>4. CASE Receive(c)
    <2>1. /\ script' = script /\ ran' = ran /\ unsent' = unsent /\ conn' = conn /\ client' = client
          /\ inbox' = inbox /\ buffered' = buffered
        BY <1>4 DEF Receive, handler
    <2>2. (CutOff(c)' <=> CutOff(c)) /\ Pending(c)' = Pending(c)
        BY <2>1 DEF CutOff, Pending
    <2>3. Len(received'[c]) + Len(outbox'[c]) <= Len(received[c]) + Len(outbox[c])
        <3>1. \A i, j \in Nat : j # 0 => (i + 1) + (j - 1) <= i + j
            OBVIOUS
        <3>2. /\ Len(outbox[c]) \in Nat /\ Len(outbox[c]) # 0 /\ Len(received[c]) \in Nat
              /\ Len(received'[c]) = Len(received[c]) + 1 /\ Len(outbox'[c]) = Len(outbox[c]) - 1
            BY <1>0, <1>4, ReceivedSeqs
        <3> QED
            BY <3>1, <3>2, Zenon
    <2> QED
        BY <1>0, <2>1, <2>2, <2>3, InputKept
<1>5. CASE End(c)
    <2>1. /\ script' = script /\ ran' = ran /\ unsent' = unsent /\ conn' = conn
          /\ inbox' = inbox /\ buffered' = buffered /\ received' = received /\ outbox'[c] = <<>>
          /\ conn[c] = "closed"
        BY <1>0, <1>5 DEF End, handler, TypeOK
    <2>2. CutOff(c)' /\ Pending(c)' = Pending(c)
        BY <2>1 DEF CutOff, Pending
    <2>3. Len(received'[c]) + Len(outbox'[c]) <= Len(received[c]) + Len(outbox[c])
        <3>1. \A i, j \in Nat : i + 0 <= i + j
            OBVIOUS
        <3>2. Len(outbox'[c]) = 0
            BY <2>1
        <3> QED
            BY <1>0, <2>1, <3>1, <3>2, AnswersCounted, Zenon
    <2> QED
        BY <1>0, <2>1, <2>2, <2>3, InputKept
<1>6. CASE Die(c)
    BY <1>0, <1>6, InputDied
<1> QED
    BY <1>1, <1>2, <1>3, <1>4, <1>5, <1>6 DEF RunClient

LEMMA InputStep ==
    ASSUME IndInv, TypeOK', [Next]_vars, NEW d \in Client
    PROVE  InputInOrder(d)'
<1>0. TypeOK /\ InputInOrder(d) /\ Lifecycle(d) /\ script' = script
    BY ScriptKept DEF IndInv
<1>1. CASE Signal \/ AcceptFails \/ Wait \/ CloseEngine \/ UNCHANGED vars
    <2>1. UNCHANGED <<handler, peer, conn, inbox, outbox>>
        BY <1>1 DEF Signal, AcceptFails, Wait, CloseEngine, vars
    <2>2. CutOff(d)' <=> CutOff(d)
        BY <2>1 DEF CutOff, peer
    <2> QED
        BY <1>0, <2>1, <2>2, InputFrame DEF handler, peer
<1>2. CASE CloseListener
    <2>1. UNCHANGED <<handler, peer, outbox>>
        BY <1>2 DEF CloseListener
    <2>2. CASE conn[d] = "pending"
        <3>1. conn'[d] = "closed" /\ inbox'[d] = <<>>
            BY <1>2, <2>2 DEF CloseListener, Closed
        <3> QED
            BY <1>0, <2>1, <3>1, InputClosed DEF handler, peer
    <2>3. CASE conn[d] # "pending"
        <3>1. conn'[d] = conn[d] /\ inbox'[d] = inbox[d]
            BY <1>2, <2>3 DEF CloseListener, Closed
        <3>2. CutOff(d)' <=> CutOff(d)
            BY <2>1, <3>1 DEF CutOff, peer
        <3> QED
            BY <1>0, <2>1, <3>1, <3>2, InputFrame DEF handler, peer
    <2> QED
        BY <2>2, <2>3
<1>3. CASE Exit
    <2>1. UNCHANGED <<ran, peer, outbox>> /\ buffered'[d] = <<>>
        BY <1>3 DEF Exit
    <2>2. CASE conn[d] = "none"
        <3>1. conn'[d] = conn[d] /\ inbox'[d] = inbox[d]
            BY <1>3, <2>2 DEF Exit, Closed
        <3>2. buffered[d] = <<>>
            BY <1>0, <2>2 DEF Lifecycle
        <3>3. CutOff(d)' <=> CutOff(d)
            BY <2>1, <3>1 DEF CutOff, peer
        <3> QED
            BY <1>0, <2>1, <3>1, <3>2, <3>3, InputFrame DEF peer
    <2>3. CASE conn[d] # "none"
        <3>1. conn'[d] = "closed" /\ inbox'[d] = <<>>
            BY <1>0, <1>3, <2>3 DEF Exit, Closed, TypeOK, Lifecycle
        <3> QED
            BY <1>0, <2>1, <3>1, InputClosed DEF peer
    <2> QED
        BY <2>2, <2>3
<1>4. ASSUME NEW c \in Client, OwnStep(c), d # c PROVE InputInOrder(d)'
    <2>1. Same(d)
        BY <1>0, <1>4, OthersKept
    <2>2. CutOff(d)' <=> CutOff(d)
        BY <2>1 DEF CutOff, Same
    <2> QED
        BY <1>0, <2>1, <2>2, InputFrame DEF Same
<1>5. CASE Accept(d)
    <2>1. CutOff(d)' <=> CutOff(d)
        BY <1>0, <1>5 DEF Accept, CutOff, peer, TypeOK
    <2> QED
        BY <1>0, <1>5, <2>1, InputFrame DEF Accept, peer
<1>6. CASE CloseConn(d)
    <2>1. /\ conn'[d] = "closed" /\ inbox'[d] = <<>> /\ ran' = ran
          /\ received' = received /\ outbox' = outbox
        BY <1>6 DEF CloseConn, Closed, peer
    <2>2. \E rest \in Cuts(inbox[d]) : buffered'[d] = buffered[d] \o rest
        <3>1. PICK rest \in Cuts(inbox[d]) : buffered' = [buffered EXCEPT ![d] = @ \o rest]
            BY <1>6 DEF CloseConn
        <3>2. buffered'[d] = buffered[d] \o rest
            BY <1>0, <3>1 DEF TypeOK
        <3> QED
            BY <3>2
    <2> QED
        BY <1>0, <2>1, <2>2, InputClosed
<1>7. CASE Handle(d)
    BY <1>7, InputHandled
<1>8. CASE Dial(d) \/ RunClient(d) \/ Die(d)
    BY <1>8, InputOfClient
<1>9. ASSUME NEW c \in Client, OwnStep(c) PROVE InputInOrder(d)'
    BY <1>4, <1>5, <1>6, <1>7, <1>8, <1>9 DEF OwnStep
<1> QED
    BY <1>1, <1>2, <1>3, <1>9 DEF Next, ShutDown, OwnStep

-----------------------------------------------------------------------------
(***************************************************************************)
(* Which responses are on their way.                                       *)
(***************************************************************************)
Record == [line : Line, outcome : Outcome]

\* r, already received, and o, still on its way, answer the first lines of a.
Answering(r, o, a) ==
    /\ Len(r) + Len(o) <= Len(a)
    /\ \A i \in 1..Len(r) : r[i] = ResponseTo(a[i])
    /\ \A i \in 1..Len(o) : o[i] = ResponseTo(a[Len(r) + i])

\* Nothing happens to the responses of a client.
LEMMA AnswersFrame ==
    ASSUME NEW d \in Client, AnswersInOrder(d),
           ran'[d] = ran[d], received'[d] = received[d], outbox'[d] = outbox[d],
           CutOff(d) => CutOff(d)',
           ~CutOff(d)' => (place'[d] = "answering" <=> place[d] = "answering")
    PROVE  AnswersInOrder(d)'
BY DEF AnswersInOrder

\* One more line is executed.
LEMMA AnswersWhenExecuted ==
    ASSUME NEW r \in Seq(Response), NEW o \in Seq(Response), NEW a \in Seq(Record), NEW b,
           Answering(r, o, a), Len(b) = Len(a) + 1, \A i \in 1..Len(a) : b[i] = a[i]
    PROVE  Answering(r, o, b)
<1>1. Len(r) \in Nat /\ Len(o) \in Nat /\ Len(a) \in Nat /\ Len(r) + Len(o) <= Len(a)
    BY DEF Answering
<1>2. Len(r) + Len(o) <= Len(b)
    BY <1>1
<1>3. ASSUME NEW i \in 1..Len(r) PROVE r[i] = ResponseTo(b[i])
    <2>1. i \in 1..Len(a)
        BY <1>1
    <2>2. r[i] = ResponseTo(a[i]) /\ b[i] = a[i]
        BY <2>1 DEF Answering
    <2> QED
        BY <2>2
<1>4. ASSUME NEW i \in 1..Len(o) PROVE o[i] = ResponseTo(b[Len(r) + i])
    <2>1. Len(r) + i \in 1..Len(a)
        BY <1>1
    <2>2. o[i] = ResponseTo(a[Len(r) + i]) /\ b[Len(r) + i] = a[Len(r) + i]
        BY <2>1 DEF Answering
    <2> QED
        BY <2>2
<1> QED
    BY <1>2, <1>3, <1>4 DEF Answering

\* The last line executed is answered.
LEMMA AnswersWhenSent ==
    ASSUME NEW r \in Seq(Response), NEW o \in Seq(Response), NEW a \in Seq(Record),
           Answering(r, o, a), Len(a) = Len(r) + Len(o) + 1
    PROVE  LET p == Append(o, ResponseTo(Last(a)))
           IN  Answering(r, p, a) /\ Len(a) = Len(r) + Len(p)
<1> DEFINE p == Append(o, ResponseTo(Last(a)))
<1>1. Len(r) \in Nat /\ Len(o) \in Nat /\ Len(a) \in Nat
    OBVIOUS
<1>2. ResponseTo(Last(a)) \in Response /\ Last(a) = a[Len(a)]
    BY DEF ResponseTo, Response, Last
<1>3. /\ Len(p) = Len(o) + 1
      /\ \A i \in 1..Len(o) : p[i] = o[i]
      /\ p[Len(o) + 1] = ResponseTo(a[Len(a)])
    BY <1>2, AppendProperties
<1> HIDE DEF p
<1>4. ASSUME NEW i \in 1..Len(p) PROVE p[i] = ResponseTo(a[Len(r) + i])
    <2>1. i \in 1..Len(o) \/ (i = Len(o) + 1 /\ Len(r) + i = Len(a))
        <3>1. i \in 1..(Len(o) + 1)
            BY <1>1, <1>3
        <3>2. i \in 1..Len(o) \/ i = Len(o) + 1
            BY <1>1, <3>1
        <3>3. Len(r) + (Len(o) + 1) = Len(a)
            BY <1>1
        <3> QED
            BY <3>2, <3>3
    <2>2. CASE i \in 1..Len(o)
        BY <1>3, <2>2 DEF Answering
    <2>3. CASE i = Len(o) + 1 /\ Len(r) + i = Len(a)
        BY <1>3, <2>3
    <2> QED
        BY <2>1, <2>2, <2>3
<1>5. Len(r) + Len(p) <= Len(a) /\ Len(a) = Len(r) + Len(p)
    BY <1>1, <1>3
<1>6. Answering(r, p, a)
    BY <1>4, <1>5 DEF Answering
<1> QED
    BY <1>5, <1>6 DEF p

\* The first response on its way is received.
LEMMA AnswersWhenReceived ==
    ASSUME NEW r \in Seq(Response), NEW o \in Seq(Response), NEW a \in Seq(Record),
           Answering(r, o, a), o # <<>>
    PROVE  LET q == Append(r, Head(o))
               p == Tail(o)
           IN  Answering(q, p, a) /\ Len(q) + Len(p) = Len(r) + Len(o)
<1> DEFINE q == Append(r, Head(o))
           p == Tail(o)
<1>a. /\ Head(o) \in Response /\ Head(o) = o[1]
      /\ Len(p) = Len(o) - 1 /\ \A i \in 1..Len(p) : p[i] = o[i + 1]
    BY HeadTailProperties
<1>b. /\ Len(q) = Len(r) + 1 /\ \A i \in 1..Len(r) : q[i] = r[i]
      /\ q[Len(r) + 1] = o[1]
    BY <1>a, AppendProperties
<1>c. Len(o) # 0
    OBVIOUS
<1> HIDE DEF p, q
<1>1. Len(r) \in Nat /\ Len(o) \in Nat /\ Len(a) \in Nat /\ Len(r) + Len(o) <= Len(a)
    BY DEF Answering
<1>2. Len(q) + Len(p) = Len(r) + Len(o) /\ Len(q) + Len(p) <= Len(a)
    BY <1>1, <1>a, <1>b, <1>c
<1>3. ASSUME NEW i \in 1..Len(q) PROVE q[i] = ResponseTo(a[i])
    <2>1. CASE i \in 1..Len(r)
        BY <1>a, <1>b, <2>1 DEF Answering
    <2>2. CASE i = Len(r) + 1
        <3>1. 1 \in 1..Len(o)
            BY <1>1, <1>a, <1>b, <1>c
        <3> QED
            BY <1>b, <2>2, <3>1 DEF Answering
    <2> QED
        BY <1>1, <1>b, <2>1, <2>2
<1>4. ASSUME NEW i \in 1..Len(p) PROVE p[i] = ResponseTo(a[Len(q) + i])
    <2>1. i + 1 \in 1..Len(o) /\ Len(r) + (i + 1) = Len(q) + i
        BY <1>1, <1>a, <1>b, <1>c
    <2>2. p[i] = o[i + 1] /\ o[i + 1] = ResponseTo(a[Len(r) + (i + 1)])
        BY <1>a, <1>b, <2>1 DEF Answering
    <2> QED
        BY <2>1, <2>2
<1>5. Answering(q, p, a)
    BY <1>2, <1>3, <1>4 DEF Answering
<1> QED
    BY <1>2, <1>5 DEF p, q

\* The responses on their way are lost.
LEMMA AnswersWhenLost ==
    ASSUME NEW r \in Seq(Response), NEW o \in Seq(Response), NEW a \in Seq(Record),
           Answering(r, o, a)
    PROVE  Answering(r, <<>>, a)
<1>1. Len(r) \in Nat /\ Len(o) \in Nat /\ Len(a) \in Nat /\ Len(r) + Len(o) <= Len(a)
    BY DEF Answering
<1>2. Len(<<>>) = 0
    OBVIOUS
<1>3. Len(r) + Len(<<>>) <= Len(a)
    BY <1>1, <1>2
<1> QED
    BY <1>2, <1>3 DEF Answering

LEMMA AnswersStep ==
    ASSUME IndInv, TypeOK', [Next]_vars, NEW d \in Client
    PROVE  AnswersInOrder(d)'
<1>0. TypeOK /\ AnswersInOrder(d) /\ Lifecycle(d)
    BY DEF IndInv
<1>t. /\ received[d] \in Seq(Response) /\ outbox[d] \in Seq(Response) /\ ran[d] \in Seq(Record)
    BY <1>0 DEF TypeOK, Record
<1>a. Answering(received[d], outbox[d], ran[d])
    BY <1>0 DEF AnswersInOrder, Answering
<1>z. ASSUME Answering(received'[d], outbox'[d], ran'[d]),
             ~CutOff(d)' => Len(ran'[d]) = Len(received'[d]) + Len(outbox'[d])
                                           + (IF place'[d] = "answering" THEN 1 ELSE 0)
      PROVE  AnswersInOrder(d)'
    BY <1>z DEF AnswersInOrder, Answering
<1>1. CASE Signal \/ AcceptFails \/ Wait \/ CloseEngine \/ UNCHANGED vars
    <2>1. UNCHANGED <<handler, peer, conn, outbox>>
        BY <1>1 DEF Signal, AcceptFails, Wait, CloseEngine, vars
    <2>2. CutOff(d)' <=> CutOff(d)
        BY <2>1 DEF CutOff, peer
    <2> QED
        BY <1>0, <2>1, <2>2, AnswersFrame DEF handler, peer
<1>2. CASE CloseListener
    <2>1. UNCHANGED <<handler, peer, outbox>> /\ (conn[d] = "closed" => conn'[d] = "closed")
        BY <1>2 DEF CloseListener, Closed
    <2>2. CutOff(d) => CutOff(d)'
        BY <2>1 DEF CutOff, peer
    <2> QED
        BY <1>0, <2>1, <2>2, AnswersFrame DEF handler, peer
<1>3. CASE Exit
    <2>1. /\ UNCHANGED <<ran, peer, outbox>>
          /\ conn'[d] = IF conn[d] \in {"pending", "open"} THEN "closed" ELSE conn[d]
          /\ place'[d] = IF place[d] = "none" THEN "none" ELSE "done"
        BY <1>3 DEF Exit, Closed
    <2>2. CutOff(d) => CutOff(d)'
        BY <2>1 DEF CutOff, peer
    <2>3. ~CutOff(d)' => place[d] = "none"
        BY <1>0, <2>1 DEF CutOff, Lifecycle, TypeOK
    <2> QED
        BY <1>0, <2>1, <2>2, <2>3, AnswersFrame DEF peer
<1>4. ASSUME NEW c \in Client, OwnStep(c), d # c PROVE AnswersInOrder(d)'
    <2>1. Same(d)
        BY <1>0, <1>4, OthersKept
    <2>2. CutOff(d)' <=> CutOff(d)
        BY <2>1 DEF CutOff, Same
    <2> QED
        BY <1>0, <2>1, <2>2, AnswersFrame DEF Same
<1>5. CASE Accept(d) \/ Read(d) \/ Scan(d) \/ Begin(d)
    <2>1. /\ ran' = ran /\ received' = received /\ outbox' = outbox /\ client' = client
          /\ conn[d] = "closed" => conn'[d] = "closed"
          /\ place[d] # "answering" /\ place'[d] # "answering"
        BY <1>0, <1>5 DEF Accept, Read, Scan, Begin, Executing, peer, TypeOK, Lifecycle
    <2>2. CutOff(d) => CutOff(d)'
        BY <2>1 DEF CutOff
    <2> QED
        BY <1>0, <2>1, <2>2, AnswersFrame
<1>6. CASE CloseConn(d) \/ EndOfInput(d) \/ AnswerFails(d)
    <2>1. ran' = ran /\ received' = received /\ outbox' = outbox /\ conn'[d] = "closed"
        BY <1>6 DEF CloseConn, EndOfInput, AnswerFails, Return, Closed, peer
    <2>2. CutOff(d)'
        BY <2>1 DEF CutOff
    <2> QED
        BY <1>0, <2>1, <2>2, AnswersFrame
<1>7. CASE Refuse(d) \/ EndStatement(d) \/ EngineIsGone(d)
    <2>1. PICK outcome \in Outcome :
            /\ place[d] = "executing" /\ buffered[d] # <<>> /\ Executed(d, outcome)
            /\ UNCHANGED <<server, late, peer, conn, inbox, outbox, reset>>
        BY <1>7, StatementEnds
    <2>2. /\ Len(ran'[d]) = Len(ran[d]) + 1
          /\ \A i \in 1..Len(ran[d]) : ran'[d][i] = ran[d][i]
          /\ place'[d] = "answering"
        BY <1>0, <2>1, ExecutedSeqs, Zenon
    <2>3. received' = received /\ outbox' = outbox /\ client' = client /\ conn' = conn
        BY <2>1 DEF peer
    <2>4. Answering(received'[d], outbox'[d], ran'[d])
        BY <1>a, <1>t, <2>2, <2>3, AnswersWhenExecuted
    <2>5. CutOff(d)' <=> CutOff(d)
        BY <2>3 DEF CutOff
    <2>6. ASSUME ~CutOff(d)'
          PROVE  Len(ran'[d]) = Len(received'[d]) + Len(outbox'[d]) + 1
        <3>1. Len(ran[d]) = Len(received[d]) + Len(outbox[d]) + 0
            BY <1>0, <2>1, <2>5, <2>6 DEF AnswersInOrder
        <3>2. \A k, m, o \in Nat : k = m + o + 0 => k + 1 = m + o + 1
            OBVIOUS
        <3>3. Len(ran[d]) \in Nat
            BY <1>t
        <3>4. Len(ran[d]) + 1 = Len(received[d]) + Len(outbox[d]) + 1
            BY <1>0, <3>1, <3>2, <3>3, AnswersCounted, Zenon
        <3> QED
            BY <2>2, <2>3, <3>4, Zenon
    <2> QED
        BY <1>z, <2>2, <2>4, <2>6
<1>8. CASE Answer(d)
    <2>1. /\ ran' = ran /\ received' = received /\ client' = client /\ conn' = conn
          /\ place[d] = "answering" /\ place'[d] = "reading" /\ conn[d] = "open"
        BY <1>0, <1>8 DEF Answer, peer, TypeOK
    <2>2. CutOff(d)' <=> CutOff(d)
        BY <2>1 DEF CutOff
    <2>3. CASE client[d] = "dead"
        <3>1. outbox' = outbox /\ CutOff(d)
            BY <1>8, <2>3 DEF Answer, CutOff
        <3> QED
            BY <1>0, <2>1, <2>2, <3>1, AnswersFrame
    <2>4. CASE client[d] # "dead"
        <3>1. outbox'[d] = Append(outbox[d], ResponseTo(Last(ran[d])))
            BY <1>0, <1>8, <2>4 DEF Answer, TypeOK
        <3>2. ~CutOff(d)
            BY <2>1, <2>4 DEF CutOff
        <3>3. Len(ran[d]) = Len(received[d]) + Len(outbox[d]) + 1
            BY <1>0, <2>1, <3>2 DEF AnswersInOrder
        <3>4. /\ Answering(received[d], outbox'[d], ran[d])
              /\ Len(ran[d]) = Len(received[d]) + Len(outbox'[d])
            BY <1>a, <1>t, <3>1, <3>3, AnswersWhenSent
        <3>5. Len(received[d]) + Len(outbox'[d]) = Len(received[d]) + Len(outbox'[d]) + 0
            <4>1. Len(ran[d]) \in Nat
                BY <1>t
            <4>2. \A k \in Nat : k = k + 0
                OBVIOUS
            <4> QED
                BY <3>4, <4>1, <4>2, Zenon
        <3> QED
            BY <1>z, <2>1, <3>4, <3>5
    <2> QED
        BY <2>3, <2>4
<1>9. CASE Dial(d) \/ Send(d) \/ StopSending(d)
    <2>1. /\ ran' = ran /\ received' = received /\ outbox' = outbox /\ place' = place
          /\ CutOff(d) => CutOff(d)'
        BY <1>0, <1>9 DEF Dial, Send, StopSending, handler, CutOff, TypeOK, Lifecycle
    <2> QED
        BY <1>0, <2>1, AnswersFrame
<1>10. CASE Receive(d)
    <2>1. ran' = ran /\ place' = place /\ client' = client /\ conn' = conn
        BY <1>10 DEF Receive, handler
    <2>2. CutOff(d)' <=> CutOff(d)
        BY <2>1 DEF CutOff
    <2>3. /\ Answering(received'[d], outbox'[d], ran[d])
          /\ Len(received'[d]) + Len(outbox'[d]) = Len(received[d]) + Len(outbox[d])
        <3>1. /\ outbox[d] # <<>> /\ received'[d] = Append(received[d], Head(outbox[d]))
              /\ outbox'[d] = Tail(outbox[d])
            BY <1>0, <1>10 DEF Receive, TypeOK
        <3> QED
            BY <1>a, <1>t, <3>1, AnswersWhenReceived
    <2>4. ~CutOff(d)' => Len(ran[d]) = Len(received[d]) + Len(outbox[d])
                                       + (IF place[d] = "answering" THEN 1 ELSE 0)
        BY <1>0, <2>2 DEF AnswersInOrder
    <2> QED
        BY <1>z, <2>1, <2>3, <2>4, Zenon
<1>11. CASE End(d) \/ Die(d)
    <2>1. ran' = ran /\ received' = received /\ outbox'[d] = <<>> /\ CutOff(d)'
        BY <1>0, <1>11 DEF End, Die, handler, CutOff, TypeOK
    <2>2. Answering(received'[d], outbox'[d], ran'[d])
        BY <1>a, <1>t, <2>1, AnswersWhenLost
    <2> QED
        BY <1>z, <2>1, <2>2
<1>12. ASSUME NEW c \in Client, OwnStep(c) PROVE AnswersInOrder(d)'
    BY <1>4, <1>5, <1>6, <1>7, <1>8, <1>9, <1>10, <1>11, <1>12 DEF OwnStep, Handle, RunClient
<1> QED
    BY <1>1, <1>2, <1>3, <1>12 DEF Next, ShutDown, OwnStep

\* At the end of the input everything has been executed and answered.
LEMMA AllAnswered ==
    ASSUME TypeOK, NEW c \in Client, InputInOrder(c), AnswersInOrder(c), ~CutOff(c),
           place[c] # "answering", buffered[c] = <<>>, inbox[c] = <<>>, unsent[c] = <<>>
    PROVE  Len(received[c]) + Len(outbox[c]) = Len(Statements(c))
<1>1. PICK n \in 0..Len(script[c]) : InputUpTo(c, n)
    BY DEF InputInOrder
<1>2. Pending(c) = <<>> /\ script[c] \in Seq(Line)
    BY DEF Pending, TypeOK, Line
<1>3. Len(ran[c]) = Len(NonBlank(script[c])[n]) /\ n + Len(Pending(c)) + Len(unsent[c]) = Len(script[c])
    BY <1>1 DEF InputUpTo
<1>4. n = Len(script[c])
    <2>1. n \in Nat /\ Len(Pending(c)) = 0 /\ Len(unsent[c]) = 0
        BY <1>2
    <2>2. \A i \in Nat : i + 0 + 0 = i
        OBVIOUS
    <2> QED
        BY <1>3, <2>1, <2>2, Zenon
<1>5. Len(ran[c]) = Len(Statements(c))
    BY <1>3, <1>4 DEF Statements
<1>6. Len(ran[c]) = Len(received[c]) + Len(outbox[c]) + 0
    BY DEF AnswersInOrder
<1>7. \A i \in Nat : i + 0 = i
    OBVIOUS
<1> QED
    BY <1>5, <1>6, <1>7, AnswersCounted, Zenon

\* A line the scanner cannot hold is a line of the input.
LEMMA HugeIsInput ==
    ASSUME TypeOK, NEW c \in Client, InputInOrder(c), buffered[c] # <<>>, Head(buffered[c]) = "huge"
    PROVE  "huge" \in Range(script[c])
<1>1. PICK n \in 0..Len(script[c]) : InputUpTo(c, n)
    BY DEF InputInOrder
<1>2. /\ buffered[c] \in Seq(Line) /\ script[c] \in Seq(Line)
    BY DEF TypeOK, Line
<1>3. 1 \in 1..Len(buffered[c]) /\ buffered[c][1] = "huge"
    BY <1>2
<1>4. n + 1 <= Len(script[c]) /\ script[c][n + 1] = "huge"
    BY <1>1, <1>3, BufferedIs, PartsAre
<1>5. n + 1 \in DOMAIN script[c]
    BY <1>2, <1>4
<1> QED
    BY <1>4, <1>5 DEF Range

LEMMA NothingLostStep ==
    ASSUME IndInv, [Next]_vars, NEW d \in Client
    PROVE  NothingLost(d)'
<1>0. /\ TypeOK /\ Lifecycle(d) /\ InputInOrder(d) /\ AnswersInOrder(d) /\ NothingLost(d)
      /\ script' = script
    BY ScriptKept DEF IndInv
<1>s. Statements(d)' = Statements(d)
    BY <1>0 DEF Statements
<1>1. CASE Signal \/ CloseListener \/ Exit \/ CloseConn(d)
    BY <1>0, <1>1 DEF Signal, CloseListener, Exit, CloseConn, ConnMustClose, NothingLost, server
<1>2. CASE AcceptFails \/ Wait \/ CloseEngine \/ UNCHANGED vars
    <2>1. UNCHANGED <<signalled, exited, handler, peer, conn, inbox, outbox, reset>>
        BY <1>2 DEF AcceptFails, Wait, CloseEngine, vars, server
    <2> QED
        BY <1>0, <1>s, <2>1 DEF NothingLost, handler, peer
<1>3. ASSUME NEW c \in Client, OwnStep(c), d # c PROVE NothingLost(d)'
    <2>1. Same(d) /\ UNCHANGED server
        BY <1>0, <1>3, OthersKept
    <2> QED
        BY <1>0, <1>s, <2>1 DEF NothingLost, Same, server
<1>4. CASE Accept(d) \/ Dial(d) \/ Send(d) \/ Die(d)
    <2>1. conn'[d] # "closed" \/ client'[d] = "dead"
        BY <1>0, <1>4 DEF Accept, Dial, Send, Die, TypeOK
    <2> QED
        BY <2>1 DEF NothingLost
<1>5. CASE Read(d) \/ Scan(d) \/ Begin(d) \/ Answer(d)
    <2>1. /\ place[d] # "done" /\ UNCHANGED <<server, conn, client>>
        BY <1>5 DEF Read, Scan, Begin, Answer, Executing, peer
    <2> QED
        BY <1>0, <2>1 DEF NothingLost, server
<1>6. CASE Refuse(d) \/ EndStatement(d) \/ EngineIsGone(d)
    <2>1. /\ place[d] # "done" /\ UNCHANGED <<server, conn, client>>
        BY <1>6 DEF Refuse, EndStatement, EngineIsGone, Executing, peer
    <2> QED
        BY <1>0, <2>1 DEF NothingLost, server
<1>7. CASE AnswerFails(d)
    <2>1. /\ place[d] = "answering" /\ (conn[d] = "closed" \/ client[d] = "dead")
          /\ UNCHANGED <<server, client>>
        BY <1>7 DEF AnswerFails, Return, peer
    <2> QED
        BY <1>0, <2>1 DEF NothingLost, server
<1>8. CASE EndOfInput(d)
    <2>1. /\ place[d] = "reading" /\ InputIsOver(d) /\ place'[d] = "done"
          /\ reset'[d] = (reset[d] \/ inbox[d] # <<>>)
          /\ UNCHANGED <<server, peer, outbox>>
        BY <1>0, <1>8 DEF EndOfInput, Return, Closed, TypeOK
    <2> SUFFICES ASSUME ~signalled, ~exited, "huge" \notin Range(script[d]), client[d] # "dead"
                 PROVE  NothingLost(d)'
        BY <2>1 DEF NothingLost, server, peer
    <2>2. conn[d] # "closed"
        BY <1>0, <2>1 DEF NothingLost
    <2>3. conn[d] = "open" /\ client[d] \notin {"off", "ended"} /\ ~reset[d] /\ ~CutOff(d)
        BY <1>0, <2>1, <2>2 DEF Lifecycle, TypeOK, CutOff
    <2>4. buffered[d] = <<>> /\ inbox[d] = <<>> /\ client[d] # "sending"
        BY <1>0, <2>1, <2>2, HugeIsInput DEF InputIsOver
    <2>5. client[d] = "waiting"
        BY <1>0, <2>3, <2>4 DEF TypeOK
    <2>6. unsent[d] = <<>>
        BY <1>0, <2>2, <2>5 DEF Lifecycle
    <2>7. Len(received[d]) + Len(outbox[d]) = Len(Statements(d))
        BY <1>0, <2>1, <2>3, <2>4, <2>6, AllAnswered
    <2> QED
        BY <1>s, <2>1, <2>3, <2>4, <2>5, <2>6, <2>7 DEF NothingLost, peer
<1>9. CASE StopSending(d)
    <2>1. client[d] = "sending" /\ UNCHANGED <<server, conn>>
        BY <1>9 DEF StopSending
    <2> QED
        BY <1>0, <2>1 DEF NothingLost, server
<1>10. CASE Receive(d)
    <2>1. /\ client[d] \in {"sending", "waiting"}
          /\ UNCHANGED <<server, handler, script, unsent, client, conn, inbox, reset>>
        BY <1>10 DEF Receive, IsReceiving
    <2>2. Len(received'[d]) + Len(outbox'[d]) = Len(received[d]) + Len(outbox[d])
        <3>1. \A i, j \in Nat : j # 0 => (i + 1) + (j - 1) = i + j
            OBVIOUS
        <3>2. /\ Len(outbox[d]) \in Nat /\ Len(outbox[d]) # 0 /\ Len(received[d]) \in Nat
              /\ Len(received'[d]) = Len(received[d]) + 1 /\ Len(outbox'[d]) = Len(outbox[d]) - 1
            BY <1>0, <1>10, ReceivedSeqs
        <3> QED
            BY <3>1, <3>2, Zenon
    <2> QED
        BY <1>0, <1>s, <2>1, <2>2 DEF NothingLost, server, handler
<1>11. CASE End(d)
    <2>1. /\ client[d] = "waiting" /\ conn[d] = "closed" /\ (outbox[d] = <<>> \/ reset[d])
          /\ client'[d] = "ended" /\ outbox'[d] = <<>>
          /\ UNCHANGED <<server, handler, script, unsent, received, conn, inbox, reset>>
        BY <1>0, <1>11 DEF End, TypeOK
    <2> QED
        BY <1>0, <1>s, <2>1 DEF NothingLost, server, handler
<1>12. ASSUME NEW c \in Client, OwnStep(c) PROVE NothingLost(d)'
    BY <1>1, <1>3, <1>4, <1>5, <1>6, <1>7, <1>8, <1>9, <1>10, <1>11, <1>12
       DEF OwnStep, Handle, RunClient
<1> QED
    BY <1>1, <1>2, <1>12 DEF Next, ShutDown, OwnStep

-----------------------------------------------------------------------------
(***************************************************************************)
(* The invariant and what it gives.                                        *)
(***************************************************************************)
LEMMA InitInv == Init => IndInv
<1> SUFFICES ASSUME Init PROVE IndInv
    OBVIOUS
<1>1. TypeOK
    BY InitTypes
<1>2. Order
    BY DEF Init, Order, WaitIsOver, InHandler
<1> SUFFICES ASSUME NEW c \in Client
             PROVE  /\ Lifecycle(c) /\ TxnInStatement(c) /\ LateOnce(c)
                    /\ InputInOrder(c) /\ AnswersInOrder(c) /\ NothingLost(c)
    BY <1>1, <1>2 DEF IndInv
<1>3. /\ conn[c] = "none" /\ place[c] = "none" /\ client[c] = "off" /\ txn[c] = FALSE
      /\ late[c] = 0 /\ reset[c] = FALSE /\ ran[c] = <<>> /\ buffered[c] = <<>>
      /\ inbox[c] = <<>> /\ outbox[c] = <<>> /\ received[c] = <<>> /\ unsent[c] = script[c]
    BY DEF Init
<1>4. Lifecycle(c)
    BY <1>3 DEF Lifecycle
<1>5. TxnInStatement(c) /\ LateOnce(c) /\ NothingLost(c)
    BY <1>3 DEF TxnInStatement, LateOnce, NothingLost
<1>6. AnswersInOrder(c)
    BY <1>3 DEF AnswersInOrder
<1>7. InputInOrder(c)
    <2>1. script[c] \in Seq(Line) /\ Len(script[c]) \in Nat
        BY <1>1 DEF TypeOK, Line
    <2>2. NonBlank(script[c])[0] = <<>>
        BY <2>1, NonBlankStep
    <2>3. Pending(c) = <<>> /\ Len(<<>>) = 0
        BY <1>3 DEF Pending
    <2>4. /\ 0 + 0 + Len(script[c]) = Len(script[c])
          /\ \A i \in 1..Len(script[c]) : 0 + 0 + i = i
        BY <2>1
    <2>5. InputUpTo(c, 0)
        BY <1>3, <2>2, <2>3, <2>4 DEF InputUpTo
    <2> QED
        BY <2>1, <2>5 DEF InputInOrder
<1> QED
    BY <1>4, <1>5, <1>6, <1>7

LEMMA StepInv == IndInv /\ [Next]_vars => IndInv'
<1> SUFFICES ASSUME IndInv, [Next]_vars PROVE IndInv'
    OBVIOUS
<1>1. TypeOK'
    BY StepTypes DEF IndInv
<1>2. Order'
    BY OrderStep
<1>3. ASSUME NEW c \in Client
      PROVE  /\ Lifecycle(c)' /\ TxnInStatement(c)' /\ LateOnce(c)'
             /\ InputInOrder(c)' /\ AnswersInOrder(c)' /\ NothingLost(c)'
    BY <1>1, LifecycleStep, TxnStep, LateStep, InputStep, AnswersStep, NothingLostStep
<1> QED
    BY <1>1, <1>2, <1>3 DEF IndInv

(***************************************************************************)
(* Every line of every client's input is accounted for in every state of   *)
(* the server: executed, pending, unsent or cut off with its client; and   *)
(* so is every response (handleConnection, session.Execute, client).       *)
(***************************************************************************)
THEOREM Invariance == Spec => []IndInv
BY InitInv, StepInv, PTL DEF Spec

\* What has been executed is, line by line, what the input says, but for the
\* beginning of a line after the last whole one, which nobody is told about.
LEMMA RanIsInput ==
    ASSUME TypeOK, NEW c \in Client, InputInOrder(c), NEW i \in 1..Len(ran[c])
    PROVE  /\ i <= Len(Statements(c))
           /\ \/ ran[c][i].line = Statements(c)[i]
              \/ /\ i = Len(ran[c]) /\ ran[c][i].line \in PartsOf(Statements(c)[i])
                 /\ CutOff(c) /\ Len(received[c]) + Len(outbox[c]) < i
<1> DEFINE s == script[c]
           K == NonBlank(s)
           a == Len(received[c]) + Len(outbox[c])
           r == ran[c]
<1>1. PICK n \in 0..Len(s) : InputUpTo(c, n)
    BY DEF InputInOrder
<1>2. s \in Seq(Line) /\ r \in Seq(Record) /\ Statements(c) = K[Len(s)]
    <2>1. s \in Seq(Line)
        BY DEF TypeOK, Line
    <2>2. r \in Seq(Record)
        BY DEF TypeOK, Record
    <2> QED
        BY <2>1, <2>2 DEF Statements
<1>3. /\ \A j \in 1..Len(K[n]) : r[j].line = K[n][j]
      /\ \/ Len(r) = Len(K[n])
         \/ /\ Len(r) = Len(K[n]) + 1
            /\ n < Len(s) /\ r[Len(r)].line \in PartsOf(s[n + 1])
            /\ CutOff(c) /\ a <= Len(K[n])
    BY <1>1 DEF InputUpTo
<1>4. a \in Nat /\ Len(s) \in Nat /\ Len(r) \in Nat
    <2>1. a \in Nat
        BY AnswersCounted
    <2> HIDE DEF a, s, r
    <2> QED
        BY <1>2, <2>1
<1>5. n \in 0..Len(s) /\ Len(s) \in 0..Len(s)
    BY <1>4
<1>6. ASSUME NEW m \in 0..Len(s)
      PROVE  /\ K[m] \in Seq(Line) /\ K[Len(s)] \in Seq(Line)
             /\ Len(K[m]) <= Len(K[Len(s)])
             /\ \A j \in 1..Len(K[m]) : K[Len(s)][j] = K[m][j]
    <2>1. m <= Len(s)
        BY <1>4
    <2> QED
        BY <1>2, <1>5, <2>1, NonBlankGrows
<1>7. \A j \in 1..Len(s) : K[j] = IF s[j] = "blank" THEN K[j - 1] ELSE Append(K[j - 1], s[j])
    BY <1>2, NonBlankStep
<1>8. SUFFICES /\ i <= Len(K[Len(s)])
               /\ \/ r[i].line = K[Len(s)][i]
                  \/ /\ i = Len(r) /\ r[i].line \in PartsOf(K[Len(s)][i])
                     /\ CutOff(c) /\ a < i
    BY <1>2
<1>i. i \in 1..Len(r)
    OBVIOUS
<1> HIDE DEF s, K, a, r
<1>9. Len(K[n]) \in Nat /\ Len(K[Len(s)]) \in Nat
    BY <1>5, <1>6
<1>10. CASE i \in 1..Len(K[n])
    BY <1>3, <1>5, <1>6, <1>9, <1>10
<1>11. CASE i \notin 1..Len(K[n])
    <2>1. /\ Len(r) = Len(K[n]) + 1
          /\ n < Len(s) /\ r[Len(r)].line \in PartsOf(s[n + 1])
          /\ CutOff(c) /\ a <= Len(K[n])
        BY <1>3, <1>i, <1>11
    <2>2. i = Len(r) /\ i = Len(K[n]) + 1 /\ a < i
        BY <1>4, <1>9, <1>i, <1>11, <2>1
    <2>3. n + 1 \in 1..Len(s) /\ (n + 1) - 1 = n /\ n + 1 \in 0..Len(s)
        BY <1>4, <2>1
    <2>4. s[n + 1] # "blank" /\ s[n + 1] \in Line
        BY <1>2, <2>1, <2>3, PartsAre, ElementOfSeq
    <2>5. K[n + 1] = Append(K[n], s[n + 1])
        BY <1>7, <2>3, <2>4
    <2>6. Len(K[n + 1]) = Len(K[n]) + 1 /\ K[n + 1][Len(K[n]) + 1] = s[n + 1]
        BY <1>5, <1>6, <2>4, <2>5, AppendProperties
    <2>7. i \in 1..Len(K[n + 1]) /\ K[n + 1][i] = s[n + 1]
        BY <1>9, <2>2, <2>6
    <2>8. i <= Len(K[Len(s)]) /\ K[Len(s)][i] = s[n + 1]
        BY <1>6, <1>9, <2>2, <2>3, <2>6, <2>7
    <2> QED
        BY <2>1, <2>2, <2>8
<1> QED
    BY <1>10, <1>11

(***************************************************************************)
(* For every number of clients and every input: after a signal the engine  *)
(* is not closed under a statement, so no transaction is left unfinished.  *)
(***************************************************************************)
THEOREM ShutdownLeavesNothingAlways == Spec => []ShutdownLeavesNothing
<1>1. IndInv => ShutdownLeavesNothing
    <2> SUFFICES ASSUME IndInv, NEW c \in Client,
                        \/ txn[c] /\ (place[c] # "executing" \/ engine = "closed")
                        \/ \E i \in 1..Len(ran[c]) : ran[c][i].outcome = "dangling"
                 PROVE  serve = "failed"
        BY DEF ShutdownLeavesNothing
    <2>1. TxnInStatement(c)
        BY DEF IndInv
    <2> QED
        BY <2>1 DEF TxnInStatement
<1> QED
    BY <1>1, Invariance, PTL

(***************************************************************************)
(* The responses a client gets are, in order, those to the statements of   *)
(* its input, and "ok" stands for a commit (handleConnection).             *)
(***************************************************************************)
THEOREM AnswersAreTrueAlways == Spec => []AnswersAreTrue
<1>1. ASSUME IndInv, NEW c \in Client
      PROVE  LET answers == received[c] \o outbox[c]
             IN  /\ Len(answers) <= Len(ran[c])
                 /\ \A i \in 1..Len(answers) :
                        /\ ran[c][i].line = Statements(c)[i]
                        /\ answers[i] = "ok" <=> ran[c][i].outcome = "committed"
    <2> DEFINE r == received[c]
               o == outbox[c]
               answers == r \o o
    <2>0. TypeOK /\ InputInOrder(c) /\ AnswersInOrder(c)
        BY <1>1 DEF IndInv
    <2>1. r \in Seq(Response) /\ o \in Seq(Response) /\ ran[c] \in Seq(Record)
        BY <2>0 DEF TypeOK, Record
    <2>2. Answering(r, o, ran[c])
        BY <2>0 DEF AnswersInOrder, Answering
    <2>3. ASSUME NEW i \in 1..Len(ran[c]), i <= Len(r) + Len(o)
          PROVE  ran[c][i].line = Statements(c)[i]
        <3>1. Len(r) + Len(o) \in Nat
            BY <2>0, AnswersCounted
        <3>2. ran[c][i].line = Statements(c)[i] \/ Len(r) + Len(o) < i
            BY <2>0, <2>3, RanIsInput
        <3> HIDE DEF r, o
        <3> QED
            BY <2>3, <3>1, <3>2
    <2> HIDE DEF r, o
    <2>4. /\ Len(answers) = Len(r) + Len(o) /\ Len(r) \in Nat /\ Len(o) \in Nat
          /\ \A i \in 1..Len(answers) : answers[i] = IF i <= Len(r) THEN r[i] ELSE o[i - Len(r)]
        BY <2>1, ConcatProperties
    <2>5. Len(answers) <= Len(ran[c]) /\ Len(ran[c]) \in Nat
        BY <2>1, <2>2, <2>4 DEF Answering
    <2> HIDE DEF answers
    <2>6. ASSUME NEW i \in 1..Len(answers)
          PROVE  /\ ran[c][i].line = Statements(c)[i]
                 /\ answers[i] = "ok" <=> ran[c][i].outcome = "committed"
        <3>1. i \in 1..Len(ran[c]) /\ i <= Len(r) + Len(o)
            BY <2>4, <2>5
        <3>2. answers[i] = ResponseTo(ran[c][i])
            <4>1. CASE i <= Len(r)
                <5>1. i \in 1..Len(r)
                    BY <2>4, <4>1
                <5> QED
                    BY <2>2, <2>4, <4>1, <5>1 DEF Answering
            <4>2. CASE ~(i <= Len(r))
                <5>1. i - Len(r) \in 1..Len(o) /\ Len(r) + (i - Len(r)) = i
                    BY <2>4, <4>2
                <5> QED
                    BY <2>2, <2>4, <4>2, <5>1 DEF Answering
            <4> QED
                BY <4>1, <4>2
        <3> QED
            BY <2>3, <3>1, <3>2 DEF ResponseTo
    <2> QED
        BY <2>5, <2>6 DEF answers, r, o
<1>2. IndInv => AnswersAreTrue
    BY <1>1 DEF AnswersAreTrue
<1> QED
    BY <1>2, Invariance, PTL

(***************************************************************************)
(* No statement takes effect that the client has not sent in full,         *)
(* wherever a client dies or a connection is closed; the beginning of a    *)
(* line that is refused as a whole may, but only as the last thing on a    *)
(* broken connection, and without an answer (Execute, bufio.Scanner).      *)
(***************************************************************************)
THEOREM CommitsWhatWasSentAlways == Spec => []CommitsWhatWasSent
<1>1. ASSUME IndInv, NEW c \in Client, NEW i \in 1..Len(ran[c]), ran[c][i].outcome = "committed"
      PROVE  /\ i <= Len(Statements(c))
             /\ \/ ran[c][i].line = Statements(c)[i]
                \/ /\ ~Parses(Statements(c)[i])
                   /\ ran[c][i].line \in PartsOf(Statements(c)[i])
                   /\ i = Len(ran[c]) /\ CutOff(c)
                   /\ Len(received[c]) + Len(outbox[c]) < i
    <2>1. TypeOK /\ InputInOrder(c) /\ TxnInStatement(c)
        BY <1>1 DEF IndInv
    <2>2. Parses(ran[c][i].line)
        BY <1>1, <2>1 DEF TxnInStatement
    <2>3. \A l : \A p \in PartsOf(l) : Parses(p) => ~Parses(l)
        BY DEF PartsOf, Part, Parses
    <2> QED
        BY <2>1, <2>2, <2>3, RanIsInput
<1>2. IndInv => CommitsWhatWasSent
    BY <1>1 DEF CommitsWhatWasSent
<1> QED
    BY <1>2, Invariance, PTL

(***************************************************************************)
(* Once its connection is closed a goroutine takes up at most one more     *)
(* line, however many the scanner holds (handleConnection).                *)
(***************************************************************************)
THEOREM OneStatementAfterCloseAlways == Spec => []OneStatementAfterClose
<1>1. IndInv => OneStatementAfterClose
    BY DEF IndInv, LateOnce, OneStatementAfterClose
<1> QED
    BY <1>1, Invariance, PTL

(***************************************************************************)
(* A client that comes to its end while the server is up has an answer to  *)
(* every statement it was given (client: CloseWrite; server: EOF).         *)
(***************************************************************************)
THEOREM EndsWithAllAnswersAlways == Spec => []EndsWithAllAnswers
<1>1. ASSUME IndInv, NEW c \in Client, client[c] = "ended", ~signalled, ~exited,
             "huge" \notin Range(script[c])
      PROVE  Len(received[c]) = Len(Statements(c))
    <2>1. TypeOK /\ Lifecycle(c) /\ NothingLost(c)
        BY <1>1 DEF IndInv
    <2>2. conn[c] = "closed"
        BY <1>1, <2>1 DEF Lifecycle
    <2>3. Len(received[c]) + Len(outbox[c]) = Len(Statements(c)) /\ outbox[c] = <<>>
        BY <1>1, <2>1, <2>2 DEF NothingLost
    <2>4. Len(outbox[c]) = 0 /\ \A i \in Nat : i + 0 = i
        BY <2>3
    <2> QED
        BY <2>1, <2>3, <2>4, AnswersCounted, Zenon
<1>2. IndInv => EndsWithAllAnswers
    BY <1>1 DEF EndsWithAllAnswers
<1> QED
    BY <1>2, Invariance, PTL

=============================================================================

-------------------------------- MODULE Server --------------------------------
(***************************************************************************)
(* The server process and its clients: cmd/spacedb-server/main.go and      *)
(* cmd/spacedb-client/main.go.                                             *)
(*                                                                         *)
(* Serve accepts connections and gives each a goroutine; the goroutine     *)
(* reads a line, has a Session execute it, writes the response and reads   *)
(* on.  A signal ends the context, upon which AfterFunc closes the         *)
(* listener and every connection, each in a goroutine of its own.  run     *)
(* closes the disk engine when Serve has returned, and the process exits.  *)
(*                                                                         *)
(* A statement is what module Session says it is; here it begins a         *)
(* transaction, and commits it or rolls it back if the engine is still     *)
(* there.  Lines and responses travel in the sockets' bounded buffers.     *)
(***************************************************************************)
EXTENDS Naturals, Sequences, SequencesExt

CONSTANTS
    Client,
    Scripts,      \* the inputs clients may have; one without any is never started
    SocketBuffer  \* bound: lines, or responses, in one direction of a connection

(***************************************************************************)
(* A line of input: a statement, which may succeed or fail; one the parser *)
(* or the planner refuses; white space; or more than maxRequestSize bytes. *)
(***************************************************************************)
WholeLine == {"statement", "nonsense", "blank", "huge"}

(***************************************************************************)
(* The first bytes of a line whose end has not arrived: a "fragment" is no *)
(* statement by itself, a "remnant" is one, such as what is left of        *)
(* "INSERT ...; INSERT ...;" up to the first semicolon.                    *)
(***************************************************************************)
Part == {"fragment", "remnant"}

Line == WholeLine \cup Part

\* What can be left of a line.  A statement ends with its only semicolon
\* (Query: NoPrefixRuns), but a line that Parse refuses, or that is never
\* parsed because it is too long, may begin with a statement.  White space is
\* passed over whole or not, and a part is not cut again: it was cut there.
PartsOf(l) == {p \in Part : l \in {"nonsense", "huge"} \/ (l = "statement" /\ p = "fragment")}

\* What can be left of lines that were to arrive next, of which none has in full.
Cuts(lines) == {<<>>} \cup (IF lines = <<>> THEN {} ELSE {<<p>> : p \in PartsOf(Head(lines))})

ASSUME ServerAssumption ==
    /\ SocketBuffer \in Nat \ {0}
    /\ Scripts \subseteq [Client -> Seq(WholeLine)]

VARIABLES
    signalled,  \* SIGINT or SIGTERM has arrived: the context is done
    listener,   \* "open" or "closed"
    serve,      \* where Serve is: "accepting", "waiting" (clients.Wait), "returned" or "failed"
    engine,     \* the disk engine: "open" or "closed"
    exited,     \* the server process is gone
    conn,       \* the server's end of each connection
    place,      \* where the goroutine of each connection is
    buffered,   \* lines the scanner has read, from the one being executed on
    txn,        \* has the statement being executed begun a transaction?
    ran,        \* not in the code: lines executed so far and what came of them
    late,       \* not in the code: lines taken up after the connection was closed
    script,     \* the whole input of each client
    unsent,     \* what it has not sent yet
    client,     \* where each client is
    inbox,      \* lines on their way to the server
    outbox,     \* responses on their way to the client
    reset,      \* the connection was closed with data unread: responses may be lost
    received    \* the responses the client has written to its output

server == <<signalled, listener, serve, engine, exited>>
handler == <<place, buffered, txn, ran, late>>
peer == <<script, unsent, client, received>>
vars == <<server, handler, peer, conn, inbox, outbox, reset>>

Outcome == {"committed", "rolledBack", "refused", "dangling"}
Response == {"ok", "error"}

\* Sockets hold no more than their buffers, and one line cut short; there is
\* a line to execute, and an outcome to answer with.
WithinBounds(c) ==
    /\ Len(inbox[c]) <= (IF client[c] = "dead" THEN SocketBuffer + 1 ELSE SocketBuffer)
    /\ Len(outbox[c]) <= SocketBuffer
    /\ place[c] = "executing" => buffered[c] # <<>>
    /\ place[c] = "answering" => ran[c] # <<>>

TypeOK ==
    /\ signalled \in BOOLEAN /\ exited \in BOOLEAN
    /\ listener \in {"open", "closed"} /\ engine \in {"open", "closed"}
    /\ serve \in {"accepting", "waiting", "returned", "failed"}
    /\ conn \in [Client -> {"none", "pending", "open", "closed"}]
    /\ place \in [Client -> {"none", "reading", "executing", "answering", "done"}]
    /\ txn \in [Client -> BOOLEAN] /\ reset \in [Client -> BOOLEAN]
    /\ client \in [Client -> {"off", "sending", "waiting", "ended", "dead"}]
    /\ late \in [Client -> Nat]
    /\ script \in [Client -> Seq(WholeLine)]
    /\ unsent \in [Client -> Seq(WholeLine)]
    /\ inbox \in [Client -> Seq(Line)] /\ buffered \in [Client -> Seq(Line)]
    /\ outbox \in [Client -> Seq(Response)] /\ received \in [Client -> Seq(Response)]
    /\ ran \in [Client -> Seq([line : Line, outcome : Outcome])]
    /\ \A c \in Client : WithinBounds(c)

Init ==
    /\ signalled = FALSE /\ exited = FALSE
    /\ listener = "open" /\ serve = "accepting" /\ engine = "open"
    /\ conn = [c \in Client |-> "none"]
    /\ place = [c \in Client |-> "none"]
    /\ buffered = [c \in Client |-> <<>>]
    /\ txn = [c \in Client |-> FALSE]
    /\ ran = [c \in Client |-> <<>>]
    /\ late = [c \in Client |-> 0]
    /\ script \in Scripts
    /\ unsent = script
    /\ client = [c \in Client |-> "off"]
    /\ inbox = [c \in Client |-> <<>>]
    /\ outbox = [c \in Client |-> <<>>]
    /\ reset = [c \in Client |-> FALSE]
    /\ received = [c \in Client |-> <<>>]

InHandler(c) == place[c] \in {"reading", "executing", "answering"}

\* Closing a socket with unread data in it resets the connection.
Closed(closing) ==
    /\ conn' = [c \in Client |-> IF c \in closing THEN "closed" ELSE conn[c]]
    /\ reset' = [c \in Client |-> IF c \in closing THEN reset[c] \/ inbox[c] # <<>> ELSE reset[c]]
    /\ inbox' = [c \in Client |-> IF c \in closing THEN <<>> ELSE inbox[c]]

-----------------------------------------------------------------------------
(***************************************************************************)
(* The process: signal, Serve, run.                                        *)
(***************************************************************************)
\* SIGINT or SIGTERM; also run's deferred stop, which ends the context when
\* an error of Accept has made it close the engine.
Signal ==
    /\ ~signalled /\ ~exited
    /\ signalled' = TRUE
    /\ UNCHANGED <<listener, serve, engine, exited, handler, peer, conn, inbox, outbox, reset>>

\* AfterFunc(ctx, listener.Close), until Serve has returned an error.  The
\* system resets connections that nobody has accepted.
CloseListener ==
    /\ signalled /\ listener = "open" /\ serve # "failed"
    /\ listener' = "closed"
    /\ Closed({c \in Client : conn[c] = "pending"})
    /\ UNCHANGED <<signalled, serve, engine, exited, handler, peer, outbox>>

\* Accept returns a connection, and clients.Go starts its goroutine.
Accept(c) ==
    /\ serve = "accepting" /\ listener = "open"
    /\ conn[c] = "pending"
    /\ conn' = [conn EXCEPT ![c] = "open"]
    /\ place' = [place EXCEPT ![c] = "reading"]
    /\ UNCHANGED <<server, buffered, txn, ran, late, peer, inbox, outbox, reset>>

\* Accept returns an error: because the listener is closed, or, as with too
\* many open files, of itself.  Only in a shutdown does Serve wait.
AcceptFails ==
    /\ serve = "accepting"
    /\ serve' = IF signalled THEN "waiting" ELSE "failed"
    /\ UNCHANGED <<signalled, listener, engine, exited, handler, peer, conn, inbox, outbox, reset>>

\* Mutant: Serve returns without clients.Wait.
WaitIsOver_noWait == TRUE

WaitIsOver == \A c \in Client : ~InHandler(c)

Wait ==
    /\ serve = "waiting"
    /\ WaitIsOver
    /\ serve' = "returned"
    /\ UNCHANGED <<signalled, listener, engine, exited, handler, peer, conn, inbox, outbox, reset>>

\* run: disk.Close() once Serve has returned, with or without an error.
CloseEngine ==
    /\ serve \in {"returned", "failed"} /\ engine = "open"
    /\ engine' = "closed"
    /\ UNCHANGED <<signalled, listener, serve, exited, handler, peer, conn, inbox, outbox, reset>>

\* main returns or exits, and every goroutine is gone with it.
Exit ==
    /\ engine = "closed" /\ ~exited
    /\ exited' = TRUE
    /\ listener' = "closed"
    /\ place' = [c \in Client |-> IF place[c] = "none" THEN "none" ELSE "done"]
    /\ buffered' = [c \in Client |-> <<>>]
    /\ Closed({c \in Client : conn[c] \in {"pending", "open"}})
    /\ UNCHANGED <<signalled, serve, engine, txn, ran, late, peer, outbox>>

-----------------------------------------------------------------------------
(***************************************************************************)
(* handleConnection.                                                       *)
(***************************************************************************)
\* Mutant: AfterFunc closes the listener only.
ConnMustClose_never(c) == FALSE

ConnMustClose(c) == signalled /\ conn[c] = "open" /\ InHandler(c)

\* AfterFunc(ctx, conn.Close).  The scanner may have the first bytes of the
\* next line already; when its read fails it hands them out as a line.
CloseConn(c) ==
    /\ ConnMustClose(c)
    /\ Closed({c})
    /\ \E rest \in Cuts(inbox[c]) : buffered' = [buffered EXCEPT ![c] = @ \o rest]
    /\ UNCHANGED <<server, place, txn, ran, late, peer, outbox>>

\* The scanner reads what has arrived, whole lines at a time.
Read(c) ==
    /\ place[c] = "reading" /\ buffered[c] = <<>>
    /\ conn[c] = "open"
    /\ \E n \in 1..Len(inbox[c]) :
        /\ buffered' = [buffered EXCEPT ![c] = SubSeq(inbox[c], 1, n)]
        /\ inbox' = [inbox EXCEPT ![c] = SubSeq(@, n + 1, Len(@))]
    /\ UNCHANGED <<server, place, txn, ran, late, peer, conn, outbox, reset>>

\* Mutant: blank lines are executed, too.
Skipped_none(l) == FALSE

Skipped(l) == l = "blank"

\* Mutant: a blank line is not executed, but it is answered.
Scan_answersBlank(c) ==
    /\ place[c] = "reading" /\ buffered[c] # <<>> /\ Head(buffered[c]) # "huge"
    /\ IF Skipped(Head(buffered[c]))
       THEN /\ buffered' = [buffered EXCEPT ![c] = Tail(@)]
            /\ place' = [place EXCEPT ![c] = "answering"]
            /\ UNCHANGED late
       ELSE /\ place' = [place EXCEPT ![c] = "executing"]
            /\ late' = [late EXCEPT ![c] = IF conn[c] = "closed" THEN @ + 1 ELSE @]
            /\ UNCHANGED buffered
    /\ UNCHANGED <<server, txn, ran, peer, conn, inbox, outbox, reset>>

\* scanner.Scan returns the next line of its buffer; the loop passes over
\* blank ones and takes up the others, whether or not conn is still open.
Scan(c) ==
    /\ place[c] = "reading" /\ buffered[c] # <<>> /\ Head(buffered[c]) # "huge"
    /\ IF Skipped(Head(buffered[c]))
       THEN buffered' = [buffered EXCEPT ![c] = Tail(@)] /\ UNCHANGED <<place, late>>
       ELSE /\ place' = [place EXCEPT ![c] = "executing"]
            /\ late' = [late EXCEPT ![c] = IF conn[c] = "closed" THEN @ + 1 ELSE @]
            /\ UNCHANGED buffered
    /\ UNCHANGED <<server, txn, ran, peer, conn, inbox, outbox, reset>>

\* Mutant: the end of the input is noticed before the lines ahead of it.
InputIsOver_eager(c) == conn[c] = "closed" \/ client[c] \notin {"sending"}

\* scanner.Scan returns false: the end of the input, a failed read, or a line
\* that does not fit in the buffer.
InputIsOver(c) ==
    \/ buffered[c] = <<>> /\ conn[c] = "closed"
    \/ buffered[c] = <<>> /\ inbox[c] = <<>> /\ client[c] # "sending"
    \/ buffered[c] # <<>> /\ Head(buffered[c]) = "huge"

\* handleConnection returns, and the deferred conn.Close runs.
Return(c) ==
    /\ place' = [place EXCEPT ![c] = "done"]
    /\ buffered' = [buffered EXCEPT ![c] = <<>>]
    /\ Closed({c})
    /\ UNCHANGED <<server, txn, ran, late, peer, outbox>>

EndOfInput(c) ==
    /\ place[c] = "reading"
    /\ InputIsOver(c)
    /\ Return(c)

-----------------------------------------------------------------------------
(***************************************************************************)
(* session.Execute.                                                        *)
(***************************************************************************)
\* Mutant: a statement need not end with a semicolon.
Parses_unterminated(l) == l \in {"statement", "remnant", "fragment"}

\* parser.Parse and planner.Build succeed.  A statement that is cut short
\* lacks its semicolon.
Parses(l) == l \in {"statement", "remnant"}

Executing(c) == place[c] = "executing"

Executed(c, outcome) ==
    /\ ran' = [ran EXCEPT ![c] = Append(@, [line |-> Head(buffered[c]), outcome |-> outcome])]
    /\ buffered' = [buffered EXCEPT ![c] = Tail(@)]
    /\ place' = [place EXCEPT ![c] = "answering"]

Refuse(c) ==
    /\ Executing(c) /\ ~txn[c]
    /\ Parses(Head(buffered[c])) => engine = "closed"
    /\ Executed(c, "refused")
    /\ UNCHANGED <<server, txn, late, peer, conn, inbox, outbox, reset>>

Begin(c) ==
    /\ Executing(c) /\ ~txn[c]
    /\ Parses(Head(buffered[c])) /\ engine = "open"
    /\ txn' = [txn EXCEPT ![c] = TRUE]
    /\ UNCHANGED <<server, place, buffered, ran, late, peer, conn, inbox, outbox, reset>>

\* The transaction ends, one way or the other, while the engine is open.
EndStatement(c) ==
    /\ Executing(c) /\ txn[c]
    /\ engine = "open"
    /\ \E outcome \in {"committed", "rolledBack"} : Executed(c, outcome)
    /\ txn' = [txn EXCEPT ![c] = FALSE]
    /\ UNCHANGED <<server, late, peer, conn, inbox, outbox, reset>>

\* Every call fails on a closed engine, Commit and Rollback too: the
\* transaction keeps its marker, and Execute drops it.
EngineIsGone(c) ==
    /\ Executing(c) /\ txn[c]
    /\ engine = "closed"
    /\ Executed(c, "dangling")
    /\ txn' = [txn EXCEPT ![c] = FALSE]
    /\ UNCHANGED <<server, late, peer, conn, inbox, outbox, reset>>

ResponseTo(r) == IF r.outcome = "committed" THEN "ok" ELSE "error"

\* WriteString and Flush succeed.  What a dead client is sent is lost.
Answer(c) ==
    /\ place[c] = "answering" /\ conn[c] = "open"
    /\ client[c] # "dead" => Len(outbox[c]) < SocketBuffer
    /\ outbox' = IF client[c] = "dead" THEN outbox
                 ELSE [outbox EXCEPT ![c] = Append(@, ResponseTo(Last(ran[c])))]
    /\ place' = [place EXCEPT ![c] = "reading"]
    /\ UNCHANGED <<server, buffered, txn, ran, late, peer, conn, inbox, reset>>

\* Mutant: the loop goes on when a response cannot be written.
AnswerFails_readsOn(c) ==
    /\ place[c] = "answering"
    /\ conn[c] = "closed" \/ client[c] = "dead"
    /\ place' = [place EXCEPT ![c] = "reading"]
    /\ UNCHANGED <<server, buffered, txn, ran, late, peer, conn, inbox, outbox, reset>>

\* Flush returns an error, and handleConnection returns it.
AnswerFails(c) ==
    /\ place[c] = "answering"
    /\ conn[c] = "closed" \/ client[c] = "dead"
    /\ Return(c)

Handle(c) ==
    \/ Read(c)
    \/ Scan(c)
    \/ EndOfInput(c)
    \/ Refuse(c)
    \/ Begin(c)
    \/ EndStatement(c)
    \/ EngineIsGone(c)
    \/ Answer(c)
    \/ AnswerFails(c)

-----------------------------------------------------------------------------
(***************************************************************************)
(* The client: one goroutine copies its input to the connection, another   *)
(* the responses to its output.                                            *)
(***************************************************************************)
Dial(c) ==
    /\ client[c] = "off" /\ script[c] # <<>>
    /\ listener = "open"
    /\ client' = [client EXCEPT ![c] = "sending"]
    /\ conn' = [conn EXCEPT ![c] = "pending"]
    /\ UNCHANGED <<server, handler, script, unsent, received, inbox, outbox, reset>>

Send(c) ==
    /\ client[c] = "sending" /\ unsent[c] # <<>>
    /\ conn[c] # "closed" /\ Len(inbox[c]) < SocketBuffer
    /\ inbox' = [inbox EXCEPT ![c] = Append(@, Head(unsent[c]))]
    /\ unsent' = [unsent EXCEPT ![c] = Tail(@)]
    /\ UNCHANGED <<server, handler, script, client, received, conn, outbox, reset>>

\* The input is at its end and CloseWrite tells the server, or the server
\* has closed the connection and the write fails, which resets it.
StopSending(c) ==
    /\ client[c] = "sending"
    /\ unsent[c] = <<>> \/ conn[c] = "closed"
    /\ client' = [client EXCEPT ![c] = "waiting"]
    /\ reset' = [reset EXCEPT ![c] = @ \/ unsent[c] # <<>>]
    /\ UNCHANGED <<server, handler, script, unsent, received, conn, inbox, outbox>>

\* Mutant: responses are read when everything has been sent.
IsReceiving_afterSending(c) == client[c] = "waiting"

IsReceiving(c) == client[c] \in {"sending", "waiting"}

Receive(c) ==
    /\ IsReceiving(c)
    /\ outbox[c] # <<>>
    /\ received' = [received EXCEPT ![c] = Append(@, Head(outbox[c]))]
    /\ outbox' = [outbox EXCEPT ![c] = Tail(@)]
    /\ UNCHANGED <<server, handler, script, unsent, client, conn, inbox, reset>>

\* The responses are at their end, and so is the client; if the connection
\* was reset, the last ones may be lost.
End(c) ==
    /\ client[c] = "waiting" /\ conn[c] = "closed"
    /\ outbox[c] = <<>> \/ reset[c]
    /\ client' = [client EXCEPT ![c] = "ended"]
    /\ outbox' = [outbox EXCEPT ![c] = <<>>]
    /\ UNCHANGED <<server, handler, script, unsent, received, conn, inbox, reset>>

\* The client dies.  Of what it has sent, and of the line it was sending, the
\* server gets a part that may end within a line.
Die(c) ==
    /\ client[c] \in {"sending", "waiting"} /\ conn[c] = "open"
    /\ LET sent == inbox[c] \o (IF unsent[c] = <<>> THEN <<>> ELSE <<Head(unsent[c])>>)
       IN  \E n \in 0..Len(sent) : \E rest \in Cuts(SubSeq(sent, n + 1, Len(sent))) :
            inbox' = [inbox EXCEPT ![c] = SubSeq(sent, 1, n) \o rest]
    /\ client' = [client EXCEPT ![c] = "dead"]
    /\ outbox' = [outbox EXCEPT ![c] = <<>>]
    /\ UNCHANGED <<server, handler, script, unsent, received, conn, reset>>

RunClient(c) == Send(c) \/ StopSending(c) \/ Receive(c) \/ End(c)

-----------------------------------------------------------------------------
\* The shutdown, once it has begun.
ShutDown == CloseListener \/ Wait \/ CloseEngine \/ Exit

Next ==
    \/ Signal
    \/ AcceptFails
    \/ ShutDown
    \/ \E c \in Client :
        \/ Accept(c)
        \/ CloseConn(c)
        \/ Handle(c)
        \/ Dial(c)
        \/ RunClient(c)
        \/ Die(c)

Spec == Init /\ [][Next]_vars

(***************************************************************************)
(* Goroutines that can run do run, Execute comes to an end (Session:       *)
(* NobodyWaits), and Accept returns an error once the listener is closed.  *)
(* Nothing is assumed of clients, signals and errors of Accept.            *)
(***************************************************************************)
ServerFairness ==
    /\ WF_vars(CloseListener) /\ WF_vars(Wait) /\ WF_vars(CloseEngine) /\ WF_vars(Exit)
    /\ WF_vars(listener = "closed" /\ AcceptFails)
    /\ \A c \in Client : WF_vars(Accept(c)) /\ WF_vars(CloseConn(c)) /\ WF_vars(Handle(c))

FairSpec == Spec /\ ServerFairness

\* A client whose input is a file, and which is left alone.
ClientFairness(c) == WF_vars(Send(c)) /\ WF_vars(StopSending(c)) /\ WF_vars(Receive(c)) /\ WF_vars(End(c))

-----------------------------------------------------------------------------
(***************************************************************************)
(* Correctness.                                                            *)
(***************************************************************************)
\* Of the first n lines of an input, those that are not blank.
NonBlank(input) ==
    LET kept[n \in 0..Len(input)] ==
            IF n = 0 THEN <<>>
            ELSE IF input[n] = "blank" THEN kept[n - 1] ELSE Append(kept[n - 1], input[n])
    IN  kept

Statements(c) == NonBlank(script[c])[Len(script[c])]

\* Nothing more comes from this client.
CutOff(c) == client[c] = "dead" \/ conn[c] = "closed"

(***************************************************************************)
(* A shutdown by signal leaves no transaction unfinished: the engine stays *)
(* open until the last statement has ended, although every connection may  *)
(* be closed under it (Serve: clients.Wait; run: disk.Close).  Only the    *)
(* other way out, an error of Accept, can leave one behind.                *)
(***************************************************************************)
ShutdownLeavesNothing ==
    \A c \in Client :
        \/ txn[c] /\ (place[c] # "executing" \/ engine = "closed")
        \/ \E i \in 1..Len(ran[c]) : ran[c][i].outcome = "dangling"
        => serve = "failed"

(***************************************************************************)
(* The i-th response a client gets is about the i-th statement of its      *)
(* input, and it is "ok" exactly if that statement has committed, also     *)
(* when the engine is closed or the server exits at that moment            *)
(* (handleConnection: blank lines have no response; Execute: the result    *)
(* is returned after Commit).                                              *)
(***************************************************************************)
AnswersAreTrue ==
    \A c \in Client :
        LET answers == received[c] \o outbox[c]
        IN  /\ Len(answers) <= Len(ran[c])
            /\ \A i \in 1..Len(answers) :
                /\ ran[c][i].line = Statements(c)[i]
                /\ answers[i] = "ok" <=> ran[c][i].outcome = "committed"

(***************************************************************************)
(* What is committed is what the client has sent, statement by statement.  *)
(* A statement whose end got lost, because the client died or the server   *)
(* closed the connection while it was being read, never takes effect:      *)
(* bufio.Scanner hands it to Execute all the same, but Parse wants the     *)
(* semicolon.  Of a line that would have been refused as a whole the       *)
(* beginning may be committed, if it is a statement; then it is the last   *)
(* thing that is done for a connection nothing more comes from, and nobody *)
(* is told (handleConnection: Scan, Execute; Parse: what follows the       *)
(* semicolon).                                                             *)
(***************************************************************************)
CommitsWhatWasSent ==
    \A c \in Client : \A i \in 1..Len(ran[c]) :
        ran[c][i].outcome = "committed" =>
            /\ i <= Len(Statements(c))
            /\ \/ ran[c][i].line = Statements(c)[i]
               \/ /\ ~Parses(Statements(c)[i])
                  /\ ran[c][i].line \in PartsOf(Statements(c)[i])
                  /\ i = Len(ran[c]) /\ CutOff(c)
                  /\ Len(received[c]) + Len(outbox[c]) < i

(***************************************************************************)
(* Of the lines the scanner has read when its connection is closed, at     *)
(* most one is still executed: the loop does not look at the context, and  *)
(* ends when it cannot write that line's response.                         *)
(***************************************************************************)
OneStatementAfterClose == \A c \in Client : late[c] <= 1

(***************************************************************************)
(* While the server is up, a client that has come to its end has all its   *)
(* answers, those to lines still in the sockets when it stopped sending    *)
(* included (client: CloseWrite, then wait for the responses; server: EOF  *)
(* ends the loop after the last line).  A line that is too long ends the   *)
(* connection and excuses the rest.                                        *)
(***************************************************************************)
EndsWithAllAnswers ==
    \A c \in Client :
        client[c] = "ended" /\ ~signalled /\ ~exited /\ "huge" \notin Range(script[c]) =>
            Len(received[c]) = Len(Statements(c))

(***************************************************************************)
(* After a signal the server exits, whatever its clients do: one that      *)
(* sends nothing, or reads no responses, does not hold it up (AfterFunc    *)
(* closes its connection, which ends the read or the write).               *)
(***************************************************************************)
ShutdownCompletes == signalled ~> exited

(***************************************************************************)
(* A client that keeps sending and receiving comes to its end: server and  *)
(* client never block each other with full sockets, because the client     *)
(* receives while it sends; and the end of its input, a shutdown or an     *)
(* error on either side reaches it (client: run).                          *)
(***************************************************************************)
ClientsEnd ==
    \A c \in Client :
        ClientFairness(c) => (client[c] = "sending" ~> client[c] \in {"ended", "dead"})

(***************************************************************************)
(* The inductive invariant behind the six invariants above.                *)
(***************************************************************************)
\* The parts of the process end in order: Serve, the engine, the process.
Order ==
    /\ engine = "closed" => serve \in {"returned", "failed"}
    /\ exited => engine = "closed"
    /\ serve = "returned" \/ exited => WaitIsOver

\* A connection is used from Dial on, its goroutine runs from Accept on.
Lifecycle(c) ==
    /\ conn[c] = "none" <=> client[c] = "off"
    /\ conn[c] = "none" => inbox[c] = <<>> /\ unsent[c] = script[c]
    /\ conn[c] \in {"none", "pending"} => place[c] = "none" /\ client[c] # "dead"
    /\ place[c] = "none" => /\ buffered[c] = <<>> /\ ran[c] = <<>> /\ late[c] = 0
                            /\ outbox[c] = <<>> /\ received[c] = <<>>
    /\ conn[c] # "closed" => place[c] # "done" /\ client[c] # "ended" /\ ~reset[c]
    /\ conn[c] = "closed" => inbox[c] = <<>>
    /\ client[c] = "waiting" /\ conn[c] # "closed" => unsent[c] = <<>>

\* A transaction is open only within a line that is a statement.
TxnInStatement(c) ==
    /\ txn[c] => place[c] = "executing" \/ (serve = "failed" /\ exited)
    /\ txn[c] /\ place[c] = "executing" => Parses(Head(buffered[c]))
    /\ txn[c] /\ engine = "closed" => serve = "failed"
    /\ place[c] = "executing" => Head(buffered[c]) # "blank"
    /\ \A i \in 1..Len(ran[c]) :
        /\ ran[c][i].outcome = "committed" => Parses(ran[c][i].line)
        /\ ran[c][i].outcome = "dangling" => serve = "failed"

LateOnce(c) ==
    late[c] # 0 => /\ late[c] = 1 /\ conn[c] = "closed"
                   /\ place[c] \in {"executing", "answering", "done"}

Pending(c) == buffered[c] \o inbox[c]

(***************************************************************************)
(* The first n lines of the input are behind the goroutine, executed       *)
(* except for the blank ones, and what follows is pending and then unsent. *)
(* Once the client is cut off, the pending lines may lack an end, and the  *)
(* last of them may be the beginning of a line; when that has been         *)
(* executed, nothing is left.                                              *)
(***************************************************************************)
InputUpTo(c, n) ==
    LET done == NonBlank(script[c])[n]
    IN  /\ \A i \in 1..Len(done) : i <= Len(ran[c]) /\ ran[c][i].line = done[i]
        /\ \/ Len(ran[c]) = Len(done)
           \/ /\ Len(ran[c]) = Len(done) + 1
              /\ n < Len(script[c]) /\ ran[c][Len(ran[c])].line \in PartsOf(script[c][n + 1])
              /\ Pending(c) = <<>> /\ CutOff(c)
              /\ Len(received[c]) + Len(outbox[c]) <= Len(done)
        /\ \A i \in 1..Len(Pending(c)) :
            /\ n + i <= Len(script[c])
            /\ \/ Pending(c)[i] = script[c][n + i]
               \/ i = Len(Pending(c)) /\ Pending(c)[i] \in PartsOf(script[c][n + i]) /\ CutOff(c)
        /\ ~CutOff(c) =>
            /\ n + Len(Pending(c)) + Len(unsent[c]) = Len(script[c])
            /\ \A i \in 1..Len(unsent[c]) : unsent[c][i] = script[c][n + Len(Pending(c)) + i]

InputInOrder(c) == \E n \in 0..Len(script[c]) : InputUpTo(c, n)

\* Responses are those to the first lines executed, and, as long as the
\* client is there to receive them, to all of them.
AnswersInOrder(c) ==
    /\ Len(received[c]) + Len(outbox[c]) <= Len(ran[c])
    /\ \A i \in 1..Len(received[c]) : received[c][i] = ResponseTo(ran[c][i])
    /\ \A i \in 1..Len(outbox[c]) : outbox[c][i] = ResponseTo(ran[c][Len(received[c]) + i])
    /\ ~CutOff(c) =>
        Len(ran[c]) = Len(received[c]) + Len(outbox[c]) + (IF place[c] = "answering" THEN 1 ELSE 0)

\* While the server is up, only the end of the input closes a connection.
NothingLost(c) ==
    ~signalled /\ ~exited /\ "huge" \notin Range(script[c]) /\ client[c] # "dead" /\ conn[c] = "closed" =>
        /\ place[c] = "done" /\ client[c] \in {"waiting", "ended"} /\ ~reset[c] /\ unsent[c] = <<>>
        /\ Len(received[c]) + Len(outbox[c]) = Len(Statements(c))
        /\ client[c] = "ended" => outbox[c] = <<>>

(***************************************************************************)
(* What keeps the invariants above true from step to step: the order of    *)
(* the shutdown, where each line of the input is, and which responses are  *)
(* on their way.                                                           *)
(***************************************************************************)
IndInv ==
    /\ TypeOK
    /\ Order
    /\ \A c \in Client :
        /\ Lifecycle(c)
        /\ TxnInStatement(c)
        /\ LateOnce(c)
        /\ InputInOrder(c)
        /\ AnswersInOrder(c)
        /\ NothingLost(c)

=============================================================================

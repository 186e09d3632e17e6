------------------------------- MODULE PubSub -------------------------------
(***************************************************************************)
(* The client of the Double Decker message bus (pub_sub.cc): a thread of   *)
(* its own that handles the events of the bus, and the threads that        *)
(* publish.  The node calls publish once, from main; here any number of    *)
(* threads may, each with a message of its own.                            *)
(*                                                                         *)
(* What one holder of connected_mutex does is one step.  The events "pub", *)
(* "data" and "discon" are ignored by the client and are not actions.      *)
(***************************************************************************)
EXTENDS Naturals, Sequences

CONSTANTS
    Callers,        \* the threads that publish
    MaxRegs         \* bound: registrations

VARIABLES
    client,         \* is there a client (client # NULL)?
    connected,      \* as in the code
    messages,       \* as in the code: the stored messages
    sent,           \* how often each message was given to the bus
    loop, m,        \* what the client's thread does; its place in messages
    caller,         \* what the threads that publish do
    stop,           \* terminate was called
    regs            \* history: the registrations

thread == <<loop, m>>
busVars == <<client, connected, messages, sent, thread, caller, stop, regs>>

Running == loop # "aborted"

\* Named apart from the other components: the proofs of ServiceProofs use two of them.
BusInit ==
    /\ client = FALSE /\ connected = FALSE /\ messages = <<>>
    /\ sent = [c \in Callers |-> 0]
    /\ loop = "start" /\ m = 1
    /\ caller = [c \in Callers |-> "idle"]
    /\ stop = FALSE /\ regs = 0

\* A failed assertion ends the process.
Abort ==
    /\ loop' = "aborted"
    /\ UNCHANGED <<client, connected, messages, sent, m, caller, stop, regs>>

-----------------------------------------------------------------------------
\* publish: the assertion ...
Publish(c) ==
    /\ Running /\ caller[c] = "idle"
    /\ IF client
       THEN /\ caller' = [caller EXCEPT ![c] = "test"]
            /\ UNCHANGED <<client, connected, messages, sent, thread, stop, regs>>
       ELSE Abort

\* Mutant: the message is stored in any case.
PublishKeeps(c) ==
    /\ Running /\ caller[c] = "test"
    /\ messages' = Append(messages, c)
    /\ caller' = [caller EXCEPT ![c] = IF connected THEN "send" ELSE "done"]
    /\ UNCHANGED <<client, connected, sent, thread, stop, regs>>

\* ... the test of connected, with the lock ...
PublishTest(c) ==
    /\ Running /\ caller[c] = "test"
    /\ messages' = IF connected THEN messages ELSE Append(messages, c)
    /\ caller' = [caller EXCEPT ![c] = IF connected THEN "send" ELSE "done"]
    /\ UNCHANGED <<client, connected, sent, thread, stop, regs>>

\* ... and zsock_send without it, which asserts that there is a socket.
PublishSend(c) ==
    /\ Running /\ caller[c] = "send"
    /\ IF client
       THEN /\ sent' = [sent EXCEPT ![c] = @ + 1]
            /\ caller' = [caller EXCEPT ![c] = "done"]
            /\ UNCHANGED <<client, connected, messages, thread, stop, regs>>
       ELSE Abort

-----------------------------------------------------------------------------
\* loop: the client is made ...
LoopStart ==
    /\ loop = "start"
    /\ client' = TRUE /\ loop' = "wait"
    /\ UNCHANGED <<connected, messages, sent, m, caller, stop, regs>>

\* Mutants: connected is not set before the stored messages are sent; the first of
\* them is skipped.
RegUnset ==
    /\ loop = "wait" /\ regs < MaxRegs
    /\ loop' = "resend" /\ m' = 1 /\ regs' = regs + 1
    /\ UNCHANGED <<client, connected, messages, sent, caller, stop>>

RegSkips ==
    /\ loop = "wait" /\ regs < MaxRegs
    /\ connected' = TRUE
    /\ loop' = "resend" /\ m' = 2 /\ regs' = regs + 1
    /\ UNCHANGED <<client, messages, sent, caller, stop>>

\* ... the event "reg" ...
Reg ==
    /\ loop = "wait" /\ regs < MaxRegs
    /\ connected' = TRUE
    /\ loop' = "resend" /\ m' = 1 /\ regs' = regs + 1
    /\ UNCHANGED <<client, messages, sent, caller, stop>>

\* ... one stored message, without the lock: publish finds connected set ...
Resend ==
    /\ loop = "resend" /\ m <= Len(messages)
    /\ sent' = [sent EXCEPT ![messages[m]] = @ + 1]
    /\ m' = m + 1
    /\ UNCHANGED <<client, connected, messages, loop, caller, stop, regs>>

\* ... the end of the list, and the test of keep_looping ...
ResendEnd ==
    /\ loop = "resend" /\ m > Len(messages)
    /\ loop' = IF stop THEN "done" ELSE "wait"
    /\ client' = ~stop
    /\ UNCHANGED <<connected, messages, sent, m, caller, stop, regs>>

\* ... the event "$TERM", or the notification of terminate, after which
\* zactor_destroy clears client.
LoopEnd ==
    /\ loop = "wait"
    /\ loop' = "done" /\ client' = FALSE
    /\ UNCHANGED <<connected, messages, sent, m, caller, stop, regs>>

\* The event "$TERM" may come at any time, the notification when terminate was called.
Term == ~stop /\ LoopEnd
Notified == stop /\ LoopEnd

\* terminate, called by the handler of SIGINT, which main installs when it has
\* published and which first stops the REST server.
BusTerminate ==
    /\ Running /\ ~stop /\ \A c \in Callers : caller[c] \in {"idle", "done"}
    /\ \E c \in Callers : caller[c] = "done"
    /\ stop' = TRUE
    /\ UNCHANGED <<client, connected, messages, sent, thread, caller, regs>>

-----------------------------------------------------------------------------
CallerStep(c) == ~stop /\ (Publish(c) \/ PublishTest(c) \/ PublishSend(c))

Handle == LoopStart \/ Resend \/ ResendEnd \/ Notified

BusNext ==
    \/ \E c \in Callers : CallerStep(c)
    \/ Handle \/ Reg \/ Term \/ BusTerminate

BusSpec == BusInit /\ [][BusNext]_busVars

\* The threads run; whether the bus answers is left open.
FairSpec ==
    /\ BusSpec
    /\ WF_busVars(Handle)
    /\ \A c \in Callers : WF_busVars(PublishTest(c) /\ ~stop) /\ WF_busVars(PublishSend(c) /\ ~stop)

-----------------------------------------------------------------------------
Stored(c) == \E i \in DOMAIN messages : messages[i] = c

BusTypeOK ==
    /\ client \in BOOLEAN /\ connected \in BOOLEAN /\ stop \in BOOLEAN
    /\ messages \in Seq(Callers) /\ sent \in [Callers -> Nat]
    /\ loop \in {"start", "wait", "resend", "done", "aborted"}
    /\ m \in Nat \ {0} /\ regs \in Nat
    /\ caller \in [Callers -> {"idle", "test", "send", "done"}]

\* The client's thread walks through the stored messages without the lock: meanwhile
\* no thread appends to them.
ListFixed ==
    [][loop = "resend" => messages' = messages]_busVars

\* When a registration has been handled, every stored message was sent: none is stored
\* between the end of the walk and the moment publishers see connected.
StoredSent ==
    loop = "wait" /\ connected => \A c \in Callers : Stored(c) => sent[c] > 0

\* A message is sent once, or, if it was stored, at most once for each registration.
SentOnce ==
    \A c \in Callers : sent[c] <= IF Stored(c) THEN regs ELSE 1

\* After a registration every message that a thread publishes or has published is
\* sent, unless the client is told to end or the process aborts.
Delivered ==
    \A c \in Callers :
        (connected /\ caller[c] # "idle") ~> (sent[c] > 0 \/ stop \/ loop \in {"done", "aborted"})

\* publish: "assert(client != NULL)".
ClientExists == Running
=============================================================================

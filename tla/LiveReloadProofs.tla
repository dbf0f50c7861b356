------------------------- MODULE LiveReloadProofs -------------------------
(***************************************************************************)
(* For any pages, connections, diagnostics and bounds of LiveReload, there *)
(* are never more clients than the limit, a client misses nothing that is  *)
(* taken while it is registered, and a page that registered in time is     *)
(* never left with something old and nothing on its way.                   *)
(*                                                                         *)
(* What makes these inductive is Inv.  Its centre is GenRight: a page that *)
(* is out of date, whether it is still loading, open or has lost its       *)
(* connection, either has a reload before it or will find, when it         *)
(* connects, that it has come too late.                                    *)
(***************************************************************************)
EXTENDS LiveReload, FiniteSetTheorems, TLAPS

\* The main loop.
ServerOK ==
  /\ main \in {"idle", "clear", "tell"}
  /\ error \in Errors \cup {NoError}
  /\ builds \in 0..MaxBuilds
  /\ active \in 0..(builds + 1)
  /\ opens \in 0..MaxOpens /\ faults \in 0..MaxFaults

\* The channel: every build has sent, or will send, one message at most.
ChannelOK ==
  /\ channel \in Seq(Messages) /\ taken \in Nat
  /\ \A i \in 1..Len(channel) : channel[i].n = taken + i
  /\ Sent + (IF main = "idle" THEN 0 ELSE 1) <= builds

\* The worker: between two messages nobody is still to get one.
WorkerOK ==
  /\ worker \in [busy : BOOLEAN, message : Messages \cup {Reload(0)},
                 left : SUBSET Conns, failed : SUBSET Conns]
  /\ worker.left \cap worker.failed = {} /\ worker.message.n = taken
  /\ ~worker.busy => worker.left = {} /\ worker.failed = {}

Connection == [state : {"free", "open", "gone", "cut"},
               heard : 0..MaxBuilds, inbox : Seq(Messages)]

ConnOK == clients \subseteq Conns /\ conn \in [Conns -> Connection]

Page == [stage : {"closed", "wanting", "asking", "loaded", "open"},
         gen : 0..(MaxBuilds + 1), overlay : Errors \cup {NoError},
         conn : Conns \cup {NoConn}, asOf : 0..MaxBuilds, late : BOOLEAN]

PageOK ==
  /\ page \in [Pages -> Page]
  /\ \A p \in Pages : /\ page[p].asOf <= Sent
                      /\ page[p].stage = "open" <=> page[p].conn # NoConn

\* What waits in the inboxes: only the message that is being written can be as
\* new as that, and a client whose write failed has not got it.
InboxOK ==
  \A c \in Conns : \A i \in 1..Len(conn[c].inbox) :
    LET m == conn[c].inbox[i] IN
    /\ m.n <= taken
    /\ m.n = taken => m = worker.message
    /\ conn[c].state = "cut" \/ (conn[c].state = "open" /\ c \in worker.failed) => m.n < taken

\* The message sent last tells of the diagnostic there is.
LastTold ==
  main = "idle" =>
    /\ channel # <<>> => channel[Len(channel)].error = error
    /\ channel = <<>> /\ taken > 0 => worker.message.error = error

\* A page that is as of the message sent last shows the diagnostic there is ...
OverlayRight(p) ==
  main = "idle" /\ page[p].stage \in {"loaded", "open"} /\ page[p].asOf = Sent
    => page[p].overlay = error

\* ... and one that is not late is as of what its connection has heard, or later.
NotAhead(p) ==
  page[p].stage = "open" /\ ~page[p].late => conn[page[p].conn].heard <= page[p].asOf

OverlayOK == \A p \in Pages : OverlayRight(p) /\ NotAhead(p)

\* p gets what the worker writes ...
Attached(p) ==
  /\ page[p].stage = "open" /\ conn[page[p].conn].state = "open"
  /\ page[p].conn \notin worker.failed

\* ... and among what is on its way to p is a reload that is news to p.
Arriving(p) ==
  LET c == page[p].conn
      inbox == conn[c].inbox
  IN \/ \E i \in 1..Len(inbox) : inbox[i].error = NoError /\ inbox[i].n > page[p].asOf
     \/ c \in worker.left /\ worker.message.error = NoError

\* There is a reload that p will hear of, or that is why p will be late.
Coming(p) ==
  \/ main = "clear" \/ (main = "tell" /\ error = NoError)
  \/ \E i \in 1..Len(channel) : channel[i].error = NoError /\ channel[i].n > page[p].asOf
  \/ page[p].asOf < taken /\ (Attached(p) => Arriving(p))

GenRight(p) ==
  page[p].stage \in {"asking", "loaded", "open"} /\ ~page[p].late
    => page[p].gen = active \/ Coming(p)

GenOK == \A p \in Pages : GenRight(p)

\* The inductive invariant.
Inv ==
  /\ ServerOK /\ ChannelOK /\ WorkerOK /\ ConnOK /\ PageOK
  /\ ClientsExact /\ NothingSkipped /\ InboxOK
  /\ LastTold /\ OverlayOK /\ GenOK

USE NamesAssumption, BoundsAssumption

----------------------------------------------------------------------------
(* The main loop and the channel *)

\* The main loop keeps to its states and bounds.
LEMMA ServerStep == Inv /\ [Next]_vars => ServerOK'
<1> SUFFICES ASSUME Inv, [Next]_vars PROVE ServerOK'
  OBVIOUS
<1> USE DEF Inv, ServerOK
<1>1. CASE UNCHANGED <<main, active, error, builds, opens, faults>>
  BY <1>1
<1>2. CASE Succeed
  BY <1>2 DEF Succeed
<1>3. CASE ClearError
  BY <1>3 DEF ClearError
<1>4. ASSUME NEW e \in Errors, Fail(e) PROVE ServerOK'
  BY <1>4 DEF Fail
<1>5. CASE Broadcast
  BY <1>5 DEF Broadcast
<1>6. ASSUME NEW c \in Conns, Write(c) PROVE ServerOK'
  BY <1>6 DEF Write, Fault
<1>7. ASSUME NEW p \in Pages, OpenPage(p) PROVE ServerOK'
  BY <1>7 DEF OpenPage
<1>8. ASSUME NEW p \in Pages, Break(p) PROVE ServerOK'
  BY <1>8 DEF Break, Fault
<1> QED
  BY <1>1, <1>2, <1>3, <1>4, <1>5, <1>6, <1>7, <1>8
     DEF Next, vars, Server, Worker, Browser, Take, Finish, Request, Answer, Receive,
         Connect, ClosePage, Reap, Done

\* No more messages are sent than there are builds.
LEMMA ChannelStep == Inv /\ [Next]_vars => ChannelOK'
<1> SUFFICES ASSUME Inv, [Next]_vars PROVE ChannelOK'
  OBVIOUS
<1> USE DEF Inv, ServerOK, ChannelOK, Sent
<1>1. CASE UNCHANGED <<main, builds, channel, taken>>
  BY <1>1
<1>2. CASE Succeed
  BY <1>2 DEF Succeed
<1>3. CASE ClearError
  BY <1>3 DEF ClearError
<1>4. ASSUME NEW e \in Errors, Fail(e) PROVE ChannelOK'
  BY <1>4 DEF Fail
<1>5. CASE Broadcast
  BY <1>5 DEF Broadcast, Reload, ErrorMessage, Messages
<1>6. CASE Take
  BY <1>6 DEF Take
<1> QED
  BY <1>1, <1>2, <1>3, <1>4, <1>5, <1>6
     DEF Next, vars, Server, Worker, Browser, Write, Finish, Request, Answer, Receive,
         Connect, OpenPage, ClosePage, Break, Reap, Done

\* The connection made next is a free one.
LEMMA NextConnFree == Free # {} => NextConn \in Free
BY DEF NextConn

\* Messages are numbered up to MaxBuilds.
LEMMA TakenBound == Inv => taken <= Sent /\ Sent <= MaxBuilds /\ Sent \in Nat
BY DEF Inv, ServerOK, ChannelOK, Sent

\* A message is sent by Broadcast and by nothing else ...
LEMMA SentSteps ==
  ASSUME Inv
  PROVE  /\ UNCHANGED <<channel, taken>> => Sent' = Sent
         /\ Take => Sent' = Sent
         /\ Broadcast => Sent' = Sent + 1
<1> USE DEF Inv, ChannelOK, Sent
<1>1. UNCHANGED <<channel, taken>> => Sent' = Sent
  OBVIOUS
<1>2. Broadcast => Sent' = Sent + 1
  BY DEF Broadcast, Reload, ErrorMessage
<1>3. Take => Sent' = Sent
  BY DEF Take
<1> QED
  BY <1>1, <1>2, <1>3

\* ... so that what has been sent only grows.
LEMMA SentStep ==
  ASSUME Inv, [Next]_vars
  PROVE  Sent' >= Sent
<1>1. UNCHANGED <<channel, taken>> \/ Take \/ Broadcast
  BY DEF Next, vars, Server, Worker, Browser, Succeed, ClearError, Fail, Write, Finish,
         Request, Answer, Receive, Connect, OpenPage, ClosePage, Break, Reap, Done
<1>2. Sent' = Sent \/ Sent' = Sent + 1
  BY <1>1, SentSteps
<1> QED
  BY <1>2, TakenBound

----------------------------------------------------------------------------
(* What each action does, in a form that the steps below can use *)

\* A write reaches its client or has it marked.
LEMMA WriteDoes ==
  ASSUME Inv, NEW c \in Conns, Write(c)
  PROVE  /\ c \in worker.left /\ c \notin worker.failed
         /\ worker'.left = worker.left \ {c}
         /\ worker'.message = worker.message
         /\ worker.busy /\ worker'.busy
         /\ UNCHANGED <<main, active, error, builds, channel, taken, clients, page, opens>>
         /\ conn' \in [Conns -> Connection]
         /\ \A d \in Conns : conn'[d].state = conn[d].state /\ conn'[d].heard = conn[d].heard
         /\ \/ /\ worker'.failed = worker.failed
               /\ \A d \in Conns :
                    conn'[d].inbox = IF d = c /\ conn[c].state = "open"
                                       THEN Append(conn[c].inbox, worker.message)
                                       ELSE conn[d].inbox
            \/ worker'.failed = worker.failed \cup {c} /\ conn' = conn
<1> USE DEF Inv, WorkerOK, ConnOK
<1>1. /\ c \in worker.left /\ c \notin worker.failed /\ worker.busy
      /\ UNCHANGED <<main, active, error, builds, channel, taken, clients, page, opens>>
  BY DEF Write
<1>2. CASE worker' = [worker EXCEPT !.left = @ \ {c}, !.failed = @ \cup {c}] /\ conn' = conn
  BY <1>1, <1>2
<1>3. CASE /\ conn' = [conn EXCEPT ![c].inbox =
                         IF conn[c].state = "open" THEN Append(@, worker.message) ELSE @]
           /\ worker' = [worker EXCEPT !.left = @ \ {c}]
  <2>1. conn[c].state = "open" => worker.message \in Messages
    BY <1>1 DEF NothingSkipped, Due, Messages, Reload, ChannelOK, Connection
  <2>2. (IF conn[c].state = "open" THEN Append(conn[c].inbox, worker.message)
                                   ELSE conn[c].inbox) \in Seq(Messages)
    BY <2>1 DEF Connection
  <2>3. conn' \in [Conns -> Connection]
    BY <1>3, <2>2 DEF Connection
  <2>4. \A d \in Conns :
          /\ conn'[d].state = conn[d].state /\ conn'[d].heard = conn[d].heard
          /\ conn'[d].inbox = IF d = c /\ conn[c].state = "open"
                                THEN Append(conn[c].inbox, worker.message)
                                ELSE conn[d].inbox
    BY <1>3 DEF Connection
  <2> QED
    BY <1>1, <1>3, <2>3, <2>4
<1> QED
  BY <1>2, <1>3 DEF Write

\* The end of a broadcast cuts the clients that were marked.
LEMMA FinishDoes ==
  ASSUME Inv, Finish
  PROVE  /\ worker.busy /\ worker.left = {}
         /\ ~worker'.busy /\ worker'.left = {} /\ worker'.failed = {}
         /\ worker'.message = worker.message
         /\ clients' = clients \ worker.failed
         /\ UNCHANGED <<main, active, error, builds, channel, taken, page, opens, faults>>
         /\ conn' \in [Conns -> Connection]
         /\ \A d \in Conns :
              /\ conn'[d].heard = conn[d].heard /\ conn'[d].inbox = conn[d].inbox
              /\ conn'[d].state = IF d \in worker.failed /\ conn[d].state = "open"
                                    THEN "cut" ELSE conn[d].state
BY DEF Inv, WorkerOK, ConnOK, Connection, Finish

\* What a page that goes away, or loses its connection, does to the connections.
LEMMA HangsDoes ==
  ASSUME Inv, NEW c \in Conns \cup {NoConn}, conn' = Hangs(c)
  PROVE  /\ conn' \in [Conns -> Connection]
         /\ \A d \in Conns :
              /\ conn'[d].heard = conn[d].heard /\ conn'[d].inbox = conn[d].inbox
              /\ conn'[d].state = IF d = c THEN "gone" ELSE conn[d].state
BY DEF Inv, ConnOK, Connection, Hangs

\* A connection that has ended is forgotten.
LEMMA ReapDoes ==
  ASSUME Inv, NEW c \in Conns, Reap(c)
  PROVE  /\ conn[c].state = "gone" /\ clients' = clients \ {c}
         /\ UNCHANGED <<main, active, error, builds, channel, taken, worker, page, opens, faults>>
         /\ conn' \in [Conns -> Connection]
         /\ conn'[c] = Unused
         /\ \A d \in Conns : d # c => conn'[d] = conn[d]
<1>1. Unused \in Connection
  BY DEF Unused, Connection
<1> QED
  BY <1>1 DEF Inv, ConnOK, Reap

\* p is the only page that changes.
OnlyPage(p) == /\ page' \in [Pages -> Page]
               /\ \A q \in Pages : q # p => page'[q] = page[q]

\* What each step of a page does to it: a tab is opened, ...
LEMMA OpenPageDoes ==
  ASSUME Inv, NEW p \in Pages, OpenPage(p)
  PROVE  /\ OnlyPage(p) /\ page[p].stage = "closed" /\ page'[p].stage = "wanting"
         /\ page'[p].asOf = page[p].asOf /\ page'[p].conn = page[p].conn
BY DEF Inv, PageOK, Page, OpenPage, OnlyPage

\* ... its HTML requested, ...
LEMMA RequestDoes ==
  ASSUME Inv, NEW p \in Pages, Request(p)
  PROVE  /\ OnlyPage(p) /\ page[p].stage = "wanting" /\ page'[p].stage = "asking"
         /\ page'[p].asOf = Sent /\ page'[p].gen = active /\ page'[p].conn = page[p].conn
<1>1. Sent \in 0..MaxBuilds /\ active \in 0..(MaxBuilds + 1)
  BY TakenBound DEF Inv, ServerOK
<1> QED
  BY <1>1 DEF Inv, PageOK, Page, Request, OnlyPage

\* ... and answered; ...
LEMMA AnswerDoes ==
  ASSUME Inv, NEW p \in Pages, Answer(p)
  PROVE  /\ OnlyPage(p) /\ page[p].stage = "asking" /\ page'[p].stage = "loaded"
         /\ page'[p].overlay = error
         /\ page'[p].asOf = page[p].asOf /\ page'[p].gen = page[p].gen
         /\ page'[p].conn = page[p].conn /\ page'[p].late = page[p].late
<1>1. error \in Errors \cup {NoError}
  BY DEF Inv, ServerOK
<1> QED
  BY <1>1 DEF Inv, PageOK, Page, Answer, OnlyPage

\* (a page may be closed or about to load)
LEMMA ClosedIsPage ==
  Closed \in Page /\ [Closed EXCEPT !.stage = "wanting"] \in Page
<1>1. 0 \in 0..MaxBuilds /\ 0 \in 0..(MaxBuilds + 1)
  OBVIOUS
<1>2. Closed \in Page
  BY <1>1 DEF Closed, Page
<1> QED
  BY <1>2 DEF Page

\* ... the tab is closed, ...
LEMMA ClosePageDoes ==
  ASSUME Inv, NEW p \in Pages, ClosePage(p)
  PROVE  OnlyPage(p) /\ page'[p] = Closed /\ page[p].conn \in Conns \cup {NoConn}
BY ClosedIsPage DEF Inv, PageOK, Page, ClosePage, OnlyPage

\* ... its connection breaks, ...
LEMMA BreakDoes ==
  ASSUME Inv, NEW p \in Pages, Break(p)
  PROVE  /\ OnlyPage(p) /\ page[p].stage = "open" /\ page'[p].stage = "loaded"
         /\ page[p].conn \in Conns /\ page'[p].conn = NoConn
         /\ page'[p].asOf = page[p].asOf /\ page'[p].gen = page[p].gen
         /\ page'[p].overlay = page[p].overlay /\ page'[p].late = page[p].late
BY DEF Inv, PageOK, Page, Break, OnlyPage

\* ... it connects, ...
LEMMA ConnectDoes ==
  ASSUME Inv, NEW p \in Pages, Connect(p)
  PROVE  /\ OnlyPage(p) /\ page[p].stage = "loaded" /\ page'[p].stage = "open"
         /\ NextConn \in Free /\ page'[p].conn = NextConn
         /\ page'[p].asOf = page[p].asOf /\ page'[p].gen = page[p].gen
         /\ page'[p].overlay = page[p].overlay
         /\ page'[p].late <=> page[p].late \/ page[p].asOf < taken
         /\ conn' \in [Conns -> Connection]
         /\ conn'[NextConn].state = "open" /\ conn'[NextConn].heard = taken
         /\ conn'[NextConn].inbox = <<>>
         /\ \A d \in Conns : d # NextConn => conn'[d] = conn[d]
<1>1. NextConn \in Free /\ NextConn \in Conns
  BY NextConnFree DEF Connect, Free
<1>2. taken \in 0..MaxBuilds
  BY TakenBound DEF Inv, ChannelOK
<1> DEFINE new == [Unused EXCEPT !.state = "open", !.heard = taken]
<1>3. new \in Connection /\ new.state = "open" /\ new.heard = taken /\ new.inbox = <<>>
  <2>1. <<>> \in Seq(Messages) /\ 0 \in 0..MaxBuilds
    OBVIOUS
  <2>2. Unused \in Connection /\ Unused.inbox = <<>>
    BY <2>1 DEF Unused, Connection
  <2> QED
    BY <1>2, <2>2 DEF Connection
<1>4. conn' = [conn EXCEPT ![NextConn] = new]
  BY DEF Connect
<1>5. /\ conn' \in [Conns -> Connection] /\ conn'[NextConn] = new
      /\ \A d \in Conns : d # NextConn => conn'[d] = conn[d]
  BY <1>1, <1>3, <1>4 DEF Inv, ConnOK
<1> DEFINE late == page[p].late \/ page[p].asOf < taken
<1>6. page' = [page EXCEPT ![p].stage = "open", ![p].conn = NextConn, ![p].late = late]
  BY DEF Connect, Inv, PageOK, Page
<1>7. late \in BOOLEAN
  OBVIOUS
<1>8. /\ OnlyPage(p) /\ page[p].stage = "loaded" /\ page'[p].stage = "open"
      /\ page'[p].conn = NextConn
      /\ page'[p].asOf = page[p].asOf /\ page'[p].gen = page[p].gen
      /\ page'[p].overlay = page[p].overlay /\ page'[p].late = late
  <2> HIDE DEF late
  <2> QED
    BY <1>1, <1>6, <1>7 DEF Inv, PageOK, Page, OnlyPage, Connect
<1> QED
  BY <1>1, <1>3, <1>5, <1>8

\* ... and it receives a message, which reloads it or shows a diagnostic.
LEMMA ReceiveDoes ==
  ASSUME Inv, NEW p \in Pages, Receive(p),
         NEW c, c = page[p].conn, NEW message, message = Head(conn[c].inbox)
  PROVE  /\ page[p].stage = "open" /\ c \in Conns /\ conn[c].inbox # <<>>
         /\ message \in Messages /\ message = conn[c].inbox[1]
         /\ UNCHANGED <<main, active, error, builds, channel, taken, worker, clients, opens, faults>>
         /\ OnlyPage(p) /\ conn' \in [Conns -> Connection]
         /\ \/ /\ message.error = NoError
               /\ page'[p] = [Closed EXCEPT !.stage = "wanting"]
               /\ conn' = Hangs(c)
            \/ /\ message.error # NoError
               /\ page'[p].stage = "open" /\ page'[p].conn = c
               /\ page'[p].gen = page[p].gen /\ page'[p].late = page[p].late
               /\ page'[p].overlay = message.error /\ page'[p].asOf = message.n
               /\ conn'[c].state = conn[c].state
               /\ conn'[c].inbox = Tail(conn[c].inbox) /\ conn'[c].heard = message.n
               /\ \A d \in Conns : d # c => conn'[d] = conn[d]
<1>1. /\ page[p].stage = "open" /\ c \in Conns /\ conn[c].inbox # <<>>
      /\ UNCHANGED <<main, active, error, builds, channel, taken, worker, clients, opens, faults>>
  BY DEF Receive, Inv, PageOK, Page
<1>2. conn[c].inbox \in Seq(Messages)
  BY <1>1 DEF Inv, ConnOK, Connection
<1>3. /\ message \in Messages /\ message = conn[c].inbox[1]
      /\ Tail(conn[c].inbox) \in Seq(Messages)
  BY <1>1, <1>2
<1>4. message.n \in 0..MaxBuilds /\ message.error \in Errors \cup {NoError}
  BY <1>3 DEF Messages
<1>5. CASE message.error = NoError
  <2>1. page' = [page EXCEPT ![p] = [Closed EXCEPT !.stage = "wanting"]] /\ conn' = Hangs(c)
    BY <1>5 DEF Receive
  <2>2. OnlyPage(p) /\ page'[p] = [Closed EXCEPT !.stage = "wanting"]
    BY <2>1, ClosedIsPage DEF Inv, PageOK, OnlyPage
  <2> QED
    BY <1>1, <1>3, <1>5, <2>1, <2>2, HangsDoes
<1>6. CASE message.error # NoError
  <2>1. /\ page' = [page EXCEPT ![p].overlay = message.error, ![p].asOf = message.n]
        /\ conn' = [conn EXCEPT ![c].inbox = Tail(@), ![c].heard = message.n]
    BY <1>6 DEF Receive
  <2>2. /\ OnlyPage(p) /\ page'[p].stage = "open" /\ page'[p].conn = c
        /\ page'[p].gen = page[p].gen /\ page'[p].late = page[p].late
        /\ page'[p].overlay = message.error /\ page'[p].asOf = message.n
    BY <1>1, <1>4, <2>1 DEF Inv, PageOK, Page, OnlyPage
  <2>3. /\ conn' \in [Conns -> Connection]
        /\ conn'[c].state = conn[c].state
        /\ conn'[c].inbox = Tail(conn[c].inbox) /\ conn'[c].heard = message.n
        /\ \A d \in Conns : d # c => conn'[d] = conn[d]
    BY <1>1, <1>3, <1>4, <2>1 DEF Inv, ConnOK, Connection
  <2> QED
    BY <1>1, <1>3, <1>6, <2>2, <2>3
<1> QED
  BY <1>5, <1>6

\* The worker takes the message sent first, for the clients there are.
LEMMA TakeDoes ==
  ASSUME Inv, Take
  PROVE  /\ ~worker.busy /\ worker.left = {} /\ worker.failed = {}
         /\ channel # <<>> /\ channel[1] \in Messages
         /\ worker'.busy /\ worker'.left = clients /\ worker'.failed = {}
         /\ worker'.message = channel[1]
         /\ channel' = Tail(channel) /\ taken' = taken + 1
         /\ Len(channel') = Len(channel) - 1
         /\ \A i \in 1..Len(channel') : channel'[i] = channel[i + 1]
         /\ UNCHANGED <<main, active, error, builds, clients, conn, page, opens, faults>>
<1>1. channel \in Seq(Messages) /\ channel # <<>>
  BY DEF Inv, ChannelOK, Take
<1>2. /\ channel[1] \in Messages /\ Head(channel) = channel[1]
      /\ Len(Tail(channel)) = Len(channel) - 1
      /\ \A i \in 1..Len(Tail(channel)) : Tail(channel)[i] = channel[i + 1]
  BY <1>1
<1> QED
  BY <1>1, <1>2 DEF Inv, WorkerOK, Take

\* The main loop sends the diagnostic there is, or a reload.
LEMMA BroadcastDoes ==
  ASSUME Inv, Broadcast
  PROVE  /\ main = "tell" /\ main' = "idle"
         /\ channel' \in Seq(Messages) /\ Len(channel') = Len(channel) + 1
         /\ \A i \in 1..Len(channel) : channel'[i] = channel[i]
         /\ channel'[Len(channel) + 1] = [n |-> Sent + 1, error |-> error]
         /\ UNCHANGED <<active, error, builds, taken, worker, clients, conn, page, opens, faults>>
<1>1. channel' = Append(channel, [n |-> Sent + 1, error |-> error])
  BY DEF Broadcast, Reload, ErrorMessage
<1>2. [n |-> Sent + 1, error |-> error] \in Messages
  BY TakenBound DEF Inv, ServerOK, ChannelOK, Broadcast, Messages
<1>3. channel \in Seq(Messages)
  BY DEF Inv, ChannelOK
<1> QED
  BY <1>1, <1>2, <1>3 DEF Broadcast

----------------------------------------------------------------------------
(* The worker, the connections and the pages have the right shape *)

\* The worker stays well formed.
LEMMA WorkerStep == Inv /\ [Next]_vars => WorkerOK'
<1> SUFFICES ASSUME Inv, [Next]_vars PROVE WorkerOK'
  OBVIOUS
<1> USE DEF Inv, ChannelOK, WorkerOK, ConnOK
<1>1. CASE UNCHANGED <<worker, taken>>
  BY <1>1
<1>2. CASE Take
  BY <1>2, TakeDoes DEF Take
<1>3. ASSUME NEW c \in Conns, Write(c) PROVE WorkerOK'
  <2>1. worker' \in [busy : BOOLEAN, message : Messages \cup {Reload(0)},
                     left : SUBSET Conns, failed : SUBSET Conns]
    <3>1. CASE worker' = [worker EXCEPT !.left = @ \ {c}]
      BY <3>1
    <3>2. CASE worker' = [worker EXCEPT !.left = @ \ {c}, !.failed = @ \cup {c}]
      BY <3>2
    <3> QED
      BY <1>3, <3>1, <3>2 DEF Write
  <2> QED
    BY <1>3, <2>1, WriteDoes
<1>4. CASE Finish
  BY <1>4 DEF Finish
<1> QED
  BY <1>1, <1>2, <1>3, <1>4
     DEF Next, vars, Server, Worker, Browser, Succeed, ClearError, Fail, Broadcast,
         Request, Answer, Receive, Connect, OpenPage, ClosePage, Break, Reap, Done

\* So do the connections.
LEMMA ConnStep == Inv /\ [Next]_vars => ConnOK'
<1> SUFFICES ASSUME Inv, [Next]_vars PROVE ConnOK'
  OBVIOUS
<1> USE DEF ConnOK
<1>0. ConnOK
  BY DEF Inv
<1>1. CASE UNCHANGED <<clients, conn>>
  BY <1>0, <1>1
<1>2. ASSUME NEW c \in Conns, Write(c) PROVE ConnOK'
  BY <1>0, <1>2, WriteDoes
<1>3. CASE Finish
  BY <1>0, <1>3, FinishDoes
<1>4. ASSUME NEW p \in Pages, ClosePage(p) \/ Break(p) PROVE ConnOK'
  BY <1>0, <1>4, ClosePageDoes, BreakDoes, HangsDoes DEF ClosePage, Break
<1>5. ASSUME NEW p \in Pages, Receive(p) PROVE ConnOK'
  BY <1>0, <1>5, ReceiveDoes
<1>6. ASSUME NEW p \in Pages, Connect(p) PROVE ConnOK'
  BY <1>0, <1>6, ConnectDoes DEF Connect, Free
<1>7. ASSUME NEW c \in Conns, Reap(c) PROVE ConnOK'
  BY <1>0, <1>7, ReapDoes
<1> QED
  BY <1>1, <1>2, <1>3, <1>4, <1>5, <1>6, <1>7
     DEF Next, vars, Server, Worker, Browser, Succeed, ClearError, Fail, Broadcast, Take,
         Request, Answer, OpenPage, Done

\* So do the pages, and none is as of a message that has not been sent.
LEMMA PageStep == Inv /\ [Next]_vars => PageOK'
<1> SUFFICES ASSUME Inv, [Next]_vars PROVE PageOK'
  OBVIOUS
<1> USE DEF PageOK
<1>0. PageOK /\ Sent' >= Sent /\ Sent \in Nat /\ Sent' \in Nat
  BY SentStep, TakenBound, ChannelStep DEF Inv, Sent, ChannelOK
<1>1. CASE UNCHANGED page
  BY <1>0, <1>1 DEF Page
<1>2. ASSUME NEW p \in Pages, OnlyPage(p), page'[p].asOf <= Sent,
             page'[p].stage = "open" <=> page'[p].conn # NoConn
      PROVE  PageOK'
  BY <1>0, <1>2 DEF OnlyPage, Page
<1>3. ASSUME NEW p \in Pages, Request(p) PROVE PageOK'
  BY <1>0, <1>2, <1>3, RequestDoes
<1>4. ASSUME NEW p \in Pages, Answer(p) PROVE PageOK'
  BY <1>0, <1>2, <1>4, AnswerDoes
<1>5. ASSUME NEW p \in Pages, Receive(p) PROVE PageOK'
  <2> DEFINE c == page[p].conn
             message == Head(conn[c].inbox)
  <2>1. CASE page'[p] = [Closed EXCEPT !.stage = "wanting"]
    BY <1>0, <1>2, <1>5, <2>1, ReceiveDoes DEF Closed
  <2>2. message.n <= Sent
    <3>1. c \in Conns /\ conn[c].inbox # <<>> /\ message \in Messages
          /\ message = conn[c].inbox[1]
      BY <1>5, ReceiveDoes
    <3>2. conn[c].inbox \in Seq(Messages)
      BY <3>1 DEF Inv, ConnOK, Connection
    <3>3. 1 \in 1..Len(conn[c].inbox)
      BY <3>1, <3>2
    <3>4. message.n <= taken /\ message.n \in Nat
      BY <3>1, <3>3 DEF Inv, InboxOK, Messages
    <3> QED
      BY <3>4, TakenBound DEF Inv, ChannelOK
  <2> QED
    BY <1>0, <1>2, <1>5, <2>1, <2>2, ReceiveDoes
<1>6. ASSUME NEW p \in Pages, Connect(p) PROVE PageOK'
  BY <1>0, <1>2, <1>6, ConnectDoes DEF Free
<1>7. ASSUME NEW p \in Pages, OpenPage(p) PROVE PageOK'
  BY <1>0, <1>2, <1>7, OpenPageDoes
<1>8. ASSUME NEW p \in Pages, ClosePage(p) PROVE PageOK'
  BY <1>0, <1>2, <1>8, ClosePageDoes DEF Closed
<1>9. ASSUME NEW p \in Pages, Break(p) PROVE PageOK'
  BY <1>0, <1>2, <1>9, BreakDoes
<1> QED
  BY <1>1, <1>3, <1>4, <1>5, <1>6, <1>7, <1>8, <1>9
     DEF Next, vars, Server, Worker, Browser, Succeed, ClearError, Fail, Broadcast, Take,
         Write, Finish, Reap, Done

----------------------------------------------------------------------------
(* The clients *)

\* Connections, clients and pages belong together ...
Linked ==
  \A c \in Conns :
    /\ conn[c].state = "open" => c \in clients
    /\ c \in clients => conn[c].state \in {"open", "gone"}
    /\ conn[c].state \in {"open", "cut"} <=>
         \E p \in Pages : page[p].stage = "open" /\ page[p].conn = c

\* ... and no two pages have the same connection.
Alone ==
  \A p, q \in Pages : page[p].conn = page[q].conn /\ page[p].conn # NoConn => p = q

\* ClientsExact in parts.
LEMMA ExactParts == ClientsExact <=> Cardinality(clients) <= MaxClients /\ Linked /\ Alone
BY DEF ClientsExact, Linked, Alone

\* With fewer clients the limit holds.
LEMMA FewerClients ==
  ASSUME Inv, clients' \subseteq clients
  PROVE  Cardinality(clients') <= MaxClients
<1>1. IsFiniteSet(clients)
  BY FS_Subset DEF Inv, ConnOK, BoundsAssumption
<1>2. Cardinality(clients') <= Cardinality(clients)
  BY <1>1, FS_Subset
<1>3. Cardinality(clients) \in Nat /\ Cardinality(clients') \in Nat
  BY <1>1, FS_Subset, FS_CardinalityType
<1> QED
  BY <1>2, <1>3 DEF Inv, ClientsExact, BoundsAssumption

\* Clients stay exact when no connection or page changes its state ...
LEMMA LinksKept ==
  ASSUME Inv, clients' = clients,
         \A c \in Conns : conn'[c].state = conn[c].state,
         \A p \in Pages : page'[p].conn = page[p].conn
                          /\ (page'[p].stage = "open" <=> page[p].stage = "open")
  PROVE  ClientsExact'
<1>1. Linked' /\ Alone'
  BY ExactParts DEF Inv, Linked, Alone
<1> QED
  BY <1>1 DEF Inv, ClientsExact, Linked, Alone

\* ... or when a page goes away from its connection.
LEMMA LinkLost ==
  ASSUME Inv, clients' = clients, NEW p \in Pages, OnlyPage(p),
         page'[p].stage # "open", page'[p].conn = NoConn, conn' = Hangs(page[p].conn)
  PROVE  ClientsExact'
<1> DEFINE c == page[p].conn
<1>1. Linked /\ Alone /\ c \in Conns \cup {NoConn} /\ (page[p].stage = "open" <=> c # NoConn)
  BY ExactParts DEF Inv, PageOK, Page
<1>2. \A d \in Conns : conn'[d].state = IF d = c THEN "gone" ELSE conn[d].state
  BY <1>1, HangsDoes
<1>3. Alone'
  BY <1>1 DEF Alone, OnlyPage
<1>4. ASSUME NEW d \in Conns
      PROVE  /\ conn'[d].state = "open" => d \in clients'
             /\ d \in clients' => conn'[d].state \in {"open", "gone"}
  BY <1>1, <1>2 DEF Linked
<1>5. ASSUME NEW d \in Conns
      PROVE  conn'[d].state \in {"open", "cut"} <=>
               \E q \in Pages : page'[q].stage = "open" /\ page'[q].conn = d
  <2>1. CASE d = c
    BY <1>1, <1>2, <2>1 DEF OnlyPage, Alone
  <2>2. CASE d # c
    BY <1>1, <1>2, <2>2 DEF OnlyPage, Linked
  <2> QED
    BY <2>1, <2>2
<1> QED
  BY <1>3, <1>4, <1>5 DEF ClientsExact, Alone, Inv

\* Clients stay exact.
LEMMA ExactStep == Inv /\ [Next]_vars => ClientsExact'
<1> SUFFICES ASSUME Inv, [Next]_vars PROVE ClientsExact'
  OBVIOUS
<1>0. Linked /\ Alone /\ PageOK /\ ConnOK
  BY ExactParts DEF Inv
<1>1. CASE UNCHANGED <<clients, conn, page>>
  BY <1>1, LinksKept
<1>2. ASSUME NEW c \in Conns, Write(c) PROVE ClientsExact'
  BY <1>2, WriteDoes, LinksKept
<1>3. CASE Finish
  <2>1. Linked'
    BY <1>0, <1>3, FinishDoes DEF Linked
  <2>2. Alone'
    BY <1>0, <1>3, FinishDoes DEF Alone
  <2>3. Cardinality(clients') <= MaxClients
    BY <1>3, FinishDoes, FewerClients
  <2> QED
    BY <2>1, <2>2, <2>3 DEF ClientsExact, Linked, Alone
<1>4. ASSUME NEW p \in Pages, OpenPage(p) \/ Request(p) \/ Answer(p) PROVE ClientsExact'
  <2>1. /\ OnlyPage(p) /\ page'[p].conn = page[p].conn
        /\ page[p].stage # "open" /\ page'[p].stage # "open"
    BY <1>4, OpenPageDoes, RequestDoes, AnswerDoes
  <2>2. UNCHANGED <<clients, conn>>
    BY <1>4 DEF OpenPage, Request, Answer
  <2> QED
    BY <2>1, <2>2, LinksKept DEF OnlyPage
<1>5. ASSUME NEW p \in Pages, ClosePage(p) PROVE ClientsExact'
  <2>1. /\ OnlyPage(p) /\ page'[p] = Closed /\ clients' = clients
        /\ conn' = Hangs(page[p].conn)
    BY <1>5, ClosePageDoes DEF ClosePage
  <2>2. page'[p].stage # "open" /\ page'[p].conn = NoConn
    BY <2>1 DEF Closed
  <2> QED
    BY <2>1, <2>2, LinkLost
<1>6. ASSUME NEW p \in Pages, Break(p) PROVE ClientsExact'
  BY <1>6, BreakDoes, LinkLost DEF Break
<1>7. ASSUME NEW p \in Pages, Receive(p) PROVE ClientsExact'
  <2> DEFINE c == page[p].conn
  <2>1. clients' = clients /\ OnlyPage(p) /\ page[p].stage = "open"
    BY <1>7, ReceiveDoes
  <2>2. CASE page'[p] = [Closed EXCEPT !.stage = "wanting"] /\ conn' = Hangs(c)
    BY <2>1, <2>2, LinkLost DEF Closed
  <2>3. CASE /\ page'[p].stage = "open" /\ page'[p].conn = c
             /\ conn'[c].state = conn[c].state
             /\ \A d \in Conns : d # c => conn'[d] = conn[d]
    BY <2>1, <2>3, LinksKept DEF OnlyPage
  <2> QED
    BY <1>7, <2>2, <2>3, ReceiveDoes
<1>8. ASSUME NEW p \in Pages, Connect(p) PROVE ClientsExact'
  <2> DEFINE c == NextConn
  <2>1. /\ OnlyPage(p) /\ page[p].stage = "loaded" /\ page'[p].stage = "open"
        /\ c \in Conns /\ conn[c].state = "free" /\ page'[p].conn = c
        /\ conn'[c].state = "open" /\ \A d \in Conns : d # c => conn'[d] = conn[d]
    BY <1>8, ConnectDoes DEF Free
  <2>2. clients' = clients \cup {c} /\ Cardinality(clients) < MaxClients
    BY <1>8 DEF Connect
  <2>3. \A q \in Pages : q # p => page[q].conn # c
    BY <1>0, <2>1 DEF Linked, PageOK
  <2>4. Alone'
    BY <1>0, <2>1, <2>3 DEF Alone, OnlyPage
  <2>5. Linked'
    <3>1. ASSUME NEW d \in Conns, d # c
          PROVE  /\ conn'[d].state = "open" => d \in clients'
                 /\ d \in clients' => conn'[d].state \in {"open", "gone"}
                 /\ conn'[d].state \in {"open", "cut"} <=>
                      \E q \in Pages : page'[q].stage = "open" /\ page'[q].conn = d
      BY <1>0, <2>1, <2>2, <3>1 DEF Linked, OnlyPage
    <3> QED
      BY <2>1, <2>2, <3>1 DEF Linked
  <2>6. Cardinality(clients') <= MaxClients
    <3>1. IsFiniteSet(clients)
      BY <1>0, FS_Subset DEF ConnOK, BoundsAssumption
    <3>2. /\ Cardinality(clients) \in Nat
          /\ Cardinality(clients \cup {c}) = IF c \in clients THEN Cardinality(clients)
                                             ELSE Cardinality(clients) + 1
      BY <3>1, FS_AddElement, FS_CardinalityType
    <3> QED
      BY <2>2, <3>2 DEF BoundsAssumption
  <2> QED
    BY <2>4, <2>5, <2>6 DEF ClientsExact, Linked, Alone
<1>9. ASSUME NEW c \in Conns, Reap(c) PROVE ClientsExact'
  <2>1. Linked'
    BY <1>0, <1>9, ReapDoes DEF Linked, Unused
  <2>2. Alone'
    BY <1>0, <1>9, ReapDoes DEF Alone
  <2>3. Cardinality(clients') <= MaxClients
    BY <1>9, ReapDoes, FewerClients
  <2> QED
    BY <2>1, <2>2, <2>3 DEF ClientsExact, Linked, Alone
<1> QED
  BY <1>1, <1>2, <1>3, <1>4, <1>5, <1>6, <1>7, <1>8, <1>9
     DEF Next, vars, Server, Worker, Browser, Succeed, ClearError, Fail, Broadcast, Take, Done

----------------------------------------------------------------------------
(* What has reached the clients *)

\* What a connection holds.
LEMMA ConnsTyped ==
  ASSUME Inv, NEW c \in Conns
  PROVE  /\ conn[c].heard \in 0..MaxBuilds /\ conn[c].inbox \in Seq(Messages)
         /\ Len(conn[c].inbox) \in Nat
         /\ \A i \in 1..Len(conn[c].inbox) : conn[c].inbox[i].n \in Nat
<1>1. conn[c].heard \in 0..MaxBuilds /\ conn[c].inbox \in Seq(Messages)
  BY DEF Inv, ConnOK, Connection
<1>2. Len(conn[c].inbox) \in Nat
  BY <1>1
<1>3. \A i \in 1..Len(conn[c].inbox) : conn[c].inbox[i] \in Messages
  BY <1>1
<1>4. \A m \in Messages : m.n \in Nat
  BY DEF Messages
<1> QED
  BY <1>1, <1>2, <1>3, <1>4

\* Nothing is skipped by connections that are left alone, or are no longer open.
LEMMA NothingSkippedKept ==
  ASSUME Inv, UNCHANGED <<taken, worker>>,
         \A d \in Conns : conn'[d].state = "open" =>
           /\ conn[d].state = "open"
           /\ conn'[d].heard = conn[d].heard /\ conn'[d].inbox = conn[d].inbox
  PROVE  NothingSkipped'
BY DEF Inv, NothingSkipped, Due

\* Nothing is skipped by any step.
LEMMA NothingSkippedStep == Inv /\ [Next]_vars => NothingSkipped'
<1> SUFFICES ASSUME Inv, [Next]_vars PROVE NothingSkipped'
  OBVIOUS
<1>0. taken \in Nat /\ NothingSkipped
  BY DEF Inv, ChannelOK
<1>1. CASE UNCHANGED <<taken, worker, conn>>
  BY <1>1, NothingSkippedKept
<1>2. CASE Take
  <2> SUFFICES ASSUME NEW d \in Conns, conn[d].state = "open"
               PROVE  /\ conn[d].heard + Len(conn[d].inbox) = Due(d)'
                      /\ \A i \in 1..Len(conn[d].inbox) :
                           conn[d].inbox[i].n = conn[d].heard + i
    BY <1>2, TakeDoes DEF NothingSkipped
  <2>1. d \in clients
    BY ExactParts DEF Inv, Linked
  <2>2. Due(d) = taken /\ Due(d)' = taken /\ d \notin worker.failed
    BY <1>0, <1>2, <2>1, TakeDoes DEF Due
  <2> QED
    BY <1>0, <2>2 DEF NothingSkipped
<1>3. ASSUME NEW c \in Conns, Write(c) PROVE NothingSkipped'
  <2> SUFFICES ASSUME NEW d \in Conns, conn'[d].state = "open", d \notin worker'.failed
               PROVE  /\ conn'[d].heard + Len(conn'[d].inbox) = Due(d)'
                      /\ \A i \in 1..Len(conn'[d].inbox) :
                           conn'[d].inbox[i].n = conn'[d].heard + i
    BY DEF NothingSkipped
  <2>1. conn[d].state = "open" /\ d \notin worker.failed /\ conn'[d].heard = conn[d].heard
    BY <1>3, WriteDoes
  <2>2. /\ conn[d].heard + Len(conn[d].inbox) = Due(d)
        /\ \A i \in 1..Len(conn[d].inbox) : conn[d].inbox[i].n = conn[d].heard + i
    BY <1>0, <2>1 DEF NothingSkipped
  <2>3. CASE d # c
    <3>1. conn'[d].inbox = conn[d].inbox /\ Due(d)' = Due(d)
      BY <1>3, <2>3, WriteDoes DEF Due
    <3> QED
      BY <2>1, <2>2, <3>1
  <2>4. CASE d = c
    <3>1. conn'[d].inbox = Append(conn[d].inbox, worker.message)
      BY <1>3, <2>1, <2>4, WriteDoes
    <3>2. Due(d) = taken - 1 /\ Due(d)' = taken /\ worker.message.n = taken
      BY <1>3, <2>4, WriteDoes DEF Due, Inv, WorkerOK
    <3>3. /\ Len(conn[d].inbox) \in Nat
          /\ Len(conn'[d].inbox) = Len(conn[d].inbox) + 1
          /\ \A i \in 1..Len(conn[d].inbox) : conn'[d].inbox[i] = conn[d].inbox[i]
          /\ conn'[d].inbox[Len(conn[d].inbox) + 1] = worker.message
      BY <3>1, ConnsTyped
    <3>4. conn[d].heard \in Nat
      BY ConnsTyped
    <3>5. conn[d].heard + (Len(conn[d].inbox) + 1) = taken
      <4>1. conn[d].heard + Len(conn[d].inbox) = taken - 1
        BY <2>2, <3>2
      <4> QED
        BY <1>0, <3>3, <3>4, <4>1
    <3>6. ASSUME NEW i \in 1..Len(conn'[d].inbox)
          PROVE  conn'[d].inbox[i].n = conn'[d].heard + i
      <4>1. CASE i = Len(conn[d].inbox) + 1
        <5>1. conn'[d].inbox[i].n = taken
          BY <3>2, <3>3, <4>1
        <5> QED
          BY <2>1, <3>5, <4>1, <5>1
      <4>2. CASE i # Len(conn[d].inbox) + 1
        <5>1. i \in 1..Len(conn[d].inbox)
          BY <3>3, <4>2
        <5> QED
          BY <2>1, <2>2, <3>3, <5>1
      <4> QED
        BY <4>1, <4>2
    <3> QED
      BY <2>1, <3>2, <3>3, <3>5, <3>6
  <2> QED
    BY <2>3, <2>4
<1>4. CASE Finish
  BY <1>0, <1>4, FinishDoes DEF NothingSkipped, Due
<1>5. ASSUME NEW p \in Pages, ClosePage(p) \/ Break(p) PROVE NothingSkipped'
  <2>1. conn' = Hangs(page[p].conn) /\ UNCHANGED <<taken, worker>>
    BY <1>5 DEF ClosePage, Break
  <2>2. page[p].conn \in Conns \cup {NoConn}
    BY <1>5, ClosePageDoes, BreakDoes
  <2> QED
    BY <2>1, <2>2, HangsDoes, NothingSkippedKept
<1>6. ASSUME NEW p \in Pages, Receive(p) PROVE NothingSkipped'
  <2>0. PICK c : c = page[p].conn
    OBVIOUS
  <2> DEFINE message == Head(conn[c].inbox)
  <2>1. /\ UNCHANGED <<taken, worker>> /\ c \in Conns /\ conn[c].inbox # <<>>
        /\ message = conn[c].inbox[1]
    BY <1>6, <2>0, ReceiveDoes
  <2>2. CASE conn' = Hangs(c)
    BY <2>1, <2>2, HangsDoes, NothingSkippedKept
  <2>3. CASE /\ conn'[c].state = conn[c].state
             /\ conn'[c].inbox = Tail(conn[c].inbox) /\ conn'[c].heard = message.n
             /\ \A d \in Conns : d # c => conn'[d] = conn[d]
    <3> SUFFICES ASSUME NEW d \in Conns, conn'[d].state = "open", d \notin worker.failed
                 PROVE  /\ conn'[d].heard + Len(conn'[d].inbox) = Due(d)
                        /\ \A i \in 1..Len(conn'[d].inbox) :
                             conn'[d].inbox[i].n = conn'[d].heard + i
      BY <2>1 DEF NothingSkipped, Due
    <3>1. conn[d].state = "open"
      BY <2>3
    <3>2. /\ conn[d].heard + Len(conn[d].inbox) = Due(d)
          /\ \A i \in 1..Len(conn[d].inbox) : conn[d].inbox[i].n = conn[d].heard + i
      BY <1>0, <3>1 DEF NothingSkipped
    <3>3. CASE d # c
      BY <2>3, <3>2, <3>3
    <3>4. CASE d = c
      <4>1. conn[c].inbox \in Seq(Messages) /\ conn[c].heard \in Nat
            /\ Len(conn[c].inbox) \in Nat /\ 1 \in 1..Len(conn[c].inbox)
        BY <2>1, ConnsTyped
      <4>2. /\ Len(conn'[c].inbox) = Len(conn[c].inbox) - 1
            /\ \A i \in 1..Len(conn'[c].inbox) : conn'[c].inbox[i] = conn[c].inbox[i + 1]
        BY <2>1, <2>3, <4>1
      <4>3. conn'[c].heard = conn[c].heard + 1
        BY <2>1, <2>3, <3>2, <3>4, <4>1
      <4>4. (conn[c].heard + 1) + (Len(conn[c].inbox) - 1) = conn[c].heard + Len(conn[c].inbox)
        BY <4>1
      <4>5. ASSUME NEW i \in 1..Len(conn'[c].inbox)
            PROVE  conn'[c].inbox[i].n = conn'[c].heard + i
        <5>1. i + 1 \in 1..Len(conn[c].inbox) /\ i \in Nat
          BY <4>1, <4>2
        <5>2. conn'[c].inbox[i].n = conn[c].heard + (i + 1)
          BY <3>2, <3>4, <4>2, <5>1
        <5>3. conn[c].heard + (i + 1) = (conn[c].heard + 1) + i
          BY <4>1, <5>1
        <5> QED
          BY <4>3, <5>2, <5>3
      <4> QED
        BY <3>2, <3>4, <4>2, <4>3, <4>4, <4>5
    <3> QED
      BY <3>3, <3>4
  <2> QED
    BY <1>6, <2>0, <2>2, <2>3, ReceiveDoes
<1>7. ASSUME NEW p \in Pages, Connect(p) PROVE NothingSkipped'
  <2>1. /\ NextConn \in Free /\ conn'[NextConn].heard = taken /\ conn'[NextConn].inbox = <<>>
        /\ \A d \in Conns : d # NextConn => conn'[d] = conn[d]
    BY <1>7, ConnectDoes
  <2>2. UNCHANGED <<taken, worker>>
    BY <1>7 DEF Connect
  <2> QED
    BY <1>0, <2>1, <2>2 DEF NothingSkipped, Due, Free
<1>8. ASSUME NEW c \in Conns, Reap(c) PROVE NothingSkipped'
  BY <1>8, ReapDoes, NothingSkippedKept DEF Unused
<1> QED
  BY <1>1, <1>2, <1>3, <1>4, <1>5, <1>6, <1>7, <1>8
     DEF Next, vars, Server, Worker, Browser, Succeed, ClearError, Fail, Broadcast,
         Request, Answer, OpenPage, Done

\* What is waiting in an inbox stays in order when some of it is taken out.
LEMMA InboxKept ==
  ASSUME Inv, UNCHANGED taken, worker'.message = worker.message,
         \A d \in Conns :
           /\ \A i \in 1..Len(conn'[d].inbox) : \E j \in 1..Len(conn[d].inbox) :
                conn'[d].inbox[i] = conn[d].inbox[j]
           /\ conn'[d].state = "cut" \/ (conn'[d].state = "open" /\ d \in worker'.failed) =>
                conn[d].state = "cut" \/ (conn[d].state = "open" /\ d \in worker.failed)
  PROVE  InboxOK'
<1> SUFFICES ASSUME NEW d \in Conns, NEW i \in 1..Len(conn'[d].inbox)
             PROVE  LET m == conn'[d].inbox[i] IN
                    /\ m.n <= taken
                    /\ m.n = taken => m = worker.message
                    /\ conn'[d].state = "cut"
                         \/ (conn'[d].state = "open" /\ d \in worker'.failed) => m.n < taken
  BY DEF InboxOK
<1>1. PICK j \in 1..Len(conn[d].inbox) : conn'[d].inbox[i] = conn[d].inbox[j]
  OBVIOUS
<1> QED
  BY <1>1 DEF Inv, InboxOK

\* The inboxes stay right.
LEMMA InboxStep == Inv /\ [Next]_vars => InboxOK'
<1> SUFFICES ASSUME Inv, [Next]_vars PROVE InboxOK'
  OBVIOUS
<1>0. taken \in Nat /\ InboxOK /\ NothingSkipped
  BY DEF Inv, ChannelOK
<1>1. CASE UNCHANGED <<taken, worker, conn>>
  BY <1>1, InboxKept
<1>2. CASE Take
  BY <1>0, <1>2, TakeDoes, ConnsTyped DEF InboxOK
<1>3. ASSUME NEW c \in Conns, Write(c) PROVE InboxOK'
  <2>1. CASE worker'.failed = worker.failed
    <3> SUFFICES ASSUME NEW d \in Conns, NEW i \in 1..Len(conn'[d].inbox)
                 PROVE  LET m == conn'[d].inbox[i] IN
                        /\ m.n <= taken
                        /\ m.n = taken => m = worker.message
                        /\ conn[d].state = "cut"
                             \/ (conn[d].state = "open" /\ d \in worker.failed) => m.n < taken
      BY <1>3, <2>1, WriteDoes DEF InboxOK
    <3>1. CASE i \in 1..Len(conn[d].inbox) /\ conn'[d].inbox[i] = conn[d].inbox[i]
      BY <1>0, <3>1 DEF InboxOK
    <3>2. CASE /\ d = c /\ conn[c].state = "open"
               /\ conn'[d].inbox = Append(conn[d].inbox, worker.message)
      <4>1. CASE i = Len(conn[d].inbox) + 1
        <5>1. conn'[d].inbox[i] = worker.message
          BY <3>2, <4>1, ConnsTyped
        <5> QED
          BY <1>0, <1>3, <3>2, <5>1, WriteDoes DEF Inv, WorkerOK
      <4>2. CASE i # Len(conn[d].inbox) + 1
        BY <3>1, <3>2, <4>2, ConnsTyped
      <4> QED
        BY <4>1, <4>2
    <3> QED
      BY <1>3, <2>1, <3>1, <3>2, WriteDoes
  <2>2. CASE worker'.failed = worker.failed \cup {c} /\ conn' = conn
    <3>1. conn[c].state = "open" => \A i \in 1..Len(conn[c].inbox) : conn[c].inbox[i].n < taken
      BY <1>0, <1>3, WriteDoes, ConnsTyped DEF NothingSkipped, Due
    <3> QED
      BY <1>0, <1>3, <2>2, <3>1, WriteDoes DEF InboxOK
  <2> QED
    BY <1>3, <2>1, <2>2, WriteDoes
<1>4. CASE Finish
  BY <1>4, FinishDoes, InboxKept
<1>5. ASSUME NEW p \in Pages, ClosePage(p) \/ Break(p) PROVE InboxOK'
  <2>1. conn' = Hangs(page[p].conn) /\ UNCHANGED <<taken, worker>>
    BY <1>5 DEF ClosePage, Break
  <2>2. page[p].conn \in Conns \cup {NoConn}
    BY <1>5, ClosePageDoes, BreakDoes
  <2> QED
    BY <2>1, <2>2, HangsDoes, InboxKept
<1>6. ASSUME NEW p \in Pages, Receive(p) PROVE InboxOK'
  <2> DEFINE c == page[p].conn
  <2>1. UNCHANGED <<taken, worker>> /\ c \in Conns /\ conn[c].inbox # <<>>
    BY <1>6, ReceiveDoes
  <2>2. CASE conn' = Hangs(c)
    BY <2>1, <2>2, HangsDoes, InboxKept
  <2>3. CASE /\ conn'[c].state = conn[c].state /\ conn'[c].inbox = Tail(conn[c].inbox)
             /\ \A d \in Conns : d # c => conn'[d] = conn[d]
    <3>1. \A i \in 1..Len(conn'[c].inbox) :
            i + 1 \in 1..Len(conn[c].inbox) /\ conn'[c].inbox[i] = conn[c].inbox[i + 1]
      BY <2>1, <2>3, ConnsTyped
    <3> QED
      BY <2>1, <2>3, <3>1, InboxKept
  <2> QED
    BY <1>6, <2>2, <2>3, ReceiveDoes
<1>7. ASSUME NEW p \in Pages, Connect(p) PROVE InboxOK'
  <2>1. /\ NextConn \in Free /\ conn'[NextConn].inbox = <<>>
        /\ \A d \in Conns : d # NextConn => conn'[d] = conn[d]
    BY <1>7, ConnectDoes
  <2>2. UNCHANGED <<taken, worker>>
    BY <1>7 DEF Connect
  <2> QED
    BY <1>0, <2>1, <2>2 DEF InboxOK
<1>8. ASSUME NEW c \in Conns, Reap(c) PROVE InboxOK'
  BY <1>0, <1>8, ReapDoes DEF InboxOK, Unused
<1> QED
  BY <1>1, <1>2, <1>3, <1>4, <1>5, <1>6, <1>7, <1>8
     DEF Next, vars, Server, Worker, Browser, Succeed, ClearError, Fail, Broadcast,
         Request, Answer, OpenPage, Done

\* What has been told last stays true.
LEMMA LastToldStep == Inv /\ [Next]_vars => LastTold'
<1> SUFFICES ASSUME Inv, [Next]_vars, main' = "idle" PROVE LastTold'
  BY DEF LastTold
<1> USE DEF LastTold
<1>0. LastTold /\ taken \in Nat /\ channel \in Seq(Messages)
  BY DEF Inv, ChannelOK
<1>1. CASE UNCHANGED <<main, error, channel, taken>> /\ worker'.message = worker.message
  BY <1>0, <1>1
<1>2. CASE Succeed \/ ClearError
  BY <1>2 DEF Succeed, ClearError
<1>3. ASSUME NEW e \in Errors, Fail(e) PROVE LastTold'
  BY <1>0, <1>3 DEF Fail
<1>4. CASE Broadcast
  BY <1>0, <1>4, BroadcastDoes
<1>5. CASE Take
  BY <1>0, <1>5, TakeDoes
<1>6. UNCHANGED <<main, error, channel, taken, worker>>
      \/ (\E c \in Conns : Write(c)) \/ Finish
      \/ Succeed \/ ClearError \/ Broadcast \/ Take \/ \E e \in Errors : Fail(e)
  BY DEF Next, vars, Server, Worker, Browser, Request, Answer, Receive, Connect, OpenPage,
         ClosePage, Break, Reap, Done
<1> QED
  BY <1>1, <1>2, <1>3, <1>4, <1>5, <1>6, WriteDoes, FinishDoes

----------------------------------------------------------------------------
(* What the pages show *)

\* A page keeps its diagnostic when nothing it depends on changes.
LEMMA OverlayKept ==
  ASSUME Inv, NEW p \in Pages, UNCHANGED <<main, error>>, Sent' = Sent,
         page'[p] = page[p],
         page[p].stage = "open" => conn'[page[p].conn].heard = conn[page[p].conn].heard
  PROVE  OverlayRight(p)' /\ NotAhead(p)'
BY DEF Inv, OverlayOK, OverlayRight, NotAhead

\* What a page holds, and the state of its connection.
LEMMA PageTyped ==
  ASSUME Inv, NEW p \in Pages
  PROVE  /\ page[p].asOf \in Nat /\ page[p].asOf <= Sent /\ page[p].conn \in Conns \cup {NoConn}
         /\ page[p].stage = "open" <=> page[p].conn # NoConn
         /\ page[p].stage = "open" => page[p].conn \in Conns
                                      /\ conn[page[p].conn].state \in {"open", "cut"}
<1>1. /\ page[p].asOf \in Nat /\ page[p].asOf <= Sent /\ page[p].conn \in Conns \cup {NoConn}
      /\ page[p].stage = "open" <=> page[p].conn # NoConn
  BY DEF Inv, PageOK, Page
<1> QED
  BY <1>1, ExactParts DEF Inv, Linked

\* Pages keep showing the right diagnostic.
LEMMA OverlayStep == Inv /\ [Next]_vars => OverlayOK'
<1> SUFFICES ASSUME Inv, [Next]_vars PROVE OverlayOK'
  OBVIOUS
<1> USE DEF OverlayOK
<1>0. OverlayOK
  BY DEF Inv
<1>1. CASE UNCHANGED <<main, error, channel, taken, conn, page>>
  BY <1>1, SentSteps, OverlayKept
<1>2. CASE Succeed \/ ClearError
  BY <1>0, <1>2 DEF Succeed, ClearError, OverlayRight, NotAhead
<1>3. ASSUME NEW e \in Errors, Fail(e) PROVE OverlayOK'
  <2>1. UNCHANGED <<channel, taken, conn, page>>
    BY <1>3 DEF Fail
  <2>2. CASE error = e
    BY <1>3, <2>1, <2>2, SentSteps, OverlayKept DEF Fail
  <2>3. CASE error # e
    BY <1>0, <1>3, <2>3 DEF Fail, OverlayRight, NotAhead
  <2> QED
    BY <2>2, <2>3
<1>4. CASE Broadcast
  <2>1. Sent' = Sent + 1 /\ Sent \in Nat /\ UNCHANGED <<conn, page>>
    BY <1>4, SentSteps, BroadcastDoes, TakenBound
  <2>2. ASSUME NEW p \in Pages PROVE page'[p].asOf # Sent'
    BY <2>1, PageTyped
  <2> QED
    BY <1>0, <2>1, <2>2 DEF OverlayRight, NotAhead
<1>5. CASE Take
  BY <1>5, TakeDoes, SentSteps, OverlayKept
<1>6. ASSUME NEW c \in Conns, Write(c) PROVE OverlayOK'
  BY <1>6, WriteDoes, SentSteps, OverlayKept, PageTyped
<1>7. CASE Finish
  BY <1>7, FinishDoes, SentSteps, OverlayKept, PageTyped
<1>8. ASSUME NEW p \in Pages, OnlyPage(p), UNCHANGED <<main, error, channel, taken>>,
             \A q \in Pages : q # p /\ page[q].stage = "open" =>
               conn'[page[q].conn].heard = conn[page[q].conn].heard,
             OverlayRight(p)', NotAhead(p)'
      PROVE  OverlayOK'
  BY <1>8, SentSteps, OverlayKept DEF OnlyPage
<1>9. ASSUME NEW p \in Pages, OpenPage(p) \/ Request(p) PROVE OverlayOK'
  <2>1. OnlyPage(p) /\ page'[p].stage \in {"wanting", "asking"}
    BY <1>9, OpenPageDoes, RequestDoes
  <2>2. UNCHANGED <<main, error, channel, taken, conn>>
    BY <1>9 DEF OpenPage, Request
  <2> QED
    BY <1>8, <2>1, <2>2 DEF OverlayRight, NotAhead
<1>10. ASSUME NEW p \in Pages, Answer(p) PROVE OverlayOK'
  <2>1. UNCHANGED <<main, error, channel, taken, conn>>
    BY <1>10 DEF Answer
  <2> QED
    BY <1>8, <1>10, <2>1, AnswerDoes DEF OverlayRight, NotAhead
<1>11. ASSUME NEW p \in Pages, ClosePage(p) PROVE OverlayOK'
  <2>1. UNCHANGED <<main, error, channel, taken>> /\ conn' = Hangs(page[p].conn)
    BY <1>11 DEF ClosePage
  <2>2. page'[p].stage = "closed"
    BY <1>11, ClosePageDoes DEF Closed
  <2> QED
    BY <1>8, <1>11, <2>1, <2>2, ClosePageDoes, HangsDoes, PageTyped DEF OverlayRight, NotAhead
<1>12. ASSUME NEW p \in Pages, Break(p) PROVE OverlayOK'
  <2>1. UNCHANGED <<main, error, channel, taken>> /\ conn' = Hangs(page[p].conn)
    BY <1>12 DEF Break
  <2>2. OverlayRight(p)' /\ NotAhead(p)'
    BY <1>0, <1>12, <2>1, BreakDoes, SentSteps DEF OverlayRight, NotAhead
  <2> QED
    BY <1>8, <1>12, <2>1, <2>2, BreakDoes, HangsDoes, PageTyped
<1>13. ASSUME NEW p \in Pages, Receive(p) PROVE OverlayOK'
  <2>0. PICK c : c = page[p].conn
    OBVIOUS
  <2> DEFINE message == Head(conn[c].inbox)
  <2>1. /\ OnlyPage(p) /\ UNCHANGED <<main, error, channel, taken, worker>> /\ c \in Conns
        /\ conn[c].inbox # <<>> /\ message = conn[c].inbox[1] /\ page[p].stage = "open"
    BY <1>13, <2>0, ReceiveDoes
  <2>2. CASE page'[p] = [Closed EXCEPT !.stage = "wanting"] /\ conn' = Hangs(c)
    <3>1. page'[p].stage = "wanting"
      BY <2>2 DEF Closed
    <3> QED
      BY <1>8, <2>1, <2>2, <3>1, HangsDoes, PageTyped DEF OverlayRight, NotAhead
  <2>3. CASE /\ page'[p].stage = "open" /\ page'[p].conn = c
             /\ page'[p].overlay = message.error /\ page'[p].asOf = message.n
             /\ conn'[c].heard = message.n
             /\ \A d \in Conns : d # c => conn'[d] = conn[d]
    <3>1. 1 \in 1..Len(conn[c].inbox) /\ message.n \in Nat
      BY <2>1, ConnsTyped
    <3>2. NotAhead(p)'
      BY <2>1, <2>3, <3>1 DEF NotAhead
    <3>3. OverlayRight(p)'
      <4> SUFFICES ASSUME main = "idle", message.n = Sent PROVE message.error = error
        BY <2>1, <2>3, SentSteps DEF OverlayRight
      <4>1. message.n <= taken /\ (message.n = taken => message = worker.message)
        BY <2>1, <3>1 DEF Inv, InboxOK
      <4>2. message.n = taken /\ Len(channel) = 0
        BY <3>1, <4>1 DEF Inv, ChannelOK, Sent
      <4>3. channel = <<>>
        BY <4>2 DEF Inv, ChannelOK
      <4>4. taken > 0
        <5>1. message \in Messages
          BY <1>13, <2>0, ReceiveDoes
        <5> QED
          BY <4>2, <5>1 DEF Messages
      <4> QED
        BY <4>1, <4>2, <4>3, <4>4 DEF Inv, LastTold
    <3>4. \A q \in Pages : q # p /\ page[q].stage = "open" => page[q].conn # c
      BY <2>0, <2>1, PageTyped, ExactParts DEF Inv, Alone
    <3> QED
      BY <1>8, <2>1, <2>3, <3>2, <3>3, <3>4, PageTyped
  <2> QED
    BY <1>13, <2>0, <2>2, <2>3, ReceiveDoes
<1>14. ASSUME NEW p \in Pages, Connect(p) PROVE OverlayOK'
  <2>0. PICK c : c = NextConn
    OBVIOUS
  <2>1. UNCHANGED <<main, error, channel, taken>>
    BY <1>14 DEF Connect
  <2>2. /\ OnlyPage(p) /\ c \in Conns /\ conn[c].state = "free" /\ page'[p].conn = c
        /\ page[p].stage = "loaded" /\ page'[p].stage = "open"
        /\ page'[p].asOf = page[p].asOf /\ page'[p].overlay = page[p].overlay
        /\ page'[p].late <=> page[p].late \/ page[p].asOf < taken
        /\ conn'[c].heard = taken /\ \A d \in Conns : d # c => conn'[d] = conn[d]
    BY <1>14, <2>0, ConnectDoes DEF Free
  <2>3. NotAhead(p)'
    BY <2>2, PageTyped DEF NotAhead, Inv, ChannelOK
  <2>4. OverlayRight(p)'
    BY <1>0, <2>1, <2>2, SentSteps DEF OverlayRight
  <2>5. \A q \in Pages : q # p /\ page[q].stage = "open" => page[q].conn # c
    BY <2>2, PageTyped
  <2> QED
    BY <1>8, <2>1, <2>2, <2>3, <2>4, <2>5, PageTyped
<1>15. ASSUME NEW c \in Conns, Reap(c) PROVE OverlayOK'
  <2>1. \A q \in Pages : page[q].stage = "open" => page[q].conn # c
    BY <1>15, ReapDoes, PageTyped
  <2> QED
    BY <1>15, <2>1, ReapDoes, SentSteps, OverlayKept, PageTyped
<1> QED
  BY <1>1, <1>2, <1>3, <1>4, <1>5, <1>6, <1>7, <1>9, <1>10, <1>11, <1>12, <1>13, <1>14, <1>15
     DEF Next, vars, Server, Worker, Browser, Done

\* A page that is left alone, with what is under way to it, stays right.
LEMMA GenKept ==
  ASSUME Inv, NEW p \in Pages,
         UNCHANGED <<main, active, error, channel, taken>>,
         page'[p].stage \in {"asking", "loaded", "open"} /\ ~page'[p].late =>
           /\ page[p].stage \in {"asking", "loaded", "open"} /\ ~page[p].late
           /\ page'[p].gen = page[p].gen /\ page'[p].asOf = page[p].asOf
           /\ Attached(p)' /\ page[p].asOf < taken => Attached(p) /\ (Arriving(p) => Arriving(p)')
  PROVE  GenRight(p)'
<1> SUFFICES ASSUME page'[p].stage \in {"asking", "loaded", "open"}, ~page'[p].late
             PROVE  page'[p].gen = active' \/ Coming(p)'
  BY DEF GenRight
<1>1. page[p].gen = active \/ Coming(p)
  BY DEF Inv, GenOK, GenRight
<1>2. page'[p].gen = page[p].gen /\ page'[p].asOf = page[p].asOf
  OBVIOUS
<1>3. Attached(p)' /\ page[p].asOf < taken => Attached(p) /\ (Arriving(p) => Arriving(p)')
  OBVIOUS
<1>4. CASE page[p].asOf < taken /\ (Attached(p) => Arriving(p))
  BY <1>2, <1>3, <1>4 DEF Coming
<1>5. CASE \/ main = "clear" \/ (main = "tell" /\ error = NoError)
           \/ \E i \in 1..Len(channel) :
                channel[i].error = NoError /\ channel[i].n > page[p].asOf
  BY <1>2, <1>5 DEF Coming
<1> QED
  BY <1>1, <1>2, <1>4, <1>5 DEF Coming

\* In particular when neither it nor its connection changes.
LEMMA GenOther ==
  ASSUME Inv, NEW p \in Pages, UNCHANGED <<main, active, error, channel, taken, worker>>,
         page'[p] = page[p],
         page[p].stage = "open" =>
           /\ conn'[page[p].conn].state = "open" => conn[page[p].conn].state = "open"
           /\ conn'[page[p].conn].inbox = conn[page[p].conn].inbox
  PROVE  GenRight(p)'
<1>1. Attached(p)' => Attached(p) /\ (Arriving(p) => Arriving(p)')
  BY DEF Attached, Arriving
<1> QED
  BY <1>1, GenKept

\* Pages that are out of date stay those that will hear of it.
LEMMA GenStep == Inv /\ [Next]_vars => GenOK'
<1> SUFFICES ASSUME Inv, [Next]_vars PROVE GenOK'
  OBVIOUS
<1> USE DEF GenOK
<1>0. GenOK
  BY DEF Inv
<1>1. CASE UNCHANGED <<main, active, error, channel, taken, worker, conn, page>>
  BY <1>1, GenOther
<1>2. CASE Succeed \/ ClearError
  <2>1. main' = "clear" \/ (main' = "tell" /\ error' = NoError)
    BY <1>2 DEF Succeed, ClearError
  <2> QED
    BY <2>1 DEF GenRight, Coming
<1>3. ASSUME NEW e \in Errors, Fail(e) PROVE GenOK'
  <2>1. main = "idle" /\ UNCHANGED <<active, channel, taken, worker, conn, page>>
    BY <1>3 DEF Fail
  <2> QED
    BY <1>0, <2>1 DEF GenRight, Coming, Attached, Arriving
<1>4. CASE Broadcast
  <2> SUFFICES ASSUME NEW p \in Pages, Coming(p) PROVE Coming(p)'
    BY <1>0, <1>4, BroadcastDoes DEF GenRight
  <2>1. UNCHANGED <<taken, worker, conn, page>> /\ main = "tell"
    BY <1>4, BroadcastDoes
  <2>2. CASE error = NoError
    <3>1. Len(channel') = Len(channel) + 1 /\ Len(channel) \in Nat
          /\ channel'[Len(channel) + 1] = [n |-> Sent + 1, error |-> NoError]
      BY <1>4, <2>2, BroadcastDoes DEF Inv, ChannelOK
    <3>2. Len(channel) + 1 \in 1..Len(channel') /\ Sent + 1 > page[p].asOf
      BY <3>1, PageTyped, TakenBound
    <3> QED
      BY <2>1, <3>1, <3>2 DEF Coming
  <2>3. CASE \E i \in 1..Len(channel) :
               channel[i].error = NoError /\ channel[i].n > page[p].asOf
    <3>1. PICK i \in 1..Len(channel) :
            channel[i].error = NoError /\ channel[i].n > page[p].asOf
      BY <2>3
    <3>2. i \in 1..Len(channel') /\ channel'[i] = channel[i]
      BY <1>4, BroadcastDoes DEF Inv, ChannelOK
    <3> QED
      BY <2>1, <3>1, <3>2 DEF Coming
  <2>4. CASE page[p].asOf < taken /\ (Attached(p) => Arriving(p))
    BY <2>1, <2>4 DEF Coming, Attached, Arriving
  <2> QED
    BY <2>1, <2>2, <2>3, <2>4 DEF Coming
<1>5. CASE Take
  <2> SUFFICES ASSUME NEW p \in Pages, Coming(p) PROVE Coming(p)'
    BY <1>0, <1>5, TakeDoes DEF GenRight
  <2>1. UNCHANGED <<main, error, conn, page>> /\ taken' = taken + 1 /\ taken \in Nat
    BY <1>5, TakeDoes DEF Inv, ChannelOK
  <2>2. Attached(p)' => page[p].conn \in worker'.left
    BY <1>5, <2>1, TakeDoes, PageTyped, ExactParts DEF Attached, Inv, Linked
  <2>3. CASE main = "clear" \/ (main = "tell" /\ error = NoError)
    BY <2>1, <2>3 DEF Coming
  <2>4. CASE \E i \in 1..Len(channel) :
               channel[i].error = NoError /\ channel[i].n > page[p].asOf
    <3>1. PICK i \in 1..Len(channel) :
            channel[i].error = NoError /\ channel[i].n > page[p].asOf
      BY <2>4
    <3>2. CASE i = 1
      <4>1. channel[1].n = taken + 1
        BY <3>2 DEF Inv, ChannelOK
      <4>2. page'[p].asOf < taken'
        BY <2>1, <3>1, <3>2, <4>1
      <4>3. Attached(p)' => Arriving(p)'
        BY <1>5, <2>1, <2>2, <3>1, <3>2, TakeDoes DEF Arriving
      <4> QED
        BY <4>2, <4>3 DEF Coming
    <3>3. CASE i # 1
      <4>1. i - 1 \in 1..Len(channel') /\ channel'[i - 1] = channel[i]
        BY <1>5, <3>3, TakeDoes DEF Inv, ChannelOK
      <4> QED
        BY <2>1, <3>1, <4>1 DEF Coming
    <3> QED
      BY <3>2, <3>3
  <2>5. CASE page[p].asOf < taken /\ (Attached(p) => Arriving(p))
    <3>1. page'[p].asOf < taken'
      BY <2>1, <2>5, PageTyped
    <3>2. Attached(p)' => Attached(p)
      BY <1>5, <2>1, TakeDoes DEF Attached
    <3>3. Arriving(p) => Arriving(p)'
      BY <1>5, <2>1, TakeDoes DEF Arriving
    <3> QED
      BY <2>5, <3>1, <3>2, <3>3 DEF Coming
  <2> QED
    BY <2>3, <2>4, <2>5 DEF Coming
<1>6. ASSUME NEW c \in Conns, Write(c) PROVE GenOK'
  <2> SUFFICES ASSUME NEW p \in Pages, Attached(p)', page[p].asOf < taken
               PROVE  Attached(p) /\ (Arriving(p) => Arriving(p)')
    BY <1>6, WriteDoes, GenKept
  <2>0. PICK d : d = page[p].conn
    OBVIOUS
  <2>1. UNCHANGED <<taken, page>> /\ worker'.message = worker.message
    BY <1>6, WriteDoes
  <2>2. Attached(p)
    BY <1>6, <2>1, WriteDoes, PageTyped DEF Attached
  <2>3. d \in Conns /\ conn[d].state = "open" /\ d \notin worker'.failed
    BY <2>0, <2>1, <2>2, PageTyped DEF Attached
  <2>4. ASSUME Arriving(p) PROVE Arriving(p)'
    <3>1. CASE d # c
      <4>1. conn'[d].inbox = conn[d].inbox /\ (d \in worker.left => d \in worker'.left)
        BY <1>6, <2>3, <3>1, WriteDoes
      <4> QED
        BY <2>0, <2>1, <2>4, <4>1 DEF Arriving
    <3>2. CASE d = c
      <4>1. conn'[d].inbox = Append(conn[d].inbox, worker.message)
        BY <1>6, <2>3, <3>2, WriteDoes
      <4>2. /\ Len(conn[d].inbox) \in Nat
            /\ Len(conn'[d].inbox) = Len(conn[d].inbox) + 1
            /\ \A i \in 1..Len(conn[d].inbox) : conn'[d].inbox[i] = conn[d].inbox[i]
            /\ conn'[d].inbox[Len(conn[d].inbox) + 1] = worker.message
        BY <2>3, <4>1, ConnsTyped
      <4>3. CASE \E i \in 1..Len(conn[d].inbox) :
                   conn[d].inbox[i].error = NoError /\ conn[d].inbox[i].n > page[p].asOf
        <5>1. PICK i \in 1..Len(conn[d].inbox) :
                conn[d].inbox[i].error = NoError /\ conn[d].inbox[i].n > page[p].asOf
          BY <4>3
        <5>2. i \in 1..Len(conn'[d].inbox) /\ conn'[d].inbox[i] = conn[d].inbox[i]
          BY <4>2
        <5> QED
          BY <2>0, <2>1, <5>1, <5>2 DEF Arriving
      <4>4. CASE worker.message.error = NoError
        <5>1. worker.message.n > page[p].asOf
          BY PageTyped DEF Inv, WorkerOK, ChannelOK
        <5>2. Len(conn[d].inbox) + 1 \in 1..Len(conn'[d].inbox)
          BY <4>2
        <5> QED
          BY <2>0, <2>1, <4>2, <4>4, <5>1, <5>2 DEF Arriving
      <4> QED
        BY <2>0, <2>4, <4>3, <4>4 DEF Arriving
    <3> QED
      BY <3>1, <3>2
  <2> QED
    BY <2>2, <2>4
<1>7. CASE Finish
  <2> SUFFICES ASSUME NEW p \in Pages, Attached(p)'
               PROVE  Attached(p) /\ (Arriving(p) => Arriving(p)')
    BY <1>7, FinishDoes, GenKept
  <2>1. Attached(p) /\ page[p].conn \in Conns
    BY <1>7, FinishDoes, PageTyped DEF Attached
  <2> QED
    BY <1>7, <2>1, FinishDoes DEF Arriving
<1>8. ASSUME NEW p \in Pages, OnlyPage(p),
             UNCHANGED <<main, active, error, channel, taken, worker>>,
             \A q \in Pages : q # p /\ page[q].stage = "open" =>
               /\ conn'[page[q].conn].state = "open" => conn[page[q].conn].state = "open"
               /\ conn'[page[q].conn].inbox = conn[page[q].conn].inbox,
             GenRight(p)'
      PROVE  GenOK'
  <2>1. \A q \in Pages : q # p => GenRight(q)'
    BY <1>8, GenOther DEF OnlyPage
  <2> QED
    BY <1>8, <2>1
<1>9. ASSUME NEW p \in Pages, OpenPage(p) PROVE GenOK'
  BY <1>8, <1>9, OpenPageDoes DEF OpenPage, GenRight
<1>10. ASSUME NEW p \in Pages, Request(p) PROVE GenOK'
  BY <1>8, <1>10, RequestDoes DEF Request, GenRight
<1>11. ASSUME NEW p \in Pages, Answer(p) PROVE GenOK'
  <2>1. UNCHANGED <<main, active, error, channel, taken, worker, conn>>
    BY <1>11 DEF Answer
  <2>2. ~Attached(p)'
    BY <1>11, AnswerDoes DEF Attached
  <2>3. GenRight(p)'
    BY <1>11, <2>1, <2>2, AnswerDoes, GenKept
  <2> QED
    BY <1>8, <1>11, <2>1, <2>3, AnswerDoes
<1>12. ASSUME NEW p \in Pages, ClosePage(p) PROVE GenOK'
  <2>1. /\ UNCHANGED <<main, active, error, channel, taken, worker>>
        /\ conn' = Hangs(page[p].conn)
    BY <1>12 DEF ClosePage
  <2>2. page'[p].stage = "closed"
    BY <1>12, ClosePageDoes DEF Closed
  <2> QED
    BY <1>8, <1>12, <2>1, <2>2, ClosePageDoes, HangsDoes, PageTyped DEF GenRight
<1>13. ASSUME NEW p \in Pages, Break(p) PROVE GenOK'
  <2>1. /\ UNCHANGED <<main, active, error, channel, taken, worker>>
        /\ conn' = Hangs(page[p].conn)
    BY <1>13 DEF Break
  <2>2. ~Attached(p)'
    BY <1>13, BreakDoes DEF Attached
  <2>3. GenRight(p)'
    BY <1>13, <2>1, <2>2, BreakDoes, GenKept
  <2> QED
    BY <1>8, <1>13, <2>1, <2>3, BreakDoes, HangsDoes, PageTyped
<1>14. ASSUME NEW p \in Pages, Receive(p) PROVE GenOK'
  <2>0. PICK c : c = page[p].conn
    OBVIOUS
  <2> DEFINE message == Head(conn[c].inbox)
  <2>1. /\ OnlyPage(p) /\ UNCHANGED <<main, active, error, channel, taken, worker>>
        /\ c \in Conns /\ conn[c].inbox # <<>> /\ message = conn[c].inbox[1]
        /\ page[p].stage = "open"
    BY <1>14, <2>0, ReceiveDoes
  <2>2. CASE page'[p] = [Closed EXCEPT !.stage = "wanting"] /\ conn' = Hangs(c)
    <3>1. page'[p].stage = "wanting"
      BY <2>2 DEF Closed
    <3> QED
      BY <1>8, <2>1, <2>2, <3>1, HangsDoes, PageTyped DEF GenRight
  <2>3. CASE /\ message.error # NoError
             /\ page'[p].stage = "open" /\ page'[p].conn = c
             /\ page'[p].gen = page[p].gen /\ page'[p].late = page[p].late
             /\ page'[p].asOf = message.n
             /\ conn'[c].state = conn[c].state /\ conn'[c].inbox = Tail(conn[c].inbox)
             /\ \A d \in Conns : d # c => conn'[d] = conn[d]
    <3>1. /\ conn[c].inbox \in Seq(Messages) /\ 1 \in 1..Len(conn[c].inbox)
          /\ message.n \in Nat /\ taken \in Nat /\ page[p].asOf \in Nat
          /\ message.n <= taken
      BY <2>1, ConnsTyped, PageTyped DEF Inv, ChannelOK, InboxOK
    <3>2. \A q \in Pages : q # p /\ page[q].stage = "open" => page[q].conn # c
      BY <2>0, <2>1, PageTyped, ExactParts DEF Inv, Alone
    <3>3. GenRight(p)'
      <4> SUFFICES ASSUME Coming(p) PROVE Coming(p)'
        BY <1>0, <2>1, <2>3 DEF GenRight
      <4>1. CASE main = "clear" \/ (main = "tell" /\ error = NoError)
        BY <2>1, <4>1 DEF Coming
      <4>2. CASE \E i \in 1..Len(channel) :
                   channel[i].error = NoError /\ channel[i].n > page[p].asOf
        <5>1. PICK i \in 1..Len(channel) : channel[i].error = NoError
          BY <4>2
        <5>2. channel[i].n = taken + i
          BY DEF Inv, ChannelOK
        <5>3. channel[i].n > message.n
          BY <3>1, <5>2
        <5> QED
          BY <2>1, <2>3, <5>1, <5>3 DEF Coming
      <4>3. CASE page[p].asOf < taken /\ (Attached(p) => Arriving(p))
        <5>1. CASE ~Attached(p)
          <6>1. conn[c].state = "cut" \/ (conn[c].state = "open" /\ c \in worker.failed)
            BY <2>0, <2>1, <5>1, PageTyped DEF Attached
          <6>2. message.n < taken
            BY <2>1, <3>1, <6>1 DEF Inv, InboxOK
          <6>3. ~Attached(p)'
            BY <2>0, <2>1, <2>3, <5>1 DEF Attached
          <6> QED
            BY <2>1, <2>3, <6>2, <6>3 DEF Coming
        <5>2. CASE Attached(p)
          <6>1. /\ conn[c].state = "open" /\ c \notin worker.failed /\ Arriving(p)
            BY <2>0, <4>3, <5>2 DEF Attached
          <6>2. /\ conn[c].heard + Len(conn[c].inbox) = Due(c)
                /\ \A i \in 1..Len(conn[c].inbox) : conn[c].inbox[i].n = conn[c].heard + i
            BY <2>1, <6>1 DEF Inv, NothingSkipped
          <6>3. conn[c].heard \in Nat /\ Len(conn[c].inbox) \in Nat
            BY <2>1, ConnsTyped
          <6>4. message.n = conn[c].heard + 1
            BY <2>1, <3>1, <6>2
          <6>5. Len(conn'[c].inbox) = Len(conn[c].inbox) - 1
                /\ \A i \in 1..Len(conn'[c].inbox) : conn'[c].inbox[i] = conn[c].inbox[i + 1]
            BY <2>1, <2>3, <3>1
          <6>6. CASE \E i \in 1..Len(conn[c].inbox) :
                       conn[c].inbox[i].error = NoError /\ conn[c].inbox[i].n > page[p].asOf
            <7>1. PICK i \in 1..Len(conn[c].inbox) : conn[c].inbox[i].error = NoError
              BY <6>6
            <7>2. i # 1
              BY <2>1, <2>3, <7>1
            <7>3. conn[c].inbox[i].n > message.n
              BY <6>2, <6>3, <6>4, <7>2
            <7>4. i - 1 \in 1..Len(conn'[c].inbox) /\ conn'[c].inbox[i - 1] = conn[c].inbox[i]
              BY <6>3, <6>5, <7>2
            <7>5. Arriving(p)'
              BY <2>3, <7>1, <7>3, <7>4 DEF Arriving
            <7>6. conn[c].inbox[i].n <= taken /\ conn[c].inbox[i].n \in Nat
              BY <2>1, ConnsTyped DEF Inv, InboxOK
            <7>7. message.n < taken
              BY <3>1, <7>3, <7>6
            <7> QED
              BY <2>1, <2>3, <7>5, <7>7 DEF Coming
          <6>7. CASE c \in worker.left /\ worker.message.error = NoError
            <7>1. Due(c) = taken - 1
              BY <6>7 DEF Due
            <7>2. message.n < taken
              BY <3>1, <6>2, <6>3, <6>4, <7>1
            <7>3. Arriving(p)'
              BY <2>1, <2>3, <6>7 DEF Arriving
            <7> QED
              BY <2>1, <2>3, <7>2, <7>3 DEF Coming
          <6> QED
            BY <2>0, <6>1, <6>6, <6>7 DEF Arriving
        <5> QED
          BY <5>1, <5>2
      <4> QED
        BY <4>1, <4>2, <4>3 DEF Coming
    <3> QED
      BY <1>8, <2>1, <2>3, <3>2, <3>3, PageTyped
  <2> QED
    BY <1>14, <2>0, <2>2, <2>3, ReceiveDoes
<1>15. ASSUME NEW p \in Pages, Connect(p) PROVE GenOK'
  <2>0. PICK c : c = NextConn
    OBVIOUS
  <2>1. UNCHANGED <<main, active, error, channel, taken, worker>>
    BY <1>15 DEF Connect
  <2>2. /\ OnlyPage(p) /\ c \in Conns /\ conn[c].state = "free" /\ page'[p].conn = c
        /\ page[p].stage = "loaded" /\ page'[p].stage = "open"
        /\ page'[p].asOf = page[p].asOf /\ page'[p].gen = page[p].gen
        /\ page'[p].late <=> page[p].late \/ page[p].asOf < taken
        /\ \A d \in Conns : d # c => conn'[d] = conn[d]
    BY <1>15, <2>0, ConnectDoes DEF Free
  <2>3. GenRight(p)'
    BY <2>1, <2>2, GenKept
  <2>4. \A q \in Pages : q # p /\ page[q].stage = "open" => page[q].conn # c
    BY <2>2, PageTyped
  <2> QED
    BY <1>8, <2>1, <2>2, <2>3, <2>4, PageTyped
<1>16. ASSUME NEW c \in Conns, Reap(c) PROVE GenOK'
  <2>1. \A q \in Pages : page[q].stage = "open" => page[q].conn # c
    BY <1>16, ReapDoes, PageTyped
  <2> QED
    BY <1>16, <2>1, ReapDoes, GenOther, PageTyped
<1> QED
  BY <1>1, <1>2, <1>3, <1>4, <1>5, <1>6, <1>7, <1>9, <1>10, <1>11, <1>12, <1>13, <1>14, <1>15,
     <1>16
     DEF Next, vars, Server, Worker, Browser, Done

----------------------------------------------------------------------------
(* The theorems *)

\* A server that has just started satisfies the invariant ...
LEMMA InitInv == Init => Inv
<1> SUFFICES ASSUME Init PROVE Inv
  OBVIOUS
<1> USE DEF Init
<1>1. ServerOK
  BY DEF ServerOK
<1>2. ChannelOK
  BY DEF ChannelOK, Sent, ServerOK
<1>3. WorkerOK
  BY DEF WorkerOK, Reload
<1>4. ConnOK
  BY DEF ConnOK, Connection, Unused
<1>5. PageOK
  <2>1. Sent = 0
    BY DEF Sent
  <2> QED
    BY <2>1, ClosedIsPage DEF PageOK, Closed
<1>6. ClientsExact
  <2>1. Cardinality(clients) <= MaxClients
    BY FS_EmptySet DEF BoundsAssumption
  <2> QED
    BY <2>1 DEF ClientsExact, Closed, Unused
<1>7. NothingSkipped /\ InboxOK
  BY DEF NothingSkipped, InboxOK, Unused
<1>8. LastTold
  BY DEF LastTold
<1>9. OverlayOK /\ GenOK
  BY DEF OverlayOK, OverlayRight, NotAhead, GenOK, GenRight, Closed
<1> QED
  BY <1>1, <1>2, <1>3, <1>4, <1>5, <1>6, <1>7, <1>8, <1>9 DEF Inv

\* ... and every step keeps it ...
LEMMA NextInv == Inv /\ [Next]_vars => Inv'
<1> SUFFICES ASSUME Inv, [Next]_vars PROVE Inv'
  OBVIOUS
<1> QED
  BY ServerStep, ChannelStep, WorkerStep, ConnStep, PageStep, ExactStep,
     NothingSkippedStep, InboxStep, LastToldStep, OverlayStep, GenStep DEF Inv

\* ... so that it always holds.
LEMMA InvAlways == Spec => []Inv
<1>1. Init => Inv
  BY InitInv
<1>2. Inv /\ [Next]_vars => Inv'
  BY NextInv
<1> QED
  BY <1>1, <1>2, PTL DEF Spec

\* Inv gives what the runs check.
LEMMA InvSound == Inv => ClientsSound
<1> SUFFICES ASSUME Inv PROVE TypeOK
  BY DEF ClientsSound, Inv
<1>1. /\ main \in {"idle", "clear", "tell"}
      /\ active \in 0..(MaxBuilds + 1) /\ error \in Errors \cup {NoError}
      /\ builds \in 0..MaxBuilds
      /\ opens \in 0..MaxOpens /\ faults \in 0..MaxFaults
  BY DEF Inv, ServerOK
<1>2. taken \in 0..MaxBuilds
  BY TakenBound DEF Inv, ChannelOK
<1>3. channel \in Seq(Messages) /\ \A i \in 1..Len(channel) : channel[i].n = taken + i
  BY DEF Inv, ChannelOK
<1>4. /\ clients \subseteq Conns
      /\ conn \in [Conns -> [state : {"free", "open", "gone", "cut"},
                             heard : 0..MaxBuilds, inbox : Seq(Messages)]]
  BY DEF Inv, ConnOK, Connection
<1>5. page \in [Pages ->
        [stage : {"closed", "wanting", "asking", "loaded", "open"},
         gen : 0..(MaxBuilds + 1), overlay : Errors \cup {NoError},
         conn : Conns \cup {NoConn}, asOf : 0..MaxBuilds, late : BOOLEAN]]
  BY DEF Inv, PageOK, Page
<1>6. /\ worker \in [busy : BOOLEAN, message : Messages \cup {Reload(0)},
                     left : SUBSET Conns, failed : SUBSET Conns]
      /\ worker.left \cap worker.failed = {} /\ worker.message.n = taken
  BY DEF Inv, WorkerOK
<1> QED
  BY <1>1, <1>2, <1>3, <1>4, <1>5, <1>6 DEF TypeOK

\* A page for which nothing is under way has all there is.
LEMMA InvCatchUp == Inv => TimelyPagesCatchUp
<1> SUFFICES ASSUME Inv, NEW p \in Pages, Timely(p), ~News(p) PROVE Current(p)
  BY DEF TimelyPagesCatchUp
<1>0. PICK c : c = page[p].conn
  OBVIOUS
<1>1. /\ main = "idle" /\ channel = <<>> /\ c \notin worker.left /\ conn[c].inbox = <<>>
      /\ page[p].stage = "open" /\ ~page[p].late
      /\ conn[c].state = "open" /\ c \notin worker.failed /\ c \in Conns
  BY <1>0, PageTyped DEF News, Timely
<1>2. Len(channel) = 0 /\ Len(conn[c].inbox) = 0
  BY <1>1
<1>3. page[p].gen = active
  BY <1>0, <1>1, <1>2 DEF Inv, GenOK, GenRight, Coming, Attached, Arriving
<1>4. taken = Sent
  BY <1>2 DEF Sent, Inv, ChannelOK
<1>5. conn[c].heard = taken
  <2>1. conn[c].heard + Len(conn[c].inbox) = taken
    BY <1>1 DEF Inv, NothingSkipped, Due
  <2> QED
    BY <1>1, <1>2, <2>1, ConnsTyped
<1>6. page[p].asOf = Sent
  BY <1>0, <1>1, <1>4, <1>5, PageTyped, TakenBound DEF Inv, OverlayOK, NotAhead
<1>7. page[p].overlay = error
  BY <1>1, <1>6 DEF Inv, OverlayOK, OverlayRight
<1> QED
  BY <1>3, <1>7 DEF Current

\* There are never more clients than the limit, every open connection is
\* registered, once and by one page, unless the worker has cut it, and every
\* client has a reaper (upgrade_websocket, broadcast_now, reap_client).
THEOREM ClientsStaySound == Spec => []ClientsSound
BY InvAlways, InvSound, PTL

\* Every message that is taken after a client has registered reaches it, once and
\* in order, as long as its writes succeed (broadcast_now).
THEOREM NothingIsSkipped == Spec => []NothingSkipped
<1>1. Inv => NothingSkipped
  BY DEF Inv
<1> QED
  BY <1>1, InvAlways, PTL

\* Nor does a page that registered in time, and whose writes succeed, ever show
\* something old with nothing on its way to it.
THEOREM MessagesAlwaysArrive == Spec => []MessagesArrive
<1>1. Inv => MessagesArrive
  BY InvCatchUp DEF MessagesArrive, Inv
<1> QED
  BY <1>1, InvAlways, PTL

----------------------------------------------------------------------------
(* At rest *)

\* Nothing is left to do for the main loop, the worker, the reapers and the
\* scripts of the pages.
AtRest ==
  /\ main = "idle" /\ channel = <<>> /\ ~worker.busy
  /\ \A c \in Conns : conn[c].state # "gone"
  /\ \A p \in Pages :
       /\ page[p].stage \in {"closed", "loaded", "open"}
       /\ page[p].stage = "open" => conn[page[p].conn].inbox = <<>>
       /\ page[p].stage = "loaded" => Free = {} \/ Cardinality(clients) >= MaxClients

\* Then the pages that registered in time show what the server has, and a page
\* waits for a connection only if open pages have all there may be.
RestsInOrder ==
  AtRest =>
    \A p \in Pages :
      /\ Timely(p) => Current(p)
      /\ page[p].stage = "loaded" /\ Free # {} =>
           /\ Cardinality(clients) = MaxClients
           /\ \A c \in clients : \E q \in Pages : page[q].stage = "open" /\ page[q].conn = c

\* The safety half of EventuallyConnected: wherever builds, tabs and faults come
\* to rest (serve.rs:490-559, 602-621, 984-999), no client that went away keeps another out,
\* and no page that registered in time is left with something old.
THEOREM RestIsInOrder == Spec => []RestsInOrder
<1>1. Inv /\ ClientsSound /\ TimelyPagesCatchUp => RestsInOrder
  <2> SUFFICES ASSUME Inv, ClientsSound, TimelyPagesCatchUp, AtRest, NEW p \in Pages
               PROVE  /\ Timely(p) => Current(p)
                      /\ page[p].stage = "loaded" /\ Free # {} =>
                           /\ Cardinality(clients) = MaxClients
                           /\ \A c \in clients : \E q \in Pages :
                                page[q].stage = "open" /\ page[q].conn = c
    BY DEF RestsInOrder
  <2>1. ASSUME Timely(p) PROVE Current(p)
    <3>1. worker.left = {}
      BY DEF AtRest, Inv, WorkerOK
    <3>2. page[p].stage = "open"
      BY <2>1 DEF Timely
    <3>3. ~News(p)
      BY <3>1, <3>2 DEF AtRest, News
    <3> QED BY <2>1, <3>3 DEF TimelyPagesCatchUp
  <2>2. ASSUME page[p].stage = "loaded", Free # {}
        PROVE  Cardinality(clients) = MaxClients
    <3>1. Cardinality(clients) >= MaxClients /\ Cardinality(clients) <= MaxClients
      BY <2>2 DEF AtRest, ClientsSound, ClientsExact
    <3>2. Cardinality(clients) \in Nat
      <4>1. IsFiniteSet(clients)
        BY FS_Subset DEF Inv, ConnOK
      <4> QED BY <4>1, FS_CardinalityType
    <3> QED BY <3>1, <3>2
  <2>3. ASSUME NEW c \in clients
        PROVE  \E q \in Pages : page[q].stage = "open" /\ page[q].conn = c
    <3>1. c \in Conns
      BY DEF Inv, ConnOK
    <3>2. conn[c].state = "open"
      BY <3>1 DEF AtRest, ClientsSound, ClientsExact
    <3> QED BY <3>1, <3>2 DEF ClientsSound, ClientsExact
  <2> QED BY <2>1, <2>2, <2>3
<1> QED BY <1>1, InvAlways, InvSound, InvCatchUp, PTL
=============================================================================

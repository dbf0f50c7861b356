---------------------------- MODULE LiveReload ----------------------------
(***************************************************************************)
(* How open pages learn of builds (crates/polygl-cli/src/serve.rs): the    *)
(* main loop sends a message to the broadcast worker for every change, the *)
(* worker writes it to a snapshot of the registered WebSocket clients, and *)
(* the script that serve puts into every page (DEV_CLIENT) reloads the     *)
(* page or shows the diagnostic.  DevServer has the builds themselves.     *)
(***************************************************************************)
EXTENDS Naturals, Sequences, FiniteSets

CONSTANTS
  Pages,       \* tabs of a browser
  Conns,       \* WebSocket connections
  NoConn,
  Errors,      \* diagnostics
  NoError,
  MaxClients,  \* MAX_WEBSOCKET_CLIENTS
  MaxBuilds,   \* bound: builds
  MaxOpens,    \* bound: pages opened by hand
  MaxFaults    \* bound: connections that break or do not take a message

ASSUME NamesAssumption == NoConn \notin Conns /\ NoError \notin Errors
ASSUME BoundsAssumption ==
  /\ IsFiniteSet(Conns)
  /\ MaxClients \in Nat \ {0}
  /\ MaxBuilds \in Nat /\ MaxOpens \in Nat /\ MaxFaults \in Nat

VARIABLES
  main,     \* where the main loop is: idle, clear, tell
  active,   \* the number of the active generation, 0 for none
  error,    \* the current diagnostic
  builds,   \* builds so far
  channel,  \* messages for the worker
  taken,    \* how many messages the worker has taken
  worker,   \* the message being written, who is still to get it, who failed
  clients,  \* the registered clients
  conn,     \* the connections
  page,     \* the pages
  opens, faults

vars == <<main, active, error, builds, channel, taken, worker, clients, conn,
          page, opens, faults>>

\* Messages are numbered: n is not sent, but tells one reload from the next.
Reload(n) == [n |-> n, error |-> NoError]
ErrorMessage(n, e) == [n |-> n, error |-> e]
Messages == [n : 1..MaxBuilds, error : Errors \cup {NoError}]

\* A connection: "free" to be made; "open"; "gone" for the browser, while the
\* server has not noticed; "cut" from the list of clients, while neither side
\* closes it.  heard: the last message that the page has received from it or, as
\* yet, the last one taken when it registered.
Unused == [state |-> "free", heard |-> 0, inbox |-> <<>>]

\* A page: what it shows, where it is, its connection, and which message what it
\* shows is as of: the last that had been sent when its HTML was requested, or
\* the one it has received since.  late: when it connected the worker had
\* already taken one that was news to it.
Closed == [stage |-> "closed", gen |-> 0, overlay |-> NoError, conn |-> NoConn,
           asOf |-> 0, late |-> FALSE]

\* A server that has just started, with a good first build or a diagnostic.
Init ==
  /\ main = "idle"
  /\ \/ active = 1 /\ error = NoError
     \/ active = 0 /\ error \in Errors
  /\ builds = 0
  /\ channel = <<>> /\ taken = 0
  /\ worker = [busy |-> FALSE, message |-> Reload(0), left |-> {}, failed |-> {}]
  /\ clients = {}
  /\ conn = [c \in Conns |-> Unused]
  /\ page = [p \in Pages |-> Closed]
  /\ opens = 0 /\ faults = 0

Sent == taken + Len(channel)

Fault == faults < MaxFaults /\ faults' = faults + 1

----------------------------------------------------------------------------
(* The main loop *)

\* A good build is activated, under a lock of its own ...
Succeed ==
  /\ main = "idle" /\ builds < MaxBuilds
  /\ builds' = builds + 1
  /\ active' = active + 1
  /\ main' = "clear"
  /\ UNCHANGED <<error, channel, taken, worker, clients, conn, page, opens, faults>>

\* ... the diagnostic withdrawn ...
ClearError ==
  /\ main = "clear"
  /\ error' = NoError
  /\ main' = "tell"
  /\ UNCHANGED <<active, builds, channel, taken, worker, clients, conn, page,
                 opens, faults>>

\* A build fails: only a diagnostic that is new is told.
Fail(e) ==
  /\ main = "idle" /\ builds < MaxBuilds
  /\ builds' = builds + 1
  /\ error' = e
  /\ main' = IF error = e THEN "idle" ELSE "tell"
  /\ UNCHANGED <<active, channel, taken, worker, clients, conn, page, opens, faults>>

\* broadcast
Broadcast ==
  /\ main = "tell"
  /\ channel' = Append(channel, IF error = NoError THEN Reload(Sent + 1)
                                ELSE ErrorMessage(Sent + 1, error))
  /\ main' = "idle"
  /\ UNCHANGED <<active, error, builds, taken, worker, clients, conn, page,
                 opens, faults>>

----------------------------------------------------------------------------
(* The broadcast worker *)

\* broadcast_now: the clients are copied under their lock.
Take ==
  /\ ~worker.busy /\ channel # <<>>
  /\ worker' = [busy |-> TRUE, message |-> Head(channel), left |-> clients,
                failed |-> {}]
  /\ channel' = Tail(channel)
  /\ taken' = taken + 1
  /\ UNCHANGED <<main, active, error, builds, clients, conn, page, opens, faults>>

\* Mutant of Write: a client that fails ends the broadcast.
WriteGivingUp(c) ==
  /\ c \in worker.left
  /\ \/ /\ conn' = [conn EXCEPT ![c].inbox =
                      IF conn[c].state = "open" THEN Append(@, worker.message) ELSE @]
        /\ worker' = [worker EXCEPT !.left = @ \ {c}]
        /\ UNCHANGED faults
     \/ /\ IF conn[c].state = "open" THEN Fault ELSE UNCHANGED faults
        /\ worker' = [worker EXCEPT !.left = {}, !.failed = @ \cup {c}]
        /\ UNCHANGED conn
  /\ UNCHANGED <<main, active, error, builds, channel, taken, clients, page, opens>>

\* write_frame, without the lock: one client.  A client that is gone may take
\* the bytes; one that is there may let CLIENT_WRITE_TIMEOUT pass.
Write(c) ==
  /\ c \in worker.left
  /\ \/ /\ conn' = [conn EXCEPT ![c].inbox =
                      IF conn[c].state = "open" THEN Append(@, worker.message) ELSE @]
        /\ worker' = [worker EXCEPT !.left = @ \ {c}]
        /\ UNCHANGED faults
     \/ /\ IF conn[c].state = "open" THEN Fault ELSE UNCHANGED faults
        /\ worker' = [worker EXCEPT !.left = @ \ {c}, !.failed = @ \cup {c}]
        /\ UNCHANGED conn
  /\ UNCHANGED <<main, active, error, builds, channel, taken, clients, page, opens>>

\* The clients whose write has failed are removed.  Their reapers keep the
\* connections open.
Finish ==
  /\ worker.busy /\ worker.left = {}
  /\ worker' = [worker EXCEPT !.busy = FALSE, !.failed = {}]
  /\ clients' = clients \ worker.failed
  /\ conn' = [c \in Conns |->
                IF c \in worker.failed /\ conn[c].state = "open"
                  THEN [conn[c] EXCEPT !.state = "cut"] ELSE conn[c]]
  /\ UNCHANGED <<main, active, error, builds, channel, taken, page, opens, faults>>

----------------------------------------------------------------------------
(* Pages and connections *)

Hangs(c) == IF c = NoConn THEN conn ELSE [conn EXCEPT ![c].state = "gone"]

\* Somebody opens or closes a tab.
OpenPage(p) ==
  /\ page[p].stage = "closed" /\ opens < MaxOpens
  /\ opens' = opens + 1
  /\ page' = [page EXCEPT ![p].stage = "wanting"]
  /\ UNCHANGED <<main, active, error, builds, channel, taken, worker, clients,
                 conn, faults>>

ClosePage(p) ==
  /\ page[p].stage # "closed"
  /\ page' = [page EXCEPT ![p] = Closed]
  /\ conn' = Hangs(page[p].conn)
  /\ UNCHANGED <<main, active, error, builds, channel, taken, worker, clients,
                 opens, faults>>

\* serve_static reads the active generation ...
Request(p) ==
  /\ page[p].stage = "wanting"
  /\ page' = [page EXCEPT ![p].stage = "asking", ![p].gen = active, ![p].asOf = Sent]
  /\ UNCHANGED <<main, active, error, builds, channel, taken, worker, clients,
                 conn, opens, faults>>

\* ... then the diagnostic, and answers with the page that holds both.
Answer(p) ==
  /\ page[p].stage = "asking"
  /\ page' = [page EXCEPT ![p].stage = "loaded", ![p].overlay = error]
  /\ UNCHANGED <<main, active, error, builds, channel, taken, worker, clients,
                 conn, opens, faults>>

\* The connection made next, if one can be made; which it is makes no difference.
Free == {c \in Conns : conn[c].state = "free" /\ c \notin worker.left \cup worker.failed}
NextConn == CHOOSE c \in Free : TRUE

\* Mutant of Connect: the limit may be exceeded by one.
ConnectOneTooMany(p) ==
  /\ page[p].stage = "loaded"
  /\ Free # {}
  /\ Cardinality(clients) <= MaxClients
  /\ clients' = clients \cup {NextConn}
  /\ conn' = [conn EXCEPT ![NextConn] = [Unused EXCEPT !.state = "open", !.heard = taken]]
  /\ page' = [page EXCEPT ![p].stage = "open", ![p].conn = NextConn,
                            ![p].late = @ \/ page[p].asOf < taken]
  /\ UNCHANGED <<main, active, error, builds, channel, taken, worker, opens, faults>>

\* The script connects; upgrade_websocket checks the limit and registers the
\* client under one lock.  Where it refuses, the script tries again later.
Connect(p) ==
  /\ page[p].stage = "loaded"
  /\ Free # {}
  /\ Cardinality(clients) < MaxClients
  /\ clients' = clients \cup {NextConn}
  /\ conn' = [conn EXCEPT ![NextConn] = [Unused EXCEPT !.state = "open", !.heard = taken]]
  /\ page' = [page EXCEPT ![p].stage = "open", ![p].conn = NextConn,
                            ![p].late = @ \/ page[p].asOf < taken]
  /\ UNCHANGED <<main, active, error, builds, channel, taken, worker, opens, faults>>

\* A message arrives: the page reloads, which closes its connection, or shows
\* the diagnostic.
Receive(p) ==
  /\ page[p].stage = "open" /\ conn[page[p].conn].inbox # <<>>
  /\ LET c == page[p].conn
         message == Head(conn[c].inbox)
     IN IF message.error = NoError
          THEN /\ page' = [page EXCEPT ![p] = [Closed EXCEPT !.stage = "wanting"]]
               /\ conn' = Hangs(c)
          ELSE /\ page' = [page EXCEPT ![p].overlay = message.error,
                                    ![p].asOf = message.n]
               /\ conn' = [conn EXCEPT ![c].inbox = Tail(@), ![c].heard = message.n]
  /\ UNCHANGED <<main, active, error, builds, channel, taken, worker, clients,
                 opens, faults>>

\* A connection breaks; the script will connect again, without reloading.
Break(p) ==
  /\ page[p].stage = "open" /\ Fault
  /\ page' = [page EXCEPT ![p].stage = "loaded", ![p].conn = NoConn]
  /\ conn' = Hangs(page[p].conn)
  /\ UNCHANGED <<main, active, error, builds, channel, taken, worker, clients, opens>>

\* Mutant of Reap: the client stays on the list.
ReapForgetting(c) ==
  /\ conn[c].state = "gone"
  /\ conn' = [conn EXCEPT ![c] = Unused]
  /\ UNCHANGED <<main, active, error, builds, channel, taken, worker, clients, page,
                 opens, faults>>

\* reap_client notices the end of a connection, whatever the worker is doing.
Reap(c) ==
  /\ conn[c].state = "gone"
  /\ clients' = clients \ {c}
  /\ conn' = [conn EXCEPT ![c] = Unused]
  /\ UNCHANGED <<main, active, error, builds, channel, taken, worker, page, opens,
                 faults>>

----------------------------------------------------------------------------
Server == ClearError \/ Broadcast
Worker == Take \/ (\E c \in Conns : Write(c)) \/ Finish
Browser(p) == Request(p) \/ Answer(p) \/ Receive(p) \/ Connect(p)

\* All builds done, all pages closed.
Done ==
  /\ builds = MaxBuilds /\ opens = MaxOpens
  /\ \A p \in Pages : page[p].stage = "closed"
  /\ UNCHANGED vars

Next ==
  \/ Server \/ Succeed \/ \E e \in Errors : Fail(e)
  \/ Worker
  \/ \E p \in Pages : Browser(p) \/ OpenPage(p) \/ ClosePage(p) \/ Break(p)
  \/ \E c \in Conns : Reap(c)
  \/ Done

Spec == Init /\ [][Next]_vars

FairSpec ==
  /\ Spec
  /\ WF_vars(Server) /\ WF_vars(Worker)
  /\ \A p \in Pages : WF_vars(Browser(p))
  /\ \A c \in Conns : WF_vars(Reap(c))

----------------------------------------------------------------------------
(* Properties *)

\* Types; the messages on their way are numbered in turn.
TypeOK ==
  /\ main \in {"idle", "clear", "tell"}
  /\ active \in 0..(MaxBuilds + 1) /\ error \in Errors \cup {NoError}
  /\ builds \in 0..MaxBuilds /\ taken \in 0..MaxBuilds
  /\ channel \in Seq(Messages) /\ \A i \in 1..Len(channel) : channel[i].n = taken + i
  /\ worker \in [busy : BOOLEAN, message : Messages \cup {Reload(0)},
                 left : SUBSET Conns, failed : SUBSET Conns]
  /\ worker.left \cap worker.failed = {} /\ worker.message.n = taken
  /\ clients \subseteq Conns
  /\ conn \in [Conns -> [state : {"free", "open", "gone", "cut"},
                         heard : 0..MaxBuilds, inbox : Seq(Messages)]]
  /\ page \in [Pages ->
       [stage : {"closed", "wanting", "asking", "loaded", "open"},
        gen : 0..(MaxBuilds + 1), overlay : Errors \cup {NoError},
        conn : Conns \cup {NoConn}, asOf : 0..MaxBuilds, late : BOOLEAN]]
  /\ opens \in 0..MaxOpens /\ faults \in 0..MaxFaults

\* upgrade_websocket: there are never more clients than the limit; every
\* connection that is open is registered, once, by one page, except those that
\* were cut, and every registered client has a reaper that will remove it.
ClientsExact ==
  /\ Cardinality(clients) <= MaxClients
  /\ \A c \in Conns :
       /\ conn[c].state = "open" => c \in clients
       /\ c \in clients => conn[c].state \in {"open", "gone"}
       /\ conn[c].state \in {"open", "cut"} <=>
            \E p \in Pages : page[p].stage = "open" /\ page[p].conn = c
  /\ \A p, q \in Pages : page[p].conn = page[q].conn /\ page[p].conn # NoConn => p = q

\* The list of clients and the channel of messages are in order.
ClientsSound == TypeOK /\ ClientsExact

\* The number of the last message that the worker is done with as far as c is
\* concerned.
Due(c) == IF c \in worker.left THEN taken - 1 ELSE taken

\* broadcast_now: every message that is taken after a client has registered
\* reaches it once and in order, as long as its writes succeed.
NothingSkipped ==
  \A c \in Conns :
    conn[c].state = "open" /\ c \notin worker.failed =>
      LET inbox == conn[c].inbox
      IN /\ conn[c].heard + Len(inbox) = Due(c)
         /\ \A i \in 1..Len(inbox) : inbox[i].n = conn[c].heard + i

\* p shows what the server has.
Current(p) == page[p].gen = active /\ page[p].overlay = error

\* p is registered, and never connected too late for a message.
Timely(p) ==
  LET c == page[p].conn
  IN /\ page[p].stage = "open"
     /\ conn[c].state = "open" /\ c \notin worker.failed
     /\ ~page[p].late

\* Something is on its way to p.
News(p) ==
  \/ main # "idle" \/ channel # <<>>
  \/ page[p].conn \in worker.left
  \/ conn[page[p].conn].inbox # <<>>

\* docs/cli.md:122-126: "Successful rebuilds [...] reload connected pages.
\* Failed rebuilds [...] display [...] diagnostics in a browser overlay."  A
\* page that registered in time shows what the server has or will be told.
TimelyPagesCatchUp == \A p \in Pages : Timely(p) => Current(p) \/ News(p)

\* A message reaches every client it is for, and what has reached them is all
\* they need.
MessagesArrive == NothingSkipped /\ TimelyPagesCatchUp

\* When builds, tabs and faults have come to rest, every page that is not
\* closed is connected, if the limit allows, and those that registered in time
\* are current: clients that went away do not keep others out.
EventuallyConnected ==
  <>[](\A p \in Pages :
         \/ page[p].stage = "closed"
         \/ page[p].stage = "open" /\ (Timely(p) => Current(p))
         \/ /\ page[p].stage = "loaded"
            /\ Cardinality({q \in Pages : page[q].stage = "open"}) = MaxClients)
============================================================================

---------------------------- MODULE EtherealFeed ----------------------------
(***************************************************************************)
(* The market data client of the Ethereal venue                            *)
(* (vibe_quant/ethereal/data_client.py): one caller that connects,         *)
(* subscribes and disconnects, one await after the other, while the events *)
(* of its Socket.IO sockets and its reconnect loop run in tasks of their   *)
(* own.  A step ends where the code awaits; between two steps of a task    *)
(* any other may run.                                                      *)
(*                                                                         *)
(* The library is external: a socket of it opens or fails and is lost at   *)
(* any time.  Once the server has accepted it, the "connect" handler runs, *)
(* and connect() returns when the handler has ended, or after its          *)
(* wait_timeout when the handler has raised.  Only then does the library   *)
(* count the socket as connected: a loss before is reported by no event,   *)
(* and does not make that connect() fail.                                  *)
(***************************************************************************)
EXTENDS Integers, FiniteSets

CONSTANTS
  Topics,        \* the channels of the symbols: <<symbol, channel>>
  MaxAttempts,   \* max_reconnect_attempts
  MaxSockets,    \* bound: sockets opened
  MaxLoops       \* bound: reconnect tasks created

Symbols == {t[1] : t \in Topics}
Sockets == 1..MaxSockets
Loops   == 1..MaxLoops

VARIABLES
  connected,     \* _connected
  shutdown,      \* _shutdown_event
  subs,          \* _subscriptions, as the topics of its symbols
  count,         \* _reconnect_count
  sio,           \* _sio: the socket opened last, 0 for none
  task,          \* _reconnect_task: the loop created last, 0 for none
  sock,          \* socket -> [st, server, resub, size, left, event, awaits]
  loop,          \* reconnect task -> [pc, sock, cancelled]
  caller,        \* [pc, topics, awaits]
  orphaned       \* history: a handler began a loop beside one that it did not cancel

fvars == <<connected, shutdown, subs, count, sio, task, sock, loop, caller, orphaned>>

SymbolsOf(T) == {t[1] : t \in T}
Of(s)        == {t \in subs : t[1] = s}

(* st: new, opening, up (the server accepted it), ready (the handler of    *)
(* "connect" has ended or raised), open (connect() returned as well), lost *)
(* (gone before that), down.  event: none, pending, awaits.  left: the     *)
(* handler raised, and left the rest of the table out.                     *)
NewSocket == [st |-> "new", server |-> {}, resub |-> {}, size |-> 0, left |-> FALSE,
              event |-> "none", awaits |-> 0]
Alive(k) == k # 0 /\ sock[k].st \in {"up", "ready", "open"}
Running(l) == l # 0 /\ loop[l].pc \notin {"new", "done"}

FeedInit ==
  /\ connected = FALSE /\ shutdown = FALSE /\ subs = {} /\ count = 0 /\ sio = 0 /\ task = 0
  /\ sock = [k \in Sockets |-> NewSocket]
  /\ loop = [l \in Loops |-> [pc |-> "new", sock |-> 0, cancelled |-> FALSE]]
  /\ caller = [pc |-> "start", topics |-> {}, awaits |-> 0]
  /\ orphaned = FALSE

---------------------------------------------------------------------------
(* Sockets.  connect() makes a new one, which _sio names at once; the one  *)
(* it replaces is not closed.                                              *)
CanOpen == \E k \in Sockets : sock[k].st = "new"
Fresh   == CHOOSE k \in Sockets : sock[k].st = "new"
Open ==
  /\ CanOpen
  /\ sio' = Fresh
  /\ sock' = [sock EXCEPT ![Fresh].st = "opening"]

(* Mutant: the "connect" handler sends nothing again. *)
Accept_Empty(k) ==
  /\ sock[k].st = "opening"
  /\ sock' = [sock EXCEPT ![k].st = "up", ![k].resub = {},
                          ![k].size = Cardinality(SymbolsOf(subs))]
  /\ UNCHANGED <<connected, shutdown, subs, count, sio, task, loop, caller, orphaned>>

(* The server accepts: on_connect starts to resubscribe the table. *)
Accept(k) ==
  /\ sock[k].st = "opening"
  /\ sock' = [sock EXCEPT ![k].st = "up", ![k].resub = SymbolsOf(subs),
                          ![k].size = Cardinality(SymbolsOf(subs))]
  /\ UNCHANGED <<connected, shutdown, subs, count, sio, task, loop, caller, orphaned>>

(* The next symbol of the table, on the socket that _sio names by now.  A  *)
(* table that has changed its size since raises RuntimeError: the symbols  *)
(* that are left are not sent, and connect() returns all the same.         *)
Resubscribe(k) ==
  /\ sock[k].st = "up"
  /\ \/ /\ Cardinality(SymbolsOf(subs)) # sock[k].size
        /\ sock' = [sock EXCEPT ![k].st = "ready", ![k].resub = {}, ![k].left = TRUE]
     \/ /\ Cardinality(SymbolsOf(subs)) = sock[k].size
        /\ \E s \in sock[k].resub :
             sock' = [j \in Sockets |->
               [sock[j] EXCEPT !.server = IF j = sio /\ Alive(j) THEN @ \cup Of(s) ELSE @,
                               !.resub  = IF j = k THEN @ \ {s} ELSE @]]
     \/ /\ Cardinality(SymbolsOf(subs)) = sock[k].size
        /\ sock[k].resub = {}
        /\ sock' = [sock EXCEPT ![k].st = "ready"]
  /\ UNCHANGED <<connected, shutdown, subs, count, sio, task, loop, caller, orphaned>>

(* A connection that cannot be made, or one that is lost. *)
Lose(k) ==
  /\ Alive(k) \/ sock[k].st = "opening"
  /\ sock' = [sock EXCEPT ![k].st = IF @ \in {"up", "ready"} THEN "lost" ELSE "down",
                          ![k].event = IF sock[k].st = "open" THEN "pending" ELSE @,
                          ![k].server = {}, ![k].resub = {}]
  /\ UNCHANGED <<connected, shutdown, subs, count, sio, task, loop, caller, orphaned>>

(* How connect() ends: a socket that was accepted counts as connected,     *)
(* even if it has been lost since.                                         *)
Returns(k) == sock[k].st \in {"ready", "lost"}
Raises(k)  == sock[k].st = "down"
Returned(k) == [sock EXCEPT ![k].st = IF @ = "ready" THEN "open" ELSE @]

(* A topic is sent: an open socket takes it, one that was never accepted   *)
(* or is known to be gone raises, any other drops it without a word.       *)
Refuses(k) == sock[k].st = "opening" \/ (sock[k].st = "down" /\ sock[k].event = "none")

---------------------------------------------------------------------------
(* on_disconnect: ends the loop there is, waits for its end, starts another. *)
(* Of two handlers that wait for the same loop the second starts a loop too, *)
(* and that of the first is no longer the one _reconnect_task names.         *)
Create(l) ==
  /\ loop[l].pc = "new" /\ \A j \in Loops : j < l => loop[j].pc # "new"
  /\ task' = l
Restart(k, l) ==
  /\ Create(l)
  /\ loop' = [loop EXCEPT ![l].pc = "top"]
  /\ sock' = [sock EXCEPT ![k].event = "none", ![k].awaits = 0]
  /\ orphaned' = (orphaned \/ (~shutdown /\ Running(task)))

OnDisconnect(k) ==
  /\ sock[k].event = "pending"
  /\ connected' = FALSE
  /\ \/ /\ shutdown
        /\ sock' = [sock EXCEPT ![k].event = "none"]
        /\ UNCHANGED <<task, loop, orphaned>>
     \/ /\ ~shutdown /\ Running(task)
        /\ loop' = [loop EXCEPT ![task].cancelled = TRUE]
        /\ sock' = [sock EXCEPT ![k].event = "awaits", ![k].awaits = task]
        /\ UNCHANGED <<task, orphaned>>
     \/ /\ ~shutdown /\ ~Running(task)
        /\ \E l \in Loops : Restart(k, l)
  /\ UNCHANGED <<shutdown, subs, count, sio, caller>>

OnDisconnectResumes(k) ==
  /\ sock[k].event = "awaits" /\ ~Running(sock[k].awaits)
  /\ \E l \in Loops : Restart(k, l)
  /\ UNCHANGED <<connected, shutdown, subs, count, sio, caller>>

---------------------------------------------------------------------------
(* _reconnect_loop *)
GaveUp == count >= MaxAttempts

LoopTop(l) ==
  /\ loop[l].pc = "top" /\ ~loop[l].cancelled
  /\ \/ /\ shutdown \/ GaveUp
        /\ loop' = [loop EXCEPT ![l].pc = "done"]
        /\ UNCHANGED count
     \/ /\ ~shutdown /\ ~GaveUp
        /\ count' = count + 1
        /\ loop' = [loop EXCEPT ![l].pc = "sleep"]
  /\ UNCHANGED <<connected, shutdown, subs, sio, task, sock, caller, orphaned>>

LoopWakes(l) ==
  /\ loop[l].pc = "sleep" /\ ~loop[l].cancelled
  /\ \/ /\ shutdown \/ connected
        /\ loop' = [loop EXCEPT ![l].pc = "done"]
        /\ UNCHANGED <<sio, sock>>
     \/ /\ ~shutdown /\ ~connected
        /\ Open
        /\ loop' = [loop EXCEPT ![l].pc = "connecting", ![l].sock = Fresh]
  /\ UNCHANGED <<connected, shutdown, subs, count, task, caller, orphaned>>

LoopConnects_GivesUp(l) ==
  /\ loop[l].pc = "connecting" /\ ~loop[l].cancelled
  /\ \/ /\ Returns(loop[l].sock)
        /\ connected' = TRUE /\ count' = 0
        /\ sock' = Returned(loop[l].sock)
     \/ /\ Raises(loop[l].sock)
        /\ UNCHANGED <<connected, count, sock>>
  /\ loop' = [loop EXCEPT ![l].pc = "done", ![l].sock = 0]
  /\ UNCHANGED <<shutdown, subs, sio, task, caller, orphaned>>

LoopConnects(l) ==
  /\ loop[l].pc = "connecting" /\ ~loop[l].cancelled
  /\ \/ /\ Returns(loop[l].sock)
        /\ connected' = TRUE /\ count' = 0
        /\ sock' = Returned(loop[l].sock)
        /\ loop' = [loop EXCEPT ![l].pc = "done", ![l].sock = 0]
     \/ /\ Raises(loop[l].sock)
        /\ loop' = [loop EXCEPT ![l].pc = "top", ![l].sock = 0]
        /\ UNCHANGED <<connected, count, sock>>
  /\ UNCHANGED <<shutdown, subs, sio, task, caller, orphaned>>

(* The socket of a connect() that is cancelled is left to itself: the      *)
(* library never counts it as connected.                                   *)
LoopCancelled(l) ==
  /\ Running(l) /\ loop[l].cancelled
  /\ loop' = [loop EXCEPT ![l].pc = "done", ![l].sock = 0]
  /\ UNCHANGED <<connected, shutdown, subs, count, sio, task, sock, caller, orphaned>>

---------------------------------------------------------------------------
(* The caller.  It connects before it does anything else and again only    *)
(* after disconnect(): a connect() beside a running loop opens two sockets.*)
Connect ==
  /\ caller.pc \in {"start", "closed"}
  /\ \/ /\ connected
        /\ caller' = [pc |-> "idle", topics |-> {}, awaits |-> 0]
        /\ UNCHANGED <<sio, sock>>
     \/ /\ ~connected
        /\ Open
        /\ caller' = [pc |-> "connecting", topics |-> {}, awaits |-> Fresh]
  /\ UNCHANGED <<connected, shutdown, subs, count, task, loop, orphaned>>

ConnectEnds ==
  /\ caller.pc = "connecting"
  /\ \/ /\ Returns(caller.awaits)
        /\ connected' = TRUE /\ count' = 0
        /\ sock' = Returned(caller.awaits)
        /\ caller' = [pc |-> "idle", topics |-> {}, awaits |-> 0]
     \/ /\ Raises(caller.awaits)
        /\ caller' = [pc |-> "start", topics |-> {}, awaits |-> 0]
        /\ UNCHANGED <<connected, count, sock>>
  /\ UNCHANGED <<shutdown, subs, sio, task, loop, orphaned>>

(* subscribe: the table first, then the topics asked for to the server. *)
Subscribe ==
  /\ caller.pc = "idle" /\ connected
  /\ \E s \in Symbols : \E T \in SUBSET {t \in Topics : t[1] = s} \ {{}} :
       /\ subs' = subs \cup T
       /\ caller' = [pc |-> "subscribing", topics |-> T, awaits |-> 0]
  /\ UNCHANGED <<connected, shutdown, count, sio, task, sock, loop, orphaned>>

(* unsubscribe: the table first, and a server that is not reached keeps its own. *)
Unsubscribe ==
  /\ caller.pc = "idle"
  /\ \E s \in SymbolsOf(subs) :
       /\ subs' = subs \ Of(s)
       /\ caller' = IF connected THEN [pc |-> "unsubscribing", topics |-> Of(s), awaits |-> 0]
                    ELSE caller
  /\ UNCHANGED <<connected, shutdown, count, sio, task, sock, loop, orphaned>>

(* The topics one by one, on the socket _sio names when each is sent; one  *)
(* that raises ends subscribe and is logged by unsubscribe.                *)
Emit ==
  /\ caller.pc \in {"subscribing", "unsubscribing"}
  /\ \E t \in caller.topics :
       /\ sock' = IF ~Alive(sio) THEN sock
                  ELSE [sock EXCEPT ![sio].server =
                          IF caller.pc = "subscribing" THEN @ \cup {t} ELSE @ \ {t}]
       /\ LET rest == IF caller.pc = "subscribing" /\ Refuses(sio) THEN {} ELSE caller.topics \ {t}
          IN  caller' = IF rest = {} THEN [pc |-> "idle", topics |-> {}, awaits |-> 0]
                        ELSE [caller EXCEPT !.topics = rest]
  /\ UNCHANGED <<connected, shutdown, subs, count, sio, task, loop, orphaned>>

Disconnect_NoCancel ==
  /\ caller.pc = "idle"
  /\ shutdown' = TRUE
  /\ caller' = [pc |-> "closing", topics |-> {}, awaits |-> 0]
  /\ UNCHANGED <<connected, subs, count, sio, task, sock, loop, orphaned>>

(* disconnect: ends the loop, waits for it, closes the socket, clears the table. *)
Disconnect ==
  /\ caller.pc = "idle"
  /\ shutdown' = TRUE
  /\ caller' = [pc |-> "closing", topics |-> {}, awaits |-> task]
  /\ loop' = IF Running(task) THEN [loop EXCEPT ![task].cancelled = TRUE] ELSE loop
  /\ UNCHANGED <<connected, subs, count, sio, task, sock, orphaned>>

DisconnectCloses ==
  /\ caller.pc = "closing" /\ ~Running(caller.awaits)
  /\ task' = 0
  /\ sock' = IF connected /\ Alive(sio)
             THEN [sock EXCEPT ![sio].st = IF @ = "open" THEN "down" ELSE "lost",
                               ![sio].event = IF sock[sio].st = "open" THEN "pending" ELSE @,
                               ![sio].server = {}, ![sio].resub = {}]
             ELSE sock
  /\ caller' = [pc |-> "closing2", topics |-> {}, awaits |-> 0]
  /\ UNCHANGED <<connected, shutdown, subs, count, sio, loop, orphaned>>

DisconnectEnds ==
  /\ caller.pc = "closing2"
  /\ connected' = FALSE /\ subs' = {}
  /\ caller' = [pc |-> "closed", topics |-> {}, awaits |-> 0]
  /\ UNCHANGED <<shutdown, count, sio, task, sock, loop, orphaned>>

---------------------------------------------------------------------------
SocketEvent(k)  == OnDisconnect(k) \/ OnDisconnectResumes(k) \/ Resubscribe(k)
LoopStep(l)     == LoopTop(l) \/ LoopWakes(l) \/ LoopConnects(l) \/ LoopCancelled(l)
CallerResumes   == ConnectEnds \/ Emit \/ DisconnectCloses \/ DisconnectEnds
CallerBegins    == Connect \/ Subscribe \/ Unsubscribe \/ Disconnect

FeedNext ==
  \/ \E k \in Sockets : Accept(k) \/ Lose(k) \/ SocketEvent(k)
  \/ \E l \in Loops : LoopStep(l)
  \/ CallerResumes \/ CallerBegins

FeedSpec == FeedInit /\ [][FeedNext]_fvars

(* The event loop resumes every task that is ready; the library ends an    *)
(* attempt to connect one way or the other (wait_timeout).                 *)
FeedFairness ==
  /\ \A k \in Sockets : WF_fvars(SocketEvent(k)) /\ WF_fvars(sock[k].st = "opening" /\ (Accept(k) \/ Lose(k)))
  /\ \A l \in Loops : WF_fvars(LoopStep(l))
  /\ WF_fvars(CallerResumes)

---------------------------------------------------------------------------
(* _handle_market_price and its like: a message reaches a callback when   *)
(* its symbol is in the table.                                            *)
Delivered(t) == t \in subs /\ \E k \in Sockets : Alive(k) /\ t \in sock[k].server

(* Once no call and no handler is under way, whatever was lost meanwhile:  *)
(* a client that says it is connected, by a socket that is alive, receives *)
(* every topic of its table (_resubscribe_all before connect() returns).   *)
(* Excepted is a socket whose handler raised because the table changed its *)
(* size meanwhile: connect() returns, and what was left stays left.        *)
FeedRestored ==
  connected /\ Alive(sio) /\ sock[sio].st # "up" /\ ~sock[sio].left /\ caller.pc = "idle"
    => \A t \in subs : Delivered(t)

(* When disconnect() has returned, no connect() that a loop had under way  *)
(* makes the client connected again: the only loop there can be is the one *)
(* it has ended.  (A loop that was orphaned it does not know.)             *)
StaysClosed == caller.pc = "closed" => subs = {} /\ (connected => orphaned)

(* A loss that the library reports is answered: once its handler is done,  *)
(* the client is connected again, or no loop is left because the attempts  *)
(* are used up, or it was told to shut down.  At the bounds of the model   *)
(* the question is left open.                                              *)
Answered == connected \/ shutdown \/ (GaveUp /\ \A l \in Loops : ~Running(l))
LossAnswered ==
  \A k \in Sockets : sock[k].event = "pending" ~>
    sock[k].event = "none" /\ (Answered \/ ~CanOpen \/ loop[MaxLoops].pc # "new")

=============================================================================

------------------------------ MODULE Channels ------------------------------
(***************************************************************************)
(* The live channels of the API (vibe_quant/api/ws/manager.py): sets of    *)
(* connections by channel name, changed by the endpoints, by broadcasts    *)
(* and by the heartbeat, all coroutines of one event loop.  A coroutine    *)
(* runs until it awaits a send; then any other may run.                    *)
(*                                                                         *)
(* Sets are objects: a channel deleted and created again has another set,  *)
(* while a coroutine may go on over the old one.  A Python set that has    *)
(* another size than when its iteration began makes the next step of the   *)
(* iteration raise.                                                        *)
(***************************************************************************)
EXTENDS Integers, FiniteSets, Sequences, SequencesExt

CONSTANTS
  Clients,        \* connections, each of one channel
  ChannelOf,
  Broadcasters,   \* requests that broadcast to a channel, one each
  ToChannel,
  NoClient, NoSet,
  MaxBeats        \* bound: rounds of the heartbeat

Names == {ChannelOf[c] : c \in Clients}
Heart == "heart"

ASSUME ChannelsConfig ==
  /\ NoSet \notin Clients /\ MaxBeats \in Nat
  /\ NoClient \notin Clients \cup Broadcasters \cup {Heart} /\ Heart \notin Broadcasters
  /\ \A b \in Broadcasters : ToChannel[b] \in Names

VARIABLES
  members,   \* the set objects; the object of a channel is named by the client that had it created
  channel,   \* _channels: the object registered under a name, or NoSet
  peer,      \* connections: "new", "open", "broken" (sends fail), "closed" (the endpoint has ended)
  coro,      \* the broadcasts and the heartbeat
  holder,    \* the coroutine that runs, or NoClient
  beats,
  late       \* history: the heartbeat came to a channel that was no longer as it had found it

cvars == <<members, channel, peer, coro, holder, beats, late>>

\* todo: channels with their objects; began: the set when its iteration began;
\* to: the connection a send is awaited for.
Idle == [at |-> "idle", todo |-> << >>, began |-> {}, visited |-> {}, dead |-> {}, to |-> NoClient]

ChannelsInit ==
  /\ members = [c \in Clients |-> {}] /\ channel = [n \in Names |-> NoSet]
  /\ peer = [c \in Clients |-> "new"]
  /\ coro = [t \in Broadcasters \cup {Heart} |-> Idle]
  /\ holder = NoClient /\ beats = 0 /\ late = FALSE

-----------------------------------------------------------------------------
(* The endpoints (api/ws/jobs.py and its like) *)

Join(c) ==
  LET n == ChannelOf[c]
      o == IF channel[n] = NoSet THEN c ELSE channel[n]
  IN  /\ holder = NoClient /\ peer[c] = "new"
      /\ peer' = [peer EXCEPT ![c] = "open"]
      /\ channel' = [channel EXCEPT ![n] = o]
      /\ members' = [members EXCEPT ![o] = @ \cup {c}]
      /\ UNCHANGED <<coro, holder, beats, late>>

\* The other end is gone; nobody has noticed.
Break(c) ==
  /\ holder = NoClient /\ peer[c] = "open"
  /\ peer' = [peer EXCEPT ![c] = "broken"]
  /\ UNCHANGED <<members, channel, coro, holder, beats, late>>

\* receive_json or send_personal raises: disconnect.
Leave(c) ==
  LET n == ChannelOf[c]  o == channel[n]
  IN  /\ holder = NoClient /\ peer[c] \in {"open", "broken"}
      /\ peer' = [peer EXCEPT ![c] = "closed"]
      /\ IF o = NoSet THEN UNCHANGED <<members, channel>>
         ELSE /\ members' = [members EXCEPT ![o] = @ \ {c}]
              /\ channel' = IF members[o] \subseteq {c} THEN [channel EXCEPT ![n] = NoSet] ELSE channel
      /\ UNCHANGED <<coro, holder, beats, late>>

-----------------------------------------------------------------------------
(* broadcast and _heartbeat_loop *)

Object(t) == Head(coro[t].todo).object
Name(t)   == Head(coro[t].todo).name

Begin(todo) == [Idle EXCEPT !.at = "enter", !.todo = todo]

Broadcast(b) ==
  LET n == ToChannel[b]
  IN  /\ holder = NoClient /\ coro[b].at = "idle"
      /\ channel[n] # NoSet
      /\ coro' = [coro EXCEPT ![b] = Begin(<<[name |-> n, object |-> channel[n]]>>)]
      /\ holder' = b
      /\ UNCHANGED <<members, channel, peer, beats, late>>

\* list(self._channels.items())
Beat ==
  /\ holder = NoClient /\ coro[Heart].at = "idle" /\ beats < MaxBeats
  /\ beats' = beats + 1
  /\ \E todo \in SetToSeqs({[name |-> n, object |-> channel[n]] : n \in {m \in Names : channel[m] # NoSet}}) :
       coro' = [coro EXCEPT ![Heart] = Begin(todo)]
  /\ holder' = Heart
  /\ UNCHANGED <<members, channel, peer, late>>

\* The next channel, or the end.
Enter(t) ==
  /\ holder = t /\ coro[t].at = "enter"
  /\ IF coro[t].todo = << >>
     THEN coro' = [coro EXCEPT ![t] = [Idle EXCEPT !.at = IF t = Heart THEN "idle" ELSE "done"]] /\ holder' = NoClient
     ELSE /\ coro' = [coro EXCEPT ![t] = [@ EXCEPT !.at = "next", !.began = members[Object(t)],
                                                   !.visited = {}, !.dead = {}]]
          /\ UNCHANGED holder
  /\ UNCHANGED <<members, channel, peer, beats, late>>

\* An exception leaves the coroutine: the request ends, the heartbeat for good.
Raise(t) == coro' = [coro EXCEPT ![t] = [Idle EXCEPT !.at = "done"]] /\ holder' = NoClient

\* Mutant: `for ws in list(conns)`.
Resized_Copy(t) == FALSE

Resized(t) == Cardinality(members[Object(t)]) # Cardinality(coro[t].began)

NextRaises(t) ==
  /\ holder = t /\ coro[t].at = "next" /\ Resized(t)
  /\ Raise(t)
  /\ UNCHANGED <<members, channel, peer, beats, late>>

NextSends(t) ==
  /\ holder = t /\ coro[t].at = "next" /\ ~ Resized(t)
  /\ \E c \in members[Object(t)] \ coro[t].visited :
       coro' = [coro EXCEPT ![t] = [@ EXCEPT !.at = "await", !.to = c, !.visited = coro[t].visited \cup {c}]]
  /\ holder' = NoClient
  /\ UNCHANGED <<members, channel, peer, beats, late>>

\* All have been sent to; when connections have come and gone meanwhile, some may
\* have been passed over.
NextEnds(t) ==
  /\ holder = t /\ coro[t].at = "next" /\ ~ Resized(t)
  /\ members[Object(t)] \subseteq coro[t].visited \/ members[Object(t)] # coro[t].began
  /\ coro' = [coro EXCEPT ![t].at = "tidy"]
  /\ UNCHANGED <<members, channel, peer, holder, beats, late>>

\* The awaited send returns or raises.
Sent(t) ==
  /\ holder = NoClient /\ coro[t].at = "await"
  /\ \E fails \in {FALSE, peer[coro[t].to] # "open"} :
       coro' = [coro EXCEPT ![t] = [@ EXCEPT !.at = "next", !.to = NoClient,
                                             !.dead = IF fails THEN coro[t].dead \cup {coro[t].to} ELSE coro[t].dead]]
  /\ holder' = t
  /\ UNCHANGED <<members, channel, peer, beats, late>>

\* The dead are removed, and an empty set's channel by name: a KeyError if the
\* name is gone.
Tidy(t) ==
  LET o == Object(t)  n == Name(t)
      rest == members[o] \ coro[t].dead
  IN  /\ holder = t /\ coro[t].at = "tidy"
      /\ members' = [members EXCEPT ![o] = rest]
      /\ IF rest = {} /\ channel[n] = NoSet
         THEN Raise(t) /\ UNCHANGED channel
         ELSE /\ channel' = IF rest = {} THEN [channel EXCEPT ![n] = NoSet] ELSE channel
              /\ coro' = [coro EXCEPT ![t] = [@ EXCEPT !.at = "enter", !.todo = Tail(coro[t].todo)]]
              /\ UNCHANGED holder
      /\ late' = (late \/ (t = Heart /\ rest = {} /\ channel[n] # o))
      /\ UNCHANGED <<peer, beats>>

ChannelsNext ==
  \/ \E c \in Clients : Join(c) \/ Break(c) \/ Leave(c)
  \/ \E b \in Broadcasters : Broadcast(b)
  \/ Beat
  \/ \E t \in Broadcasters \cup {Heart} :
       Enter(t) \/ NextRaises(t) \/ NextSends(t) \/ NextEnds(t) \/ Sent(t) \/ Tidy(t)

ChannelsSpec == ChannelsInit /\ [][ChannelsNext]_cvars

-----------------------------------------------------------------------------
(* Properties *)

\* Whoever is connected is in the set of its channel, however broadcasts, arrivals
\* and departures interleave: a coroutine deletes a channel only while the set it
\* went over is still the channel's, since an iteration over a set that was emptied
\* raises before it gets there.  (The heartbeat alone may come too late: it has
\* listed all channels before its first await.)  And no channel keeps a connection
\* whose endpoint has ended (manager.py:55, manager.py:84).
NobodyLost ==
  \A c \in Clients :
    LET o == channel[ChannelOf[c]]
    IN  /\ peer[c] = "open" /\ ~ late => o # NoSet /\ c \in members[o]
        /\ o # NoSet /\ c \in members[o] => peer[c] \in {"open", "broken"}

=============================================================================

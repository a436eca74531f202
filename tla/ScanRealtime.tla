---------------------------- MODULE ScanRealtime ----------------------------
(* The live progress of one scan, from the workers that publish it to the   *)
(* browsers that watch it: progress-publisher.ts (worker), Redis (a list, a *)
(* channel), redis-scan-event-bus.ts and scan-realtime.gateway.ts (API),    *)
(* use-live-scan-progress.ts (browser). Redis is where they meet: commands  *)
(* of one connection are executed in order, two connections interleave.     *)
EXTENDS Naturals, Sequences, FiniteSets, SequencesExt

CONSTANTS Publishers,   \* calls of ProgressPublisher.publish that may overlap
          Conns, Users, \* WebSocket connections, and the pages that open them
          Owner,        \* [Conns -> Users]
          MaxEvents,    \* events of the scan
          MaxCrashes,   \* publications that die half way
          MaxUpsets,    \* failed reads, resubscriptions and unsubscriptions
          ReplayMax     \* REALTIME_REPLAY_MAX_EVENTS

ASSUME RealtimeAssumption ==
  /\ IsFiniteSet(Conns) /\ Owner \in [Conns -> Users]
  /\ {MaxEvents, MaxCrashes, MaxUpsets} \subseteq Nat
  /\ ReplayMax \in Nat \ {0}

VARIABLES
  counter, pubs, timeline,  \* Redis: the sequence, calls under way, the list
  channel, requests, inbox, \* the gateway's subscriber connection to Redis
  refCount, clients, scanClients, sub, task,        \* the gateway
  socket, seen, last,       \* connections and pages; last is lastSequenceRef
  crashes, upsets, disturbed

vars == <<counter, pubs, timeline, channel, requests, inbox, refCount, clients,
          scanClients, sub, task, socket, seen, last, crashes, upsets, disturbed>>
gateway == <<refCount, clients, scanClients, sub, task>>
browser == <<socket, seen, last>>
redis   == <<counter, pubs, timeline>>
link    == <<channel, requests, inbox>>

Idle  == [at |-> "idle"]
NoSub == [last |-> 0, buffering |-> FALSE, buffer |-> {}, live |-> FALSE]
LastOf(s) == IF s = <<>> THEN 0 ELSE s[Len(s)]
Ascending(S) ==
  CHOOSE s \in [1 .. Cardinality(S) -> S] : \A i, j \in DOMAIN s : i < j => s[i] < s[j]

Init ==
  /\ counter = 0 /\ pubs = [p \in Publishers |-> Idle] /\ timeline = <<>>
  /\ channel = FALSE /\ requests = <<>> /\ inbox = <<>>
  /\ refCount = 0 /\ clients = {} /\ scanClients = {}
  /\ sub = [c \in Conns |-> NoSub] /\ task = [c \in Conns |-> Idle]
  /\ socket = [c \in Conns |-> "unused"]
  /\ seen = [u \in Users |-> <<>>] /\ last = [u \in Users |-> 0]
  /\ crashes = 0 /\ upsets = 0 /\ disturbed = FALSE

-----------------------------------------------------------------------------
(* ProgressPublisher.publish: the number, then the list and the channel.    *)

(* disturbed: two publications overlapped, one died half way, or two        *)
(* connections asked Redis for the unwatched channel at the same time.      *)
TakeNumber(p) ==
  /\ pubs[p] = Idle /\ counter < MaxEvents
  /\ counter' = counter + 1
  /\ pubs' = [pubs EXCEPT ![p] = [at |-> "numbered", seq |-> counter + 1]]
  /\ disturbed' = (disturbed \/ \E q \in Publishers : pubs[q] # Idle)
  /\ UNCHANGED <<timeline, link, gateway, browser, crashes, upsets>>

AppendTimeline(p) ==
  /\ pubs[p].at = "numbered"
  /\ timeline' = Append(timeline, pubs[p].seq)
  /\ pubs' = [pubs EXCEPT ![p].at = "appended"]
  /\ UNCHANGED <<counter, link, gateway, browser, crashes, upsets, disturbed>>

Publish(p) ==
  /\ pubs[p].at = "appended"
  /\ inbox' = IF channel THEN Append(inbox, [kind |-> "event", seq |-> pubs[p].seq]) ELSE inbox
  /\ pubs' = [pubs EXCEPT ![p] = Idle]
  /\ UNCHANGED <<counter, timeline, channel, requests, gateway, browser, crashes, upsets, disturbed>>

PublisherDies(p) ==
  /\ pubs[p] # Idle /\ crashes < MaxCrashes
  /\ pubs' = [pubs EXCEPT ![p] = Idle]
  /\ crashes' = crashes + 1 /\ disturbed' = TRUE
  /\ UNCHANGED <<counter, timeline, link, gateway, browser, upsets>>

-----------------------------------------------------------------------------
(* Sending (send, sendScanEvent). A socket is open, broken (the page is     *)
(* gone and the gateway does not know: what it sends is lost) or closed. A  *)
(* socket that is too slow is closed, and takes nothing more.               *)

Fresh(c, S) == {e \in S : e > sub[c].last}

(* The page of c handles the events of s, which come in the order of their  *)
(* numbers: one that it has is not added.                                   *)
Shown(c, s) ==
  LET u == Owner[c]
      new == Ascending(ToSet(s) \ ToSet(seen[u]))
  IN [shown |-> seen[u] \o new, ref |-> IF s = <<>> THEN last[u] ELSE LastOf(s)]

Show(s) ==  \* s[c]: the events sent to connection c, of which a page has one open at most
  LET got(u) == {c \in Conns : Owner[c] = u /\ socket[c] = "open" /\ s[c] # <<>>}
      of(u) == LET c == CHOOSE x \in got(u) : TRUE IN Shown(c, s[c])
  IN /\ seen' = [u \in Users |-> IF got(u) = {} THEN seen[u] ELSE of(u).shown]
     /\ last' = [u \in Users |-> IF got(u) = {} THEN last[u] ELSE of(u).ref]

-----------------------------------------------------------------------------
(* RedisScanEventBus: one Redis subscription for all the clients of a scan. *)

(* subscribe reads the count, awaits Redis, and only then writes count + 1: *)
(* see Authorized and Subscribed.                                           *)
BusUnsubscribeAll ==  \* mutant: the last count is not waited for
  refCount' = 0 /\ requests' = Append(requests, [kind |-> "unsubscribe"])

BusUnsubscribe ==
  IF refCount <= 1
  THEN refCount' = 0 /\ requests' = Append(requests, [kind |-> "unsubscribe"])
  ELSE refCount' = refCount - 1 /\ UNCHANGED requests

RedisExecutes ==
  /\ requests # <<>>
  /\ requests' = Tail(requests)
  /\ channel' = (requests[1].kind = "subscribe")
  /\ inbox' = IF requests[1].kind = "subscribe"
              THEN Append(inbox, [kind |-> "subscribed", conn |-> requests[1].conn]) ELSE inbox
  /\ UNCHANGED <<redis, gateway, browser, crashes, upsets, disturbed>>

AcceptsAny(c, e) == c \in scanClients \cap clients /\ sub[c].live  \* mutant: no comparison

(* sendScanEvent for a live event and one client. *)
Accepts(c, e) == c \in scanClients \cap clients /\ sub[c].live /\ e > sub[c].last

(* broadcastScanEvent: while a subscription replays, live events wait in    *)
(* its buffer. slow is the set of the sockets found too slow.               *)
Broadcast(slow) ==
  /\ inbox # <<>> /\ inbox[1].kind = "event"
  /\ LET e == inbox[1].seq
         direct == {c \in Conns : Accepts(c, e) /\ ~sub[c].buffering /\ socket[c] # "closed"}
     IN /\ slow \subseteq direct
        /\ sub' = [c \in Conns |->
             IF c \in direct \ slow THEN [sub[c] EXCEPT !.last = e]
             ELSE IF Accepts(c, e) /\ sub[c].buffering
             THEN [sub[c] EXCEPT !.buffer = @ \cup {e}]
             ELSE sub[c]]
        /\ Show([c \in Conns |-> IF c \in direct \ slow THEN <<e>> ELSE <<>>])
        /\ socket' = [c \in Conns |-> IF c \in slow THEN "closed" ELSE socket[c]]
  /\ inbox' = Tail(inbox)
  /\ UNCHANGED <<redis, channel, requests, refCount, clients, scanClients, task,
                 crashes, upsets, disturbed>>

-----------------------------------------------------------------------------
(* ScanRealtimeGateway.subscribeToScan, in the steps its awaits cut it in.  *)

(* scan.subscribe: a page sends its lastSequenceRef when a socket opens; a  *)
(* later one on the same connection leaves it to the subscription.          *)
Subscribe(c) ==
  /\ c \in clients /\ socket[c] = "open" /\ task[c] = Idle
  /\ sub[c].live => upsets < MaxUpsets
  /\ upsets' = IF sub[c].live THEN upsets + 1 ELSE upsets
  /\ task' = [task EXCEPT ![c] = [at |-> "authorizing", existing |-> sub[c].live,
                                  from |-> IF sub[c].live THEN sub[c].last ELSE last[Owner[c]]]]
  /\ UNCHANGED <<redis, link, refCount, clients, scanClients, sub, browser, crashes, disturbed>>

InstallOpen(c, from) ==  \* mutant: live events do not wait for the replay
  /\ sub' = [sub EXCEPT ![c] = [last |-> from, buffering |-> FALSE, buffer |-> {}, live |-> TRUE]]
  /\ scanClients' = scanClients \cup {c}
  /\ task' = [task EXCEPT ![c] = [at |-> "loading", existing |-> task[c].existing, from |-> from]]

Install(c, from) ==
  /\ sub' = [sub EXCEPT ![c] = [last |-> from, buffering |-> TRUE, buffer |-> {}, live |-> TRUE]]
  /\ scanClients' = scanClients \cup {c}
  /\ task' = [task EXCEPT ![c] = [at |-> "loading", existing |-> task[c].existing, from |-> from]]

Authorized(c) ==
  /\ task[c].at = "authorizing"
  /\ \/ /\ task[c].existing
        /\ Install(c, IF sub[c].live THEN sub[c].last ELSE task[c].from)
        /\ UNCHANGED <<refCount, requests, disturbed>>
     \/ /\ ~task[c].existing /\ refCount > 0
        /\ refCount' = refCount + 1
        /\ Install(c, task[c].from)
        /\ UNCHANGED <<requests, disturbed>>
     \/ /\ ~task[c].existing /\ refCount = 0
        /\ requests' = Append(requests, [kind |-> "subscribe", conn |-> c])
        /\ task' = [task EXCEPT ![c].at = "subscribing"]
        /\ disturbed' = (disturbed \/ \E d \in Conns : task[d].at = "subscribing")
        /\ UNCHANGED <<refCount, sub, scanClients>>
  /\ UNCHANGED <<redis, channel, inbox, clients, browser, crashes, upsets>>

Refused(c) ==
  /\ task[c].at = "authorizing" /\ upsets < MaxUpsets
  /\ task' = [task EXCEPT ![c] = Idle] /\ upsets' = upsets + 1
  /\ UNCHANGED <<redis, link, refCount, clients, scanClients, sub, browser, crashes, disturbed>>

(* The count it read before the await was zero: it becomes one. *)
Subscribed ==
  /\ inbox # <<>> /\ inbox[1].kind = "subscribed"
  /\ refCount' = 1
  /\ Install(inbox[1].conn, task[inbox[1].conn].from)
  /\ inbox' = Tail(inbox)
  /\ UNCHANGED <<redis, channel, requests, clients, browser, crashes, upsets, disturbed>>

(* getTimelineSince, as Redis answers it on the other connection. *)
ReadTimeline(c) ==
  /\ task[c].at = "loading"
  /\ LET window == SubSeq(timeline, Len(timeline) - ReplayMax + 1, Len(timeline))
         recent == IF Len(timeline) <= ReplayMax THEN timeline ELSE window
     IN task' = [task EXCEPT ![c] = [at |-> "loaded", existing |-> task[c].existing,
                                     events |-> {e \in ToSet(recent) : e > task[c].from}]]
  /\ UNCHANGED <<redis, link, refCount, clients, scanClients, sub, browser, crashes, upsets, disturbed>>

(* The replayed events pass through sendScanEvent while the subscription is *)
(* still buffering: they join the live ones, and the buffer is then sent in *)
(* the order of the numbers.                                                *)
Deliver(c) ==
  /\ task[c].at = "loaded"
  /\ task' = [task EXCEPT ![c] = Idle]
  /\ LET s == Ascending(Fresh(c, sub[c].buffer \cup task[c].events))
     IN IF sub[c].live
        THEN \E k \in IF socket[c] = "closed" THEN {0} ELSE 0 .. Len(s) :
               /\ Show([d \in Conns |-> IF d = c THEN SubSeq(s, 1, k) ELSE <<>>])
               /\ socket' = [socket EXCEPT ![c] = IF k = Len(s) THEN socket[c] ELSE "closed"]
               /\ sub' = [sub EXCEPT ![c] = [last |-> IF k = 0 THEN sub[c].last ELSE s[k],
                                             buffering |-> FALSE, buffer |-> {}, live |-> TRUE]]
        ELSE UNCHANGED <<socket, seen, last, sub>>
  /\ UNCHANGED <<redis, link, refCount, clients, scanClients, crashes, upsets, disturbed>>

(* unsubscribeFromScan, and what removeClient does for each subscription. *)
Forget(c) ==
  /\ sub' = [sub EXCEPT ![c] = NoSub]
  /\ scanClients' = scanClients \ {c}
  /\ IF sub[c].live THEN BusUnsubscribe ELSE UNCHANGED <<refCount, requests>>

LoadFails(c) ==
  /\ task[c].at = "loading" /\ upsets < MaxUpsets
  /\ upsets' = upsets + 1
  /\ task' = [task EXCEPT ![c] = Idle]
  /\ IF task[c].existing \/ ~sub[c].live
     THEN UNCHANGED <<sub, scanClients, refCount, requests>>
     ELSE Forget(c)
  /\ UNCHANGED <<redis, channel, inbox, clients, browser, crashes, disturbed>>

Unsubscribe(c) ==
  /\ c \in clients /\ socket[c] = "open" /\ task[c] = Idle /\ sub[c].live
  /\ upsets < MaxUpsets /\ upsets' = upsets + 1
  /\ Forget(c)
  /\ UNCHANGED <<redis, channel, inbox, clients, task, browser, crashes, disturbed>>

-----------------------------------------------------------------------------
(* Connections.                                                             *)

(* connect and handleConnection: a page opens the next socket when it has   *)
(* seen the end of the last.                                                *)
Connect(c) ==
  /\ socket[c] = "unused"
  /\ \A d \in Conns : Owner[d] = Owner[c] => socket[d] # "open"
  /\ socket' = [socket EXCEPT ![c] = "open"]
  /\ clients' = clients \cup {c}
  /\ UNCHANGED <<redis, link, refCount, scanClients, sub, task, seen, last, crashes, upsets, disturbed>>

(* The page sees its connection end; the gateway may not yet. *)
Break(c) ==
  /\ socket[c] = "open"
  /\ socket' = [socket EXCEPT ![c] = "broken"]
  /\ UNCHANGED <<redis, link, gateway, seen, last, crashes, upsets, disturbed>>

(* The gateway closes it: the network told it, or pingClients had no pong. *)
Disconnect(c) ==
  /\ socket[c] = "broken"
  /\ socket' = [socket EXCEPT ![c] = "closed"]
  /\ UNCHANGED <<redis, link, gateway, seen, last, crashes, upsets, disturbed>>

(* removeClient, on the close event or from pingClients. *)
RemoveClient(c) ==
  /\ c \in clients /\ socket[c] = "closed"
  /\ clients' = clients \ {c}
  /\ IF sub[c].live THEN Forget(c) ELSE UNCHANGED <<sub, scanClients, refCount, requests>>
  /\ UNCHANGED <<redis, channel, inbox, task, browser, crashes, upsets, disturbed>>

Next ==
  \/ \E p \in Publishers : TakeNumber(p) \/ AppendTimeline(p) \/ Publish(p) \/ PublisherDies(p)
  \/ RedisExecutes
  \/ \E slow \in SUBSET Conns : Broadcast(slow)
  \/ Subscribed
  \/ \E c \in Conns :
       \/ Subscribe(c) \/ Authorized(c) \/ Refused(c) \/ ReadTimeline(c) \/ Deliver(c)
       \/ LoadFails(c) \/ Unsubscribe(c) \/ Connect(c) \/ Break(c) \/ Disconnect(c)
       \/ RemoveClient(c)

Spec == Init /\ [][Next]_vars

-----------------------------------------------------------------------------
(* Properties.                                                              *)

(* What a page holds only grows, in the order of the numbers, whatever is   *)
(* replayed, buffered or sent twice (sendScanEvent, lastSequenceRef).       *)
InOrderOnce ==
  [][\A u \in Users :
       /\ IsPrefix(seen[u], seen'[u])
       /\ \A i, j \in DOMAIN seen'[u] : i < j => seen'[u][i] < seen'[u][j]
       /\ last'[u] = LastOf(seen'[u])]_vars

(* As long as publications do not overlap and no two connections open the   *)
(* scan's channel at once, a page misses no event between two that it has,  *)
(* unless it was away for more than the replay holds.                       *)
NoGap ==
  ~disturbed =>
    \A u \in Users : \A e \in ToSet(timeline) :
      e < LastOf(seen[u]) /\ e \notin ToSet(seen[u]) => e + ReplayMax <= Len(timeline)

Settled(c) ==
  /\ c \in clients /\ socket[c] = "open"
  /\ task[c] = Idle /\ sub[c].live /\ ~sub[c].buffering
  /\ inbox = <<>> /\ requests = <<>> /\ \A p \in Publishers : pubs[p] = Idle

(* Under the same condition a page whose subscription was confirmed has the *)
(* last event once nothing is under way: none fell between the snapshot,    *)
(* the replay and the live stream, or was lost when another page left.      *)
CaughtUp ==
  ~disturbed => \A c \in Conns : Settled(c) => last[Owner[c]] = LastOf(timeline)

(* What the documentation says of a confirmed subscription: the gateway     *)
(* streams the scan's events to it, so Redis sends them to the gateway.     *)
ConfirmedIsServed ==
  \A c \in Conns : Settled(c) => channel

=============================================================================

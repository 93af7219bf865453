----------------------------- MODULE QmiNotify -----------------------------
(***************************************************************************)
(* Notification subscriptions and indication delivery of drivers/qmimodem/ *)
(* qmi.c: qmi_service_register, qmi_service_unregister, qmi_service_       *)
(* unregister_all, and handle_indication walking each addressed service's *)
(* notify_list in service_notify.                                          *)
(*                                                                         *)
(* The services registered in service_list are fixed here (their life    *)
(* cycle is QmiMux's); each has a key <<type, client>>.  A delivery walk  *)
(* is split at every link it visits, because the user callback it runs    *)
(* may itself register and unregister, and the walk then continues from   *)
(* the link it holds.  Only the user's calls can interleave with a walk: *)
(* received_data runs the callbacks synchronously.                        *)
(*                                                                         *)
(* A notify_list element is [id, msg, h]: the id register returned, the   *)
(* message it matches, and h naming the heap link (struct qmi_notify).    *)
(***************************************************************************)
EXTENDS Naturals, Sequences, SequencesExt, FiniteSets

CONSTANTS
    Svcs,           \* the services in service_list
    SvcKey,         \* Svcs -> <<type, client>>
    Messages,       \* message ids subscribed to and indicated
    Addrs,          \* <<type, client>> of incoming indications (client 255 = all)
    MaxRegs,        \* bound on registrations (heap links)
    MaxInds,        \* bound on indications received
    NotifyIdStart,  \* next_notify_id of every service at the start
    OldSubscription,    \* one subscription with id 1 held since the start
    CallbackMayUnregisterSelf  \* a callback may unregister its own subscription

ASSUME NotifyIdStart \subseteq 0..65535
ASSUME OldSubscription => NotifyIdStart \subseteq 2..65535
ASSUME CallbackMayUnregisterSelf \in BOOLEAN

BROADCAST == 255
Links == 1..MaxRegs
NoLink == 0
Begin == -1

VARIABLES
    notify_list,     \* Svcs -> Seq of [id, msg, h]
    next_notify_id,  \* Svcs -> uint16
    held,            \* subscriptions the user holds: [s, id, h]
    next_h,          \* allocation counter naming links
    walk,            \* the delivery in progress
    inds,            \* indications received
    due,             \* links the current indication is addressed to
    got,             \* Links -> callbacks run for the current indication
    stale_read       \* the walk stepped from a link that had been freed

vars == <<notify_list, next_notify_id, held, next_h, walk, inds, due, got,
          stale_read>>

Idle == [active |-> FALSE, todo |-> <<>>, s |-> CHOOSE s \in Svcs : TRUE,
         link |-> NoLink, msg |-> CHOOSE m \in Messages : TRUE, incb |-> FALSE]

Init ==
    /\ next_notify_id \in [Svcs -> NotifyIdStart]
    /\ IF OldSubscription
       THEN \E s0 \in Svcs, m0 \in Messages :
              /\ notify_list = [s \in Svcs |->
                                  IF s = s0 THEN <<[id |-> 1, msg |-> m0, h |-> 1]>>
                                  ELSE <<>>]
              /\ held = {[s |-> s0, id |-> 1, h |-> 1]}
              /\ next_h = 2
       ELSE /\ notify_list = [s \in Svcs |-> <<>>]
            /\ held = {}
            /\ next_h = 1
    /\ walk = Idle /\ inds = 0 /\ due = {} /\ got = [h \in Links |-> 0]
    /\ stale_read = FALSE

LinksOf(s) == {notify_list[s][i].h : i \in 1..Len(notify_list[s])}

\* The user may call the library from outside any callback, or from inside
\* a notification callback; never while the walk itself is between links.
UserMayCall == ~walk.active \/ walk.incb

(***************************************************************************)
(* qmi_service_register: next_notify_id restarts at 1 from 0; the id is   *)
(* the counter before its uint16 increment.                               *)
(***************************************************************************)
NotifyIdOf(k) == IF k < 1 THEN 1 ELSE k

\* Fault variant: the counter is kept wider than uint16_t.
NextNotifyIdNoWrap(k) == NotifyIdOf(k) + 1

NextNotifyId(k) == (NotifyIdOf(k) + 1) % 65536

Register(s, m) ==
    /\ UserMayCall
    /\ next_h <= MaxRegs
    /\ LET id == NotifyIdOf(next_notify_id[s]) IN
       /\ notify_list' = [notify_list EXCEPT
                            ![s] = Append(@, [id |-> id, msg |-> m, h |-> next_h])]
       /\ held' = held \cup {[s |-> s, id |-> id, h |-> next_h]}
    /\ next_notify_id' = [next_notify_id EXCEPT ![s] = NextNotifyId(@)]
    /\ next_h' = next_h + 1
    /\ UNCHANGED <<walk, inds, due, got, stale_read>>

\* The subscription a callback is running for.
Running(h) == walk.active /\ walk.incb /\ walk.link = h

(***************************************************************************)
(* qmi_service_unregister(id): g_list_find_custom with __notify_compare   *)
(* takes the first link with that id, unlinks and frees it.  The user     *)
(* passes the id it was given for the subscription r it means to drop.   *)
(***************************************************************************)
Unregister(s, r) ==
    /\ UserMayCall
    /\ r \in held /\ r.s = s
    /\ CallbackMayUnregisterSelf \/ ~Running(r.h)
    /\ LET i == SelectInSeq(notify_list[s], LAMBDA n : n.id = r.id) IN
       notify_list' = IF i > 0 THEN [notify_list EXCEPT ![s] = RemoveAt(@, i)]
                               ELSE notify_list
    /\ held' = held \ {r}
    /\ UNCHANGED <<next_notify_id, next_h, walk, inds, due, got, stale_read>>

\* qmi_service_unregister_all: every link of the service freed.
UnregisterAll(s) ==
    /\ UserMayCall
    /\ CallbackMayUnregisterSelf \/ ~(walk.active /\ walk.s = s)
    /\ notify_list' = [notify_list EXCEPT ![s] = <<>>]
    /\ held' = {r \in held : r.s # s}
    /\ UNCHANGED <<next_notify_id, next_h, walk, inds, due, got, stale_read>>

(***************************************************************************)
(* handle_indication: an indication for the CTL service returns at once  *)
(* (not enumerated); client 255 goes to every service in service_list    *)
(* through g_hash_table_foreach, in the table's order; otherwise to the  *)
(* service under type | (client << 8), if any.                            *)
(***************************************************************************)
\* Fault variant: the broadcast branch is missing.
TargetsNoBroadcast(t, c) == {s \in Svcs : SvcKey[s] = <<t, c>>}

Targets(t, c) ==
    IF c = BROADCAST THEN Svcs ELSE {s \in Svcs : SvcKey[s] = <<t, c>>}

\* The services an indication is addressed to, as the spec states it.
Addressed(t, c) ==
    {s \in Svcs : c = BROADCAST \/ SvcKey[s] = <<t, c>>}

Indication(t, c, m) ==
    /\ ~walk.active
    /\ inds < MaxInds
    /\ inds' = inds + 1
    /\ due' = {n.h : n \in {x \in UNION {Range(notify_list[s]) : s \in Addressed(t, c)} :
                             x.msg = m}}
    /\ got' = [h \in Links |-> 0]
    /\ IF Targets(t, c) = {}
       THEN walk' = Idle
       ELSE \E order \in SetToSeqs(Targets(t, c)) :
              walk' = [active |-> TRUE, todo |-> Tail(order), s |-> Head(order),
                       link |-> Begin, msg |-> m, incb |-> FALSE]
    /\ UNCHANGED <<notify_list, next_notify_id, held, next_h, stale_read>>

(***************************************************************************)
(* service_notify walking one service's notify_list.  The walk holds the  *)
(* link it is at; g_list_next reads that link's next field.               *)
(***************************************************************************)
\* The link after h in the service's list, NoLink at the end.
NextLink(s, h) ==
    LET i == SelectInSeq(notify_list[s], LAMBDA n : n.h = h) IN
    IF i < Len(notify_list[s]) THEN notify_list[s][i + 1].h ELSE NoLink

\* g_list_first when the walk of a service starts.
FirstLink(s) == IF notify_list[s] = <<>> THEN NoLink ELSE notify_list[s][1].h

\* The message of the link the walk is at.
MsgOf(s, h) ==
    notify_list[s][SelectInSeq(notify_list[s], LAMBDA n : n.h = h)].msg

WalkStart ==
    /\ walk.active /\ ~walk.incb /\ walk.link = Begin
    /\ walk' = [walk EXCEPT !.link = FirstLink(walk.s)]
    /\ UNCHANGED <<notify_list, next_notify_id, held, next_h, inds, due, got,
                   stale_read>>

\* A link is visited: its callback runs when the message matches.
WalkVisit ==
    /\ walk.active /\ ~walk.incb /\ walk.link \notin {Begin, NoLink}
    /\ IF MsgOf(walk.s, walk.link) = walk.msg
       THEN /\ walk' = [walk EXCEPT !.incb = TRUE]
            /\ got' = [got EXCEPT ![walk.link] = @ + 1]
       ELSE /\ walk' = [walk EXCEPT !.link = NextLink(walk.s, walk.link)]
            /\ UNCHANGED got
    /\ UNCHANGED <<notify_list, next_notify_id, held, next_h, inds, due,
                   stale_read>>

(***************************************************************************)
(* The callback returns and the walk takes g_list_next of its link.  If   *)
(* the callback freed that link (g_list_delete_link clears next before    *)
(* the free) the read is of freed memory; the outcome modelled is the     *)
(* walk of that service ending, the benign one the build can produce.    *)
(***************************************************************************)
CallbackReturn ==
    /\ walk.active /\ walk.incb
    /\ LET freed == walk.link \notin LinksOf(walk.s) IN
       /\ walk' = [walk EXCEPT !.incb = FALSE,
                               !.link = IF freed THEN NoLink
                                        ELSE NextLink(walk.s, walk.link)]
       /\ stale_read' = (stale_read \/ freed)
    /\ UNCHANGED <<notify_list, next_notify_id, held, next_h, inds, due, got>>

\* The end of one service's list: on to the next service, or done.
WalkNextService ==
    /\ walk.active /\ ~walk.incb /\ walk.link = NoLink
    /\ walk' = IF walk.todo = <<>> THEN Idle
               ELSE [walk EXCEPT !.s = Head(walk.todo), !.todo = Tail(walk.todo),
                                 !.link = Begin]
    /\ UNCHANGED <<notify_list, next_notify_id, held, next_h, inds, due, got,
                   stale_read>>

Next ==
    \/ \E s \in Svcs, m \in Messages : Register(s, m)
    \/ \E s \in Svcs, r \in held : Unregister(s, r)
    \/ \E s \in Svcs : UnregisterAll(s)
    \/ \E a \in Addrs, m \in Messages : Indication(a[1], a[2], m)
    \/ WalkStart \/ WalkVisit \/ CallbackReturn \/ WalkNextService

\* The main loop runs the walk to its end once an indication is read.
Spec == Init /\ [][Next]_vars
            /\ WF_vars(WalkStart \/ WalkVisit \/ CallbackReturn \/ WalkNextService)

-----------------------------------------------------------------------------

Sub == [id : 0..65535, msg : Messages, h : Links]

TypeOK ==
    /\ notify_list \in [Svcs -> Seq(Sub)]
    /\ next_notify_id \in [Svcs -> 0..65535]
    /\ held \subseteq [s : Svcs, id : 1..65535, h : Links]
    /\ got \in [Links -> Nat] /\ due \subseteq Links

\* A step that ends the delivery of an indication.
DeliveryEnds == (walk.active \/ inds' > inds) /\ ~walk'.active

(***************************************************************************)
(* When the delivery of an indication ends, or it reached no service at  *)
(* all, every subscription to its message of every service it was        *)
(* addressed to (all of service_list for client 255) that is still       *)
(* registered got exactly one callback from service_notify.              *)
(***************************************************************************)
IndicationDelivered ==
    [][DeliveryEnds =>
         \A h \in due' : (\E s \in Svcs : h \in LinksOf(s)') => got'[h] = 1]_vars

(***************************************************************************)
(* service_notify never steps from a link a callback freed.               *)
(***************************************************************************)
NoStaleLink == ~stale_read

=============================================================================

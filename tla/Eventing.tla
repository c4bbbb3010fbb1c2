-------------------------------- MODULE Eventing --------------------------------
(***************************************************************************)
(* GENA between a device and a control point of this library, for one      *)
(* service: SUBSCRIBE, its renewal and UNSUBSCRIBE on the device's HTTP    *)
(* workers (device_http_server.c), the notification of subscribers under   *)
(* the lock of the service (service_notify.c, event/subscriber.c), and the *)
(* calls and the NOTIFY handler of the control point (controlpoint_event.c,*)
(* controlpoint_http_server.c).                                            *)
(*                                                                         *)
(* Requests are synchronous and may time out at the sender while the       *)
(* receiver still works on them, or be lost.  A request to the device has  *)
(* a worker <<kind, sid>> of its own; a SUBSCRIBE carries the SID that its *)
(* worker will create.  A NOTIFY to sid is post[sid], which is also its    *)
(* handler at the control point.  The subscribers that were unsubscribed   *)
(* from or forgotten stay for others.  The device is not stopped.          *)
(***************************************************************************)
EXTENDS Naturals

CONSTANTS
  Setters,         \* threads of the application that set state variables
  Variables,       \* the evented state variables of the service
  NotifyCountMax,  \* MUPNP_NOTIFY_COUNT_MAX, 2^32 - 1
  EventMaxSeq,     \* MUPNP_EVENT_MAX_SEQ, 2^31 - 1
  MaxSets,         \* bound: how often each variable is set
  MaxSids          \* bound: subscriptions made

Sids == 1..MaxSids
NoSid == 0
Nobody == 0
App == 0

ASSUME EventingAssumption ==
  /\ Setters \cap (Sids \cup {Nobody}) = {}
  /\ EventMaxSeq \in Nat \ {0} /\ NotifyCountMax \in Nat /\ EventMaxSeq < NotifyCountMax
  /\ MaxSets \in Nat /\ MaxSids \in Nat

VARIABLES
  value,        \* value[v]: how often the device has set v, for its value
  setting,      \* setting[s]: the variables s has set and is to notify, {} when idle
  subscribers,  \* the SIDs on service->subscriberList, in the order of their numbers
  count,        \* count[x]: notifyCount of subscriber x
  notifier,     \* who has the lock of the service: a setter, a worker, or nobody
  event,        \* the variables that it notifies
  todo,         \* the subscribers it has still to notify
  target,       \* the subscriber whose answer it waits for
  post,         \* post[x]: the NOTIFY to x: where it is, SEQ and the values in it
  work,         \* work[<<kind, x>>]: where that worker of the device is
  sid,          \* at the control point: SID, event key and state table of the service
  key,
  known,
  call,         \* the request to the device that the control point waits for, by the
                \* handler of a NOTIFY or else by the application or expiration thread
  made,         \* how many SIDs were created
  dropped,      \* history: an event was dropped of the SID that is being subscribed
                \* to, or has been
  blind         \* history: it was the first event, with all variables

deviceVars == <<value, setting, subscribers, count, notifier, event, todo, target>>
controlVars == <<sid, key, known, call, made>>
vars == <<deviceVars, post, work, controlVars, dropped, blind>>

\* A renewal has no worker of its own here: it changes nothing that others see.
Kinds == {"subscribe", "unsubscribe"}
NoPost == [at |-> "none", seq |-> 0, body |-> <<>>]
NoCall == [by |-> App, kind |-> "none", sid |-> NoSid, reply |-> "none"]

Init ==
  /\ value = [v \in Variables |-> 0] /\ known = value
  /\ setting = [s \in Setters |-> {}]
  /\ subscribers = {} /\ count = [x \in Sids |-> 0]
  /\ notifier = Nobody /\ event = {} /\ todo = {} /\ target = NoSid
  /\ post = [x \in Sids |-> NoPost]
  /\ work = [w \in Kinds \X Sids |-> "none"]
  /\ sid = NoSid /\ key = 0 /\ call = NoCall /\ made = 0
  /\ dropped = FALSE /\ blind = FALSE

\* mupnp_service_removesubscriber, which frees them.
Removes(sids) ==
  /\ subscribers' = subscribers \ sids
  /\ count' = [x \in Sids |-> IF x \in sids THEN 0 ELSE count[x]]

First(sids) == CHOOSE x \in sids : \A y \in sids : x <= y
Work(kind, x, to) == work' = [work EXCEPT ![<<kind, x>>] = to]

\* The answer to a request is of use while its sender still waits for it.
Reply(kind, x, reply) ==
  call' = IF call.kind = kind /\ call.sid = x THEN [call EXCEPT !.reply = reply] ELSE call

--------------------------------------------------------------------------------
(* The device: mupnp_statevariable_setvalue and mupnp_service_notifymain.    *)

\* The value is set before the lock of the service is taken.
Sets(s, v) ==
  /\ setting[s] = {}
  /\ value[v] < MaxSets
  /\ value' = [value EXCEPT ![v] = @ + 1]
  /\ setting' = [setting EXCEPT ![s] = {v}]
  /\ UNCHANGED <<subscribers, count, notifier, event, todo, target, post, work,
                 controlVars, dropped, blind>>

\* With the lock, expired subscribers are removed and the others collected.  There is
\* no clock here: any subscription may have run out, as if its timeout were short.
BeginsNotifying(n, some) ==
  /\ notifier = Nobody
  /\ notifier' = n /\ event' = some
  /\ \E expired \in SUBSET subscribers : Removes(expired)
  /\ todo' = subscribers'
  /\ UNCHANGED <<value, setting, target, post, controlVars, dropped, blind>>

NotifiesChange(s) ==
  /\ setting[s] # {}
  /\ notifier # s
  /\ BeginsNotifying(s, setting[s])
  /\ UNCHANGED work

\* mupnp_service_createnotifyallthread: the worker of a SUBSCRIBE sends all variables
\* after its answer, to every subscriber.
NotifiesAll(x) ==
  /\ work[<<"subscribe", x>>] = "answered"
  /\ BeginsNotifying(x, Variables)
  /\ Work("subscribe", x, "notifying")

\* mupnp_subscriber_notifymain: the body has the values of the moment.
Posts ==
  /\ target = NoSid /\ todo # {}
  /\ target' = First(todo)
  /\ todo' = todo \ {target'}
  /\ post' = [post EXCEPT ![target'] =
       [at |-> "sent", seq |-> count[target'], body |-> [v \in event |-> value[v]]]]
  /\ UNCHANGED <<value, setting, subscribers, count, notifier, event, work,
                 controlVars, dropped, blind>>

NextCount(n) == (IF NotifyCountMax <= n THEN 0 ELSE n) + 1

Delivered ==
  /\ target # NoSid /\ post[target].at = "answered"
  /\ count' = [count EXCEPT ![target] = NextCount(@)]
  /\ post' = [post EXCEPT ![target] = NoPost]
  /\ target' = NoSid
  /\ UNCHANGED <<value, setting, subscribers, notifier, event, todo, work,
                 controlVars, dropped, blind>>

\* The subscriber stays, as in the specification named at service_notify.c:77.
KeepsInvalid ==
  /\ target # NoSid /\ post[target].at # "answered"
  /\ post' = [post EXCEPT ![target] = NoPost]
  /\ target' = NoSid
  /\ UNCHANGED <<value, setting, subscribers, count, notifier, event, todo, work,
                 controlVars, dropped, blind>>

\* No answer in time: the subscriber is removed.  A NOTIFY that did not reach its
\* handler may do so later or never.
Undelivered ==
  /\ target # NoSid /\ post[target].at # "answered"
  /\ Removes({target})
  /\ \/ post[target].at = "sent" /\ post' = [post EXCEPT ![target] = NoPost]
     \/ UNCHANGED post
  /\ target' = NoSid
  /\ UNCHANGED <<value, setting, notifier, event, todo, work, controlVars, dropped, blind>>

EndsNotifying ==
  /\ notifier # Nobody /\ todo = {} /\ target = NoSid
  /\ notifier' = Nobody /\ event' = {}
  /\ setting' = IF notifier \in Setters THEN [setting EXCEPT ![notifier] = {}] ELSE setting
  /\ work' = IF notifier \in Sids THEN [work EXCEPT ![<<"subscribe", notifier>>] = "none"]
             ELSE work

\* A way out that leaves the service locked when nobody is subscribed.
ReturnsLocked ==
  /\ subscribers # {}
  /\ EndsNotifying
  /\ UNCHANGED <<value, subscribers, count, todo, target, post, controlVars, dropped, blind>>

Unlocks ==
  /\ EndsNotifying
  /\ UNCHANGED <<value, subscribers, count, todo, target, post, controlVars, dropped, blind>>

--------------------------------------------------------------------------------
(* The device: mupnp_device_subscriptionrecieved.                            *)

\* mupnp_device_newsubscriptionrecieved lists the subscriber without the lock of
\* the service, and then answers.
ListsSubscriber(x) ==
  /\ work[<<"subscribe", x>>] = "received"
  /\ subscribers' = subscribers \cup {x}
  /\ Work("subscribe", x, "listed")
  /\ UNCHANGED <<value, setting, count, notifier, event, todo, target, post,
                 controlVars, dropped, blind>>

AnswersSubscribe(x) ==
  /\ work[<<"subscribe", x>>] = "listed"
  /\ Reply("subscribe", x, "ok")
  /\ Work("subscribe", x, "answered")
  /\ UNCHANGED <<deviceVars, post, sid, key, known, made, dropped, blind>>

\* mupnp_device_renewsubscriptionrecieved: what the renewal of a subscriber sets is
\* the time that this model leaves out.
RenewsSubscriber(x) ==
  /\ call.kind = "renew" /\ call.sid = x /\ call.reply = "none"
  /\ Reply("renew", x, IF x \in subscribers THEN "ok" ELSE "failed")
  /\ UNCHANGED <<deviceVars, post, work, sid, key, known, made, dropped, blind>>

\* mupnp_device_unsubscriptionrecieved without the lock of the service, and with it.
RemovesUnlocked(x) ==
  /\ work[<<"unsubscribe", x>>] = "received"
  /\ Removes({x})
  /\ Work("unsubscribe", x, "none")
  /\ Reply("unsubscribe", x, IF x \in subscribers THEN "ok" ELSE "failed")
  /\ UNCHANGED <<value, setting, notifier, event, todo, target, post,
                 sid, key, known, made, dropped, blind>>

RemovesSubscriber(x) ==
  /\ work[<<"unsubscribe", x>>] = "received"
  /\ notifier = Nobody
  /\ Removes({x})
  /\ Work("unsubscribe", x, "none")
  /\ Reply("unsubscribe", x, IF x \in subscribers THEN "ok" ELSE "failed")
  /\ UNCHANGED <<value, setting, notifier, event, todo, target, post,
                 sid, key, known, made, dropped, blind>>

--------------------------------------------------------------------------------
(* The control point: its calls.                                             *)

\* ctrlPoint->mutex is held by the NOTIFY handler that makes a call, and by the
\* expiration thread or the application around all calls but a first SUBSCRIBE.
ControlPointLocked ==
  call # NoCall /\ ~(call.by = App /\ call.kind = "subscribe")

Request(by, kind, x) ==
  /\ call' = [by |-> by, kind |-> kind, sid |-> x, reply |-> "none"]
  /\ IF kind = "renew" THEN UNCHANGED work ELSE Work(kind, x, "received")

\* mupnp_controlpoint_subscribe by the application, while nobody else does.
Subscribes ==
  /\ call = NoCall /\ sid = NoSid
  /\ made < MaxSids
  /\ made' = made + 1
  /\ key' = 0
  /\ Request(App, "subscribe", made + 1)
  /\ dropped' = FALSE /\ blind' = FALSE
  /\ UNCHANGED <<deviceVars, post, sid, known>>

\* mupnp_controlpoint_resubscribe and mupnp_controlpoint_unsubscribe.
RenewsOrEnds(kind) ==
  /\ call = NoCall /\ sid # NoSid
  /\ Request(App, kind, sid)
  /\ UNCHANGED <<deviceVars, post, sid, key, known, made, dropped, blind>>

\* The handler of post x answers; an answer that nobody waits for is not kept.
Answered(x) ==
  post' = [post EXCEPT ![x] = IF target = x THEN [@ EXCEPT !.at = "answered"] ELSE NoPost]

\* How a call ends, with a reply or, after the timeout, without.  A handler that has
\* unsubscribed subscribes again; otherwise it answers and the lock is released.
EndsCall(success) ==
  /\ sid' = IF success /\ call.kind # "unsubscribe" THEN call.sid ELSE NoSid
  /\ IF call.by \in Sids /\ call.kind = "unsubscribe" /\ made < MaxSids
     THEN /\ Request(call.by, "subscribe", made + 1)
          /\ made' = made + 1 /\ key' = 0
          /\ dropped' = FALSE /\ blind' = FALSE
          /\ UNCHANGED post
     ELSE /\ call' = NoCall
          /\ IF call.by \in Sids THEN Answered(call.by) ELSE UNCHANGED post
          /\ UNCHANGED <<made, key, work, dropped, blind>>
  /\ UNCHANGED <<deviceVars, known>>

\* A handler whose call failed returns with the lock, and as it is.
ReturnsInError(success) == (success \/ call.by = App) /\ EndsCall(success)

CallEnds(success) == EndsCall(success)

Returns == call # NoCall /\ call.reply # "none" /\ CallEnds(call.reply = "ok")
TimesOut == call # NoCall /\ call.reply = "none" /\ CallEnds(FALSE)

--------------------------------------------------------------------------------
(* The control point: mupnp_controlpoint_httprequestreceived.                *)

Arrived(x) == post[x].at = "sent" /\ ~ControlPointLocked

\* mupnp_device_getservicebysid finds nothing: dropped, and answered with OK.
Awaited(x) == call.kind = "subscribe" /\ call.sid = x

DropsEvent(x) ==
  /\ Arrived(x) /\ sid # x
  /\ Answered(x)
  /\ dropped' = (dropped \/ Awaited(x))
  /\ blind' = (blind \/ (Awaited(x) /\ DOMAIN post[x].body = Variables))
  /\ UNCHANGED <<deviceVars, work, controlVars>>

IsNext(seq) == seq = 0 \/ seq = key + 1

\* The key as the number that is expected next.
KeyExpected(seq) == seq + 1

\* The control point wraps after MUPNP_EVENT_MAX_SEQ, half the range of the device.
KeyAfter(seq) == IF seq = EventMaxSeq THEN 0 ELSE seq

\* An event for a service is taken whatever its SID was.
TakesAnyEvent(x) ==
  /\ Arrived(x) /\ sid # NoSid /\ IsNext(post[x].seq)
  /\ key' = KeyAfter(post[x].seq)
  /\ known' = [v \in Variables |-> IF v \in DOMAIN post[x].body THEN post[x].body[v] ELSE known[v]]
  /\ Answered(x)
  /\ UNCHANGED <<deviceVars, work, sid, call, made, dropped, blind>>

TakesEvent(x) ==
  /\ Arrived(x) /\ sid = x /\ IsNext(post[x].seq)
  /\ key' = KeyAfter(post[x].seq)
  /\ known' = [v \in Variables |-> IF v \in DOMAIN post[x].body THEN post[x].body[v] ELSE known[v]]
  /\ Answered(x)
  /\ UNCHANGED <<deviceVars, work, sid, call, made, dropped, blind>>

\* The key does not follow: the handler unsubscribes, and the lock stays with it.
FindsGap(x) ==
  /\ Arrived(x) /\ sid = x /\ ~IsNext(post[x].seq)
  /\ post' = [post EXCEPT ![x].at = "gap"]
  /\ Request(x, "unsubscribe", x)
  /\ UNCHANGED <<deviceVars, sid, key, known, made, dropped, blind>>

--------------------------------------------------------------------------------
NotifierStep == Posts \/ Delivered \/ Undelivered \/ Unlocks
WorkerStep(x) ==
  \/ ListsSubscriber(x) \/ AnswersSubscribe(x) \/ NotifiesAll(x)
  \/ RenewsSubscriber(x) \/ RemovesSubscriber(x)
HandlerStep(x) == DropsEvent(x) \/ TakesEvent(x) \/ FindsGap(x)

Next ==
  \/ \E s \in Setters : NotifiesChange(s) \/ \E v \in Variables : Sets(s, v)
  \/ NotifierStep
  \/ \E x \in Sids : WorkerStep(x) \/ HandlerStep(x)
  \/ Subscribes \/ RenewsOrEnds("renew") \/ RenewsOrEnds("unsubscribe")
  \/ Returns \/ TimesOut

\* Threads run, and a request ends with an answer or with the timeout of its sender.
Fairness ==
  /\ \A s \in Setters : WF_vars(NotifiesChange(s))
  /\ WF_vars(NotifierStep)
  /\ \A x \in Sids : WF_vars(WorkerStep(x)) /\ WF_vars(HandlerStep(x))
  /\ WF_vars(Returns \/ TimesOut)

Spec == Init /\ [][Next]_vars /\ Fairness

--------------------------------------------------------------------------------
\* The types, and who is where: only under the lock is anything notified, and a
\* handler that found a gap is the one that calls.
TypeOK ==
  /\ value \in [Variables -> 0..MaxSets] /\ known \in [Variables -> 0..MaxSets]
  /\ setting \in [Setters -> SUBSET Variables]
  /\ subscribers \subseteq 1..made
  /\ count \in [Sids -> 0..NotifyCountMax] /\ key \in 0..NotifyCountMax
  /\ notifier \in Setters \cup Sids \cup {Nobody}
  /\ notifier = Nobody => event = {} /\ todo = {} /\ target = NoSid
  /\ todo \subseteq subscribers /\ target \in subscribers \cup {NoSid}
  /\ \A x \in Sids : post[x].at \in {"none", "sent", "gap", "answered"}
  /\ \A x \in Sids : post[x].at = "gap" <=> call.by = x
  /\ target # NoSid => post[target].at # "none"
  /\ sid \in 0..made /\ made \in 0..MaxSids
  /\ dropped \in BOOLEAN /\ blind \in BOOLEAN

\* Nothing is under way: no thread of either side is inside an operation.
Quiet ==
  /\ \A s \in Setters : setting[s] = {}
  /\ notifier = Nobody /\ call = NoCall
  /\ \A x \in Sids : post[x].at = "none" /\ work[<<"subscribe", x>>] = "none"

\* When nothing is under way and the device has the control point as a subscriber,
\* the control point has every value of the device, unless its first event came
\* before its SID: no event is lost without the subscription being lost with it.
InSync == Quiet /\ sid \in subscribers /\ ~blind => known = value

\* A subscription is given up for a gap in SEQ only if an event was dropped before
\* the SID was known, or the key has passed MUPNP_EVENT_MAX_SEQ, where the control
\* point wraps and the device goes on.
NoFalseAlarm ==
  [][\A x \in Sids : post[x].at = "sent" /\ post'[x].at = "gap" =>
       dropped \/ post[x].seq > EventMaxSeq]_vars

\* A handler that unsubscribes while the device waits for its answer, with the lock
\* that UNSUBSCRIBE needs, gets out: every notification comes to its end.
NotificationsEnd == \A s \in Setters : setting[s] # {} ~> setting[s] = {}

\* The lock of the control point is released by whoever calls the device.
CallsEnd == ControlPointLocked ~> ~ControlPointLocked

\* However NOTIFY requests are delayed past a resubscription, the state table never
\* goes back: this module implements EventChannel.
Channel == INSTANCE EventChannel WITH value <- value, known <- known
MovesForward == Channel!Spec
================================================================================

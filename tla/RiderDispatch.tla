--------------------------- MODULE RiderDispatch ---------------------------
(***************************************************************************)
(* Orders that are ready find a rider and reach the buyer:                 *)
(* apps/api/src/modules/rider-assignment/rider-assignment.service.ts (and  *)
(* .util.ts, .scheduler.ts), rider/delivery.service.ts, the availability   *)
(* switch of rider/rider.controller.ts and the administrator's             *)
(* cancellation of order/order.service.ts.                                 *)
(*                                                                         *)
(* Four tables have to agree: orders, deliveries, delivery_assignments     *)
(* (offers) and rider_profiles.  Every handler reads, checks, and then     *)
(* writes them one after the other, without a transaction and by id, that  *)
(* is whatever the rows have become.  A handler is therefore written here  *)
(* as the list of statements it still has to execute: its first action     *)
(* reads and checks and leaves the list in `job`, and each later action    *)
(* executes the next statement.                                            *)
(***************************************************************************)
EXTENDS Naturals, Sequences

CONSTANTS Orders,     \* orders that have become READY_FOR_PICKUP
          Riders,     \* approved riders in the shop's zone
          NoRider,    \* riderProfileId is null
          Admins,     \* requests of administrators
          Crons,      \* offers being expired by processPendingOffers
          Workers,    \* autoAssign running in the background
          MaxOffers,  \* bound, for each order: no new assignment after so many
          MaxFaults   \* bound: handlers that overlap another or die half-way,
                      \*   and switches of a rider's availability

ASSUME RiderAssumption == NoRider \notin Riders
ASSUME ActorAssumption ==
    /\ Riders \cap (Admins \cup Crons \cup Workers) = {}
    /\ Admins \cap (Crons \cup Workers) = {}
    /\ Crons \cap Workers = {}
ASSUME BoundAssumption == MaxOffers \in [Orders -> Nat] /\ MaxFaults \in Nat

Actors == Riders \cup Admins \cup Crons \cup Workers

VARIABLES
    order,     \* order[o]: orders.status
    delivery,  \* delivery[o]: the row of deliveries (one per order)
    offers,    \* offers[o]: its delivery_assignments, oldest first
    rider,     \* rider[r]: rider_profiles.status
    calls,     \* calls[o]: autoAssign(o) calls that have not begun
    job,       \* job[a]: the statements that handler a has still to execute
    faults,    \* bounded by MaxFaults
    calm       \* history: no handler overlapped another or ended half-way

vars == <<order, delivery, offers, rider, calls, job, faults, calm>>

OrderStatus == {"READY_FOR_PICKUP", "RIDER_ASSIGNED", "PICKED_UP", "DELIVERED",
                "DELIVERY_FAILED", "CANCELLED_BY_ADMIN"}
DeliveryStatus == {"NONE", "ASSIGNED", "ACCEPTED", "ARRIVED_AT_STORE", "PICKED_UP",
                   "ARRIVED_AT_CUSTOMER", "DELIVERED", "FAILED", "CANCELLED"}
RiderStatus == {"OFFLINE", "ONLINE", "BUSY", "ON_DELIVERY"}
OfferStatus == {"OFFERED", "ACCEPTED", "REJECTED", "EXPIRED", "CANCELLED"}

Active == {"ASSIGNED", "ACCEPTED", "ARRIVED_AT_STORE", "PICKED_UP", "ARRIVED_AT_CUSTOMER"}
(* assertRiderEligible counts fewer than isActiveDeliveryStatus. *)
Counted == Active \ {"ARRIVED_AT_CUSTOMER"}
Terminal == {"DELIVERED", "FAILED", "CANCELLED"}

Delivery == [status : DeliveryStatus, rider : Riders \cup {NoRider},
             pickupVerified : BOOLEAN, deliveryVerified : BOOLEAN]
Offer == [rider : Riders, status : OfferStatus]

(* Statements: what is written, on which order or rider, to which value.   *)
(* `n` is the number of an offer that is written by id.                    *)
Kinds == {"eligible", "assignable", "bind", "create", "release", "offer", "respond",
          "expire", "advance", "verify", "order", "rider", "fail", "dispatch"}
Values == OrderStatus \cup DeliveryStatus \cup RiderStatus \cup OfferStatus
Statement ==
    {s \in [do : Kinds, o : Orders, r : Riders \cup {NoRider}, n : Nat, to : Values] :
        /\ s.do \in {"eligible", "assignable", "bind", "create", "offer", "rider", "fail"}
              => s.r \in Riders
        /\ s.do = "order" => s.to \in OrderStatus
        /\ s.do = "advance" => s.to \in DeliveryStatus
        /\ s.do = "rider" => s.to \in RiderStatus
        /\ s.do = "respond" => s.to \in OfferStatus}

Do(kind, o, r, to) == [do |-> kind, o |-> o, r |-> r, n |-> 0, to |-> to]
DoTo(kind, o, to) == Do(kind, o, NoRider, to)
DoFor(kind, o, r) == Do(kind, o, r, "NONE")

TypeOK ==
    /\ order \in [Orders -> OrderStatus]
    /\ delivery \in [Orders -> Delivery]
    /\ offers \in [Orders -> Seq(Offer)]
    /\ rider \in [Riders -> RiderStatus]
    /\ calls \in [Orders -> Nat]
    /\ job \in [Actors -> Seq(Statement)]
    /\ faults \in 0..MaxFaults
    /\ calm \in BOOLEAN

(* advanceMerchantOrder has just made the orders READY_FOR_PICKUP and      *)
(* called dispatchAfterReadyForPickup.                                     *)
Init ==
    /\ order = [o \in Orders |-> "READY_FOR_PICKUP"]
    /\ delivery = [o \in Orders |-> [status |-> "NONE", rider |-> NoRider,
                                     pickupVerified |-> FALSE, deliveryVerified |-> FALSE]]
    /\ offers = [o \in Orders |-> <<>>]
    /\ rider = [r \in Riders |-> "ONLINE"]
    /\ calls = [o \in Orders |-> 1]
    /\ job = [a \in Actors |-> <<>>]
    /\ faults = 0
    /\ calm = TRUE

Idle(a) == job[a] = <<>>
Quiet == \A a \in Actors : Idle(a)

(* Handler a begins: it has read and checked and goes on with `program`. *)
Start(a, program) ==
    /\ Idle(a)
    /\ IF Quiet THEN UNCHANGED <<faults, calm>>
                ELSE faults < MaxFaults /\ faults' = faults + 1 /\ calm' = FALSE
    /\ job' = [job EXCEPT ![a] = program]
    /\ UNCHANGED <<order, delivery, offers, rider>>

(* assertRiderEligible; approval, zone and location do not change here. *)
Eligible(r) ==
    /\ rider[r] = "ONLINE"
    /\ \A o \in Orders : ~(delivery[o].rider = r /\ delivery[o].status \in Counted)

(* requireAssignableOrder, and the first check of findBestRider. *)
Assignable(o) ==
    /\ order[o] = "READY_FOR_PICKUP"
    /\ delivery[o].status \notin Active

(* Mutant: the two statuses are mixed up. *)
FinishAssignment_Swapped(o, r) ==
    <<DoFor("offer", o, r), DoTo("order", o, "BUSY"), Do("rider", o, r, "RIDER_ASSIGNED")>>

(* finishAssignment, after the delivery is bound to the rider. *)
FinishAssignment(o, r) ==
    <<DoFor("offer", o, r), DoTo("order", o, "RIDER_ASSIGNED"), Do("rider", o, r, "BUSY")>>

-----------------------------------------------------------------------------
(* RiderAssignmentService *)

(* The scores are not modelled: any eligible rider may be the best. *)
AutoAssign(a, o) ==
    /\ calls[o] > 0 /\ calls' = [calls EXCEPT ![o] = @ - 1]
    /\ Len(offers[o]) < MaxOffers[o]
    /\ \/ /\ Assignable(o)
          /\ \E r \in Riders : /\ Eligible(r)
                               /\ Start(a, <<DoFor("eligible", o, r), DoFor("assignable", o, r)>>)
       \/ /\ ~Assignable(o) \/ \A r \in Riders : ~Eligible(r)
          /\ Start(a, <<>>)

Assign(a, o, r) ==
    /\ Len(offers[o]) < MaxOffers[o]
    /\ Eligible(r)
    /\ Start(a, <<DoFor("assignable", o, r)>>)
    /\ UNCHANGED calls

(* What unbinds the rider of a delivery: the offers made to `whom` (NoRider *)
(* stands for all), then the rider's status.                               *)
LetGo(o, whom) ==
    IF delivery[o].rider = NoRider THEN <<>>
    ELSE <<Do("respond", o, whom, "CANCELLED"), Do("rider", o, delivery[o].rider, "ONLINE")>>

(* The new rider is looked at only after the old one has been let go. *)
Reassign(a, o, r) ==
    /\ Len(offers[o]) < MaxOffers[o]
    /\ delivery[o].status \in {"ASSIGNED", "ACCEPTED", "ARRIVED_AT_STORE"}
    /\ Start(a, LetGo(o, delivery[o].rider)
                 \o <<DoFor("eligible", o, r), DoFor("bind", o, r)>>
                 \o FinishAssignment(o, r))
    /\ UNCHANGED calls

Unassign(a, o) ==
    /\ delivery[o].status \notin {"NONE", "PICKED_UP", "ARRIVED_AT_CUSTOMER", "DELIVERED"}
    /\ Start(a, LetGo(o, NoRider)
                 \o <<DoTo("release", o, "CANCELLED"), DoTo("order", o, "READY_FOR_PICKUP")>>)
    /\ UNCHANGED calls

(* Mutant: the rider is not set free. *)
RejectOffer_StaysBusy(r, o) ==
    /\ delivery[o].rider = r /\ delivery[o].status = "ASSIGNED"
    /\ Start(r, <<Do("respond", o, r, "REJECTED"), DoTo("release", o, "CANCELLED"),
                  DoTo("order", o, "READY_FOR_PICKUP"), DoTo("dispatch", o, "NONE")>>)
    /\ UNCHANGED calls

RejectOffer(r, o) ==
    /\ delivery[o].rider = r /\ delivery[o].status = "ASSIGNED"
    /\ Start(r, <<Do("respond", o, r, "REJECTED"), DoTo("release", o, "CANCELLED"),
                  Do("rider", o, r, "ONLINE"), DoTo("order", o, "READY_FOR_PICKUP"),
                  DoTo("dispatch", o, "NONE")>>)
    /\ UNCHANGED calls

(* Mutant: only offers of orders that are RIDER_ASSIGNED are looked for. *)
ProcessPendingOffers_AssignedOnly(a, o, n) ==
    /\ offers[o][n].status = "OFFERED" /\ order[o] = "RIDER_ASSIGNED"
    /\ Start(a, <<[DoTo("expire", o, "EXPIRED") EXCEPT !.n = n], DoTo("release", o, "CANCELLED"),
                  Do("rider", o, offers[o][n].rider, "ONLINE"),
                  DoTo("order", o, "READY_FOR_PICKUP"), DoTo("dispatch", o, "NONE")>>)
    /\ UNCHANGED calls

(* Offer n of order o was in the cron's list: it was OFFERED and its 30    *)
(* seconds were over.  A list of several offers is several crons at work.  *)
ProcessPendingOffers(a, o, n) ==
    /\ offers[o][n].status = "OFFERED"
    /\ Start(a, <<[DoTo("expire", o, "EXPIRED") EXCEPT !.n = n], DoTo("release", o, "CANCELLED"),
                  Do("rider", o, offers[o][n].rider, "ONLINE"),
                  DoTo("order", o, "READY_FOR_PICKUP"), DoTo("dispatch", o, "NONE")>>)
    /\ UNCHANGED calls

-----------------------------------------------------------------------------
(* DeliveryService: the rider's requests about his delivery *)

AcceptDelivery(r, o) ==
    /\ delivery[o].rider = r /\ delivery[o].status = "ASSIGNED"
    /\ order[o] \in {"READY_FOR_PICKUP", "RIDER_ASSIGNED"}
    /\ Start(r, <<DoTo("advance", o, "ACCEPTED"), Do("respond", o, r, "ACCEPTED"),
                  Do("rider", o, r, "ON_DELIVERY")>>)
    /\ UNCHANGED calls

(* arrivedAtStore and arrivedAtCustomer: a milestone, no order status. *)
Arrive(r, o) ==
    /\ delivery[o].rider = r
    /\ \/ /\ delivery[o].status = "ACCEPTED"
          /\ Start(r, <<DoTo("advance", o, "ARRIVED_AT_STORE")>>)
       \/ /\ delivery[o].status = "PICKED_UP"
          /\ Start(r, <<DoTo("advance", o, "ARRIVED_AT_CUSTOMER")>>)
    /\ UNCHANGED calls

PickUp(o) == <<DoTo("advance", o, "PICKED_UP"), DoTo("order", o, "PICKED_UP")>>

(* The right code was given; a wrong one only counts an attempt. *)
VerifyPickup(r, o) ==
    /\ delivery[o].rider = r /\ delivery[o].status = "ARRIVED_AT_STORE"
    /\ Start(r, (IF delivery[o].pickupVerified THEN <<>>
                 ELSE <<DoTo("verify", o, "PICKED_UP")>>) \o PickUp(o))
    /\ UNCHANGED calls

(* Mutant: the plain endpoint does not ask for the code. *)
PickedUp_Unverified(r, o) ==
    /\ delivery[o].rider = r /\ delivery[o].status = "ARRIVED_AT_STORE"
    /\ Start(r, PickUp(o))
    /\ UNCHANGED calls

PickedUp(r, o) ==
    /\ delivery[o].rider = r /\ delivery[o].status = "ARRIVED_AT_STORE"
    /\ delivery[o].pickupVerified
    /\ Start(r, PickUp(o))
    /\ UNCHANGED calls

Complete(o, r) == <<DoTo("advance", o, "DELIVERED"), DoTo("order", o, "DELIVERED"),
                    Do("rider", o, r, "ONLINE")>>

VerifyDelivery(r, o) ==
    /\ delivery[o].rider = r /\ delivery[o].status = "ARRIVED_AT_CUSTOMER"
    /\ Start(r, (IF delivery[o].deliveryVerified THEN <<>>
                 ELSE <<DoTo("verify", o, "DELIVERED")>>) \o Complete(o, r))
    /\ UNCHANGED calls

MarkDelivered(r, o) ==
    /\ delivery[o].rider = r /\ delivery[o].status = "ARRIVED_AT_CUSTOMER"
    /\ delivery[o].deliveryVerified
    /\ Start(r, Complete(o, r))
    /\ UNCHANGED calls

MarkFailed(r, o) ==
    /\ delivery[o].rider = r /\ delivery[o].status \notin Terminal
    /\ Start(r, <<Do("fail", o, r, "FAILED")>>)
    /\ UNCHANGED calls

(* PATCH rider/status: ONLINE or OFFLINE, at any time. *)
UpdateStatus(r) ==
    /\ \E s \in {"ONLINE", "OFFLINE"} : rider' = [rider EXCEPT ![r] = s]
    /\ faults < MaxFaults /\ faults' = faults + 1
    /\ UNCHANGED <<order, delivery, offers, calls, job, calm>>

(* OrderService.cancelByAdmin; the refund is CheckoutPayment's subject. *)
CancelByAdmin(a, o) ==
    /\ order[o] \in {"READY_FOR_PICKUP", "RIDER_ASSIGNED"}
    /\ Start(a, <<DoTo("order", o, "CANCELLED_BY_ADMIN")>>)
    /\ UNCHANGED calls

-----------------------------------------------------------------------------
(* Statements.  Each handler executes its own, in order. *)

Now(a) == Head(job[a])
Doing(a, kind) == job[a] # <<>> /\ Now(a).do = kind
Proceed(a) == job' = [job EXCEPT ![a] = Tail(@)] /\ UNCHANGED <<faults, calm>>
(* An exception: the rest is not executed. *)
Give(a) == job' = [job EXCEPT ![a] = <<>>] /\ calm' = FALSE /\ UNCHANGED faults

CheckEligible(a) ==
    /\ Doing(a, "eligible")
    /\ IF Eligible(Now(a).r) THEN Proceed(a) ELSE Give(a)
    /\ UNCHANGED <<order, delivery, offers, rider, calls>>

(* upsertDelivery creates or updates according to what is read here. *)
CheckAssignable(a) ==
    /\ Doing(a, "assignable")
    /\ LET o == Now(a).o  r == Now(a).r IN
       IF Assignable(o)
       THEN /\ job' = [job EXCEPT ![a] =
                   <<DoFor(IF delivery[o].status = "NONE" THEN "create" ELSE "bind", o, r)>>
                   \o FinishAssignment(o, r)]
            /\ UNCHANGED <<faults, calm>>
       ELSE Give(a)
    /\ UNCHANGED <<order, delivery, offers, rider, calls>>

(* A second row for the order violates the unique key. *)
BindRider(a) ==
    /\ Doing(a, "bind") \/ Doing(a, "create")
    /\ LET o == Now(a).o IN
       IF Doing(a, "create") /\ delivery[o].status # "NONE"
       THEN Give(a) /\ UNCHANGED delivery
       ELSE /\ delivery' = [delivery EXCEPT ![o].status = "ASSIGNED", ![o].rider = Now(a).r]
            /\ Proceed(a)
    /\ UNCHANGED <<order, offers, rider, calls>>

ReleaseDelivery(a) ==
    /\ Doing(a, "release")
    /\ delivery' = [delivery EXCEPT ![Now(a).o].status = "CANCELLED", ![Now(a).o].rider = NoRider]
    /\ Proceed(a)
    /\ UNCHANGED <<order, offers, rider, calls>>

CreateAssignmentRecord(a) ==
    /\ Doing(a, "offer")
    /\ offers' = [offers EXCEPT ![Now(a).o] =
                     Append(@, [rider |-> Now(a).r, status |-> "OFFERED"])]
    /\ Proceed(a)
    /\ UNCHANGED <<order, delivery, rider, calls>>

(* updateMany: an answer is written to open offers, a cancellation also to *)
(* accepted ones.                                                          *)
RespondToOffers(a) ==
    /\ Doing(a, "respond")
    /\ LET o == Now(a).o
           open == IF Now(a).to = "CANCELLED" THEN {"OFFERED", "ACCEPTED"} ELSE {"OFFERED"}
       IN  offers' = [offers EXCEPT ![o] = [n \in 1..Len(@) |->
               IF Now(a).r \in {NoRider, @[n].rider} /\ @[n].status \in open
               THEN [@[n] EXCEPT !.status = Now(a).to] ELSE @[n]]]
    /\ Proceed(a)
    /\ UNCHANGED <<order, delivery, rider, calls>>

(* expireOffer writes by id. *)
ExpireOffer(a) ==
    /\ Doing(a, "expire")
    /\ offers' = [offers EXCEPT ![Now(a).o][Now(a).n].status = "EXPIRED"]
    /\ Proceed(a)
    /\ UNCHANGED <<order, delivery, rider, calls>>

AdvanceDelivery(a) ==
    /\ Doing(a, "advance")
    /\ delivery' = [delivery EXCEPT ![Now(a).o].status = Now(a).to]
    /\ Proceed(a)
    /\ UNCHANGED <<order, offers, rider, calls>>

(* assertOtpOrThrow: the one-time marker. *)
MarkVerified(a) ==
    /\ Doing(a, "verify")
    /\ delivery' = IF Now(a).to = "PICKED_UP"
                   THEN [delivery EXCEPT ![Now(a).o].pickupVerified = TRUE]
                   ELSE [delivery EXCEPT ![Now(a).o].deliveryVerified = TRUE]
    /\ Proceed(a)
    /\ UNCHANGED <<order, offers, rider, calls>>

(* OrderStatusHistoryService.transition: any status over any other. *)
Transition(a) ==
    /\ Doing(a, "order")
    /\ order' = [order EXCEPT ![Now(a).o] = Now(a).to]
    /\ Proceed(a)
    /\ UNCHANGED <<delivery, offers, rider, calls>>

UpdateRider(a) ==
    /\ Doing(a, "rider")
    /\ rider' = [rider EXCEPT ![Now(a).r] = Now(a).to]
    /\ Proceed(a)
    /\ UNCHANGED <<order, delivery, offers, calls>>

(* markFailed: the one transaction. *)
FailDelivery(a) ==
    /\ Doing(a, "fail")
    /\ delivery' = [delivery EXCEPT ![Now(a).o].status = "FAILED"]
    /\ order' = [order EXCEPT ![Now(a).o] = "DELIVERY_FAILED"]
    /\ rider' = [rider EXCEPT ![Now(a).r] = "ONLINE"]
    /\ Proceed(a)
    /\ UNCHANGED <<offers, calls>>

(* void this.autoAssign(orderId) *)
CallAutoAssign(a) ==
    /\ Doing(a, "dispatch")
    /\ calls' = [calls EXCEPT ![Now(a).o] = @ + 1]
    /\ Proceed(a)
    /\ UNCHANGED <<order, delivery, offers, rider>>

(* The process dies, or a statement fails. *)
Crash(a) ==
    /\ ~Idle(a)
    /\ faults < MaxFaults /\ faults' = faults + 1
    /\ job' = [job EXCEPT ![a] = <<>>]
    /\ calm' = FALSE
    /\ UNCHANGED <<order, delivery, offers, rider, calls>>

Execute(a) ==
    \/ CheckEligible(a) \/ CheckAssignable(a) \/ BindRider(a) \/ ReleaseDelivery(a)
    \/ CreateAssignmentRecord(a) \/ RespondToOffers(a) \/ ExpireOffer(a)
    \/ AdvanceDelivery(a) \/ MarkVerified(a) \/ Transition(a) \/ UpdateRider(a)
    \/ FailDelivery(a) \/ CallAutoAssign(a)

RiderRequest(r, o) ==
    \/ AcceptDelivery(r, o) \/ RejectOffer(r, o) \/ Arrive(r, o)
    \/ VerifyPickup(r, o) \/ PickedUp(r, o)
    \/ VerifyDelivery(r, o) \/ MarkDelivered(r, o) \/ MarkFailed(r, o)

AdminRequest(a, o) ==
    \/ \E r \in Riders : Assign(a, o, r) \/ Reassign(a, o, r)
    \/ Unassign(a, o) \/ CancelByAdmin(a, o)

CronTick(a) == \E o \in Orders : \E n \in 1..Len(offers[o]) : ProcessPendingOffers(a, o, n)

Next ==
    \/ \E a \in Actors : Execute(a) \/ Crash(a)
    \/ \E r \in Riders : UpdateStatus(r) \/ \E o \in Orders : RiderRequest(r, o)
    \/ \E a \in Admins : \E o \in Orders : AdminRequest(a, o)
    \/ \E a \in Crons : CronTick(a)
    \/ \E a \in Workers : \E o \in Orders : AutoAssign(a, o)

Spec == Init /\ [][Next]_vars

(* Running handlers go on and the cron ticks; nobody has to answer.  The   *)
(* cron's turn comes although the bound on overlapping handlers, which the *)
(* server does not have, may keep it out again and again: hence SF.        *)
FairSpec ==
    /\ Spec
    /\ \A a \in Actors : WF_vars(Execute(a))
    /\ \A a \in Crons : SF_vars(CronTick(a))

-----------------------------------------------------------------------------
(* Properties *)

(* delivery.service.ts:258: no delivery gets past the shop without the     *)
(* pickup code, nor is completed without the buyer's code, whatever        *)
(* handlers overlap, die, or write over each other's rows.                 *)
HandoversVerified ==
    \A o \in Orders :
        /\ delivery[o].status \in {"PICKED_UP", "ARRIVED_AT_CUSTOMER", "DELIVERED"}
             => delivery[o].pickupVerified
        /\ delivery[o].status = "DELIVERED" => delivery[o].deliveryVerified

(* Between handlers, if none has overlapped another or ended half-way, the *)
(* four tables agree: a delivery on offer has one open offer, made to its  *)
(* rider; a delivery under way was accepted by its rider, who has no other *)
(* and nothing else is open; the order is where its delivery is; and who   *)
(* is BUSY or ON_DELIVERY has a delivery to make.                          *)
Bound(o, r) == delivery[o].rider = r /\ delivery[o].status \in Active
OffersIn(o, s) == {n \in 1..Len(offers[o]) : offers[o][n].status = s}

OfferAgrees(o) ==
    IF delivery[o].status = "ASSIGNED"
    THEN \E n \in 1..Len(offers[o]) : /\ OffersIn(o, "OFFERED") = {n}
                                      /\ offers[o][n].rider = delivery[o].rider
    ELSE /\ OffersIn(o, "OFFERED") = {} \/ delivery[o].status = "FAILED"
         /\ delivery[o].status \in Active =>
               \E n \in OffersIn(o, "ACCEPTED") : offers[o][n].rider = delivery[o].rider

OrderAgrees(o) ==
    /\ delivery[o].status \in {"ASSIGNED", "ACCEPTED", "ARRIVED_AT_STORE"}
         => order[o] \in {"RIDER_ASSIGNED", "CANCELLED_BY_ADMIN"}
    /\ order[o] = "RIDER_ASSIGNED"
         => delivery[o].status \in {"ASSIGNED", "ACCEPTED", "ARRIVED_AT_STORE"}
    /\ order[o] = "PICKED_UP"
         <=> delivery[o].status \in {"PICKED_UP", "ARRIVED_AT_CUSTOMER"}
    /\ order[o] = "DELIVERED" <=> delivery[o].status = "DELIVERED"

DispatchAgrees ==
    calm /\ Quiet =>
        /\ \A o \in Orders : OfferAgrees(o) /\ OrderAgrees(o)
        /\ \A r \in Riders : rider[r] \in {"BUSY", "ON_DELIVERY"}
                                => \E o \in Orders : Bound(o, r)

(* rider-assignment.util.ts:3 (MAX_ACTIVE_DELIVERIES = 1): as long as      *)
(* handlers do not overlap or end half-way, a rider is on the way for one  *)
(* order until he has reached its buyer.  (At the buyer's door he is no    *)
(* longer counted, and may be given another order if he says ONLINE.)      *)
OneDeliveryPerRider ==
    calm => \A r \in Riders : \A p, q \in Orders :
        /\ delivery[p].rider = r /\ delivery[p].status \in Counted
        /\ delivery[q].rider = r /\ delivery[q].status \in Counted
        => p = q

(* rider-assignment.service.ts:470: an offer does not stay open for ever,  *)
(* even if the handler that made it died before it finished.               *)
Open(o, n) == n <= Len(offers[o]) /\ offers[o][n].status = "OFFERED"
OffersAreSettled == \A o \in Orders : \A n \in 1..MaxOffers[o] : Open(o, n) ~> ~Open(o, n)
=============================================================================

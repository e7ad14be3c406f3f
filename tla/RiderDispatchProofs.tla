------------------------ MODULE RiderDispatchProofs ------------------------
(***************************************************************************)
(* Theorems about RiderDispatch, in three parts that build on each other.  *)
(*                                                                         *)
(*   IInv         Every statement that a handler has still to execute is   *)
(*     well formed and, if it takes a delivery past the shop or the        *)
(*     buyer's door, the code was given: the row says so already, or the   *)
(*     handler's next statement will make it say so.  A row never forgets  *)
(*     a code, so a stale read of it is harmless.                          *)
(*   BindInv      In a calm history only one handler is at work, and it    *)
(*     binds a rider right after it has found him free.                    *)
(*   DispatchInv  In a calm history the statements that the handler at     *)
(*     work has still to execute lead to rows that agree (LeadsWell), so   *)
(*     the rows agree whenever nobody is at work.                          *)
(***************************************************************************)
EXTENDS RiderDispatch, SequenceTheorems, TLAPS

PastShop == {"PICKED_UP", "ARRIVED_AT_CUSTOMER", "DELIVERED"}

(* The first statement of p sets the marker `to` of order o. *)
Verifies(p, o, to) == p[1].do = "verify" /\ p[1].o = o /\ p[1].to = to

(* d is the table of deliveries. *)
SoundAt(d, p, i) ==
    p[i].do = "advance" =>
        /\ p[i].to \in PastShop =>
              \/ d[p[i].o].pickupVerified
              \/ i > 1 /\ Verifies(p, p[i].o, "PICKED_UP")
        /\ p[i].to = "DELIVERED" =>
              \/ d[p[i].o].deliveryVerified
              \/ i > 1 /\ Verifies(p, p[i].o, "DELIVERED")
Sound(d, p) == \A i \in 1..Len(p) : SoundAt(d, p, i)

IInv == TypeOK /\ HandoversVerified /\ \A a \in Actors : Sound(delivery, job[a])

(* What DoTo, DoFor and Do make is a statement. *)
LEMMA StatementTypes ==
    ASSUME NEW o \in Orders, NEW r \in Riders
    PROVE  /\ \A k \in {"eligible", "assignable", "bind", "create", "offer"} :
                  DoFor(k, o, r) \in Statement
           /\ \A k \in {"release", "dispatch", "verify"}, v \in Values : DoTo(k, o, v) \in Statement
           /\ \A v \in OrderStatus : DoTo("order", o, v) \in Statement
           /\ \A v \in DeliveryStatus : DoTo("advance", o, v) \in Statement
           /\ \A v \in RiderStatus : Do("rider", o, r, v) \in Statement
           /\ \A v \in OfferStatus : /\ Do("respond", o, r, v) \in Statement
                                     /\ Do("respond", o, NoRider, v) \in Statement
           /\ Do("fail", o, r, "FAILED") \in Statement
           /\ \A n \in Nat : [DoTo("expire", o, "EXPIRED") EXCEPT !.n = n] \in Statement
<1>1. /\ OrderStatus \subseteq Values /\ DeliveryStatus \subseteq Values
      /\ RiderStatus \subseteq Values /\ OfferStatus \subseteq Values
  BY DEF Values
<1>2. "NONE" \in Values /\ "FAILED" \in Values /\ "EXPIRED" \in Values
  BY <1>1 DEF DeliveryStatus, OfferStatus
<1>3. \A k \in Kinds, q \in Riders \cup {NoRider}, n \in Nat, v \in Values :
        [do |-> k, o |-> o, r |-> q, n |-> n, to |-> v]
          \in [do : Kinds, o : Orders, r : Riders \cup {NoRider}, n : Nat, to : Values]
  OBVIOUS
<1>4. \A k \in {"eligible", "assignable", "bind", "create", "offer"} : DoFor(k, o, r) \in Statement
  BY <1>2, <1>3 DEF Statement, Do, DoFor, Kinds
<1>5. \A k \in {"release", "dispatch", "verify"}, v \in Values : DoTo(k, o, v) \in Statement
  BY <1>3 DEF Statement, Do, DoTo, Kinds
<1>6. /\ \A v \in OrderStatus : DoTo("order", o, v) \in Statement
      /\ \A v \in DeliveryStatus : DoTo("advance", o, v) \in Statement
  BY <1>1, <1>3 DEF Statement, Do, DoTo, Kinds
<1>7. \A v \in RiderStatus : Do("rider", o, r, v) \in Statement
  BY <1>1, <1>3 DEF Statement, Do, Kinds
<1>8. \A v \in OfferStatus : Do("respond", o, r, v) \in Statement
                           /\ Do("respond", o, NoRider, v) \in Statement
  BY <1>1, <1>3 DEF Statement, Do, Kinds
<1>9. Do("fail", o, r, "FAILED") \in Statement
  BY <1>2, <1>3 DEF Statement, Do, Kinds
<1>10. ASSUME NEW n \in Nat PROVE [DoTo("expire", o, "EXPIRED") EXCEPT !.n = n] \in Statement
  <2>1. [DoTo("expire", o, "EXPIRED") EXCEPT !.n = n]
          = [do |-> "expire", o |-> o, r |-> NoRider, n |-> n, to |-> "EXPIRED"]
    BY DEF DoTo, Do
  <2> QED  BY <2>1, <1>2, <1>3 DEF Statement, Kinds
<1> QED  BY <1>4, <1>5, <1>6, <1>7, <1>8, <1>9, <1>10

(* A handler begins with a sound program: everything it changes is its job. *)
LEMMA Starts ==
    ASSUME IInv, NEW a \in Actors, NEW p \in Seq(Statement), Start(a, p), Sound(delivery, p),
           calls' \in [Orders -> Nat]
    PROVE  IInv'
  <1> USE DEF IInv
  <1>0. MaxFaults \in Nat /\ faults \in 0..MaxFaults /\ calm \in BOOLEAN
    BY BoundAssumption DEF TypeOK
  <1>1. /\ UNCHANGED <<order, delivery, offers, rider>>
        /\ job' = [job EXCEPT ![a] = p]
        /\ faults' \in 0..MaxFaults /\ calm' \in BOOLEAN
    <2>1. CASE Quiet       BY <2>1, <1>0 DEF Start
    <2>2. CASE ~Quiet
      <3>1. faults < MaxFaults /\ faults' = faults + 1 /\ calm' = FALSE
        BY <2>2 DEF Start
      <3>2. faults' \in 0..MaxFaults
        BY <3>1, <1>0
      <3> QED  BY <3>1, <3>2 DEF Start
    <2> QED  BY <2>1, <2>2
  <1>2. TypeOK'
    BY <1>1 DEF TypeOK
  <1>3. HandoversVerified'
    BY <1>1 DEF HandoversVerified
  <1>4. \A b \in Actors : Sound(delivery, job[b])'
    BY <1>1 DEF TypeOK
  <1> QED  BY <1>2, <1>3, <1>4

LEMMA StatementFields ==
    ASSUME NEW s \in Statement
    PROVE  /\ s.o \in Orders /\ s.n \in Nat /\ s.r \in Riders \cup {NoRider}
           /\ s.do \in {"bind", "create", "offer", "rider", "fail"} => s.r \in Riders
           /\ s.do = "order" => s.to \in OrderStatus
           /\ s.do = "advance" => s.to \in DeliveryStatus
           /\ s.do = "rider" => s.to \in RiderStatus
           /\ s.do = "respond" => s.to \in OfferStatus
  BY DEF Statement

(* From table d to table e no row forgets a code. *)
Remembers(d, e) ==
    \A o \in Orders : /\ d[o].pickupVerified => e[o].pickupVerified
                      /\ d[o].deliveryVerified => e[o].deliveryVerified

(* The first statement of p, if it is a verification, is done in table e. *)
Verified(e, p) ==
    p[1].do = "verify" =>
        /\ p[1].to = "PICKED_UP" => e[p[1].o].pickupVerified
        /\ p[1].to = "DELIVERED" => e[p[1].o].deliveryVerified

LEMMA RemembersAt ==
    ASSUME NEW d \in [Orders -> Delivery], NEW e \in [Orders -> Delivery],
           Remembers(d, e), NEW o \in Orders
    PROVE  /\ d[o].pickupVerified => e[o].pickupVerified
           /\ d[o].deliveryVerified => e[o].deliveryVerified
<1>1. d[o].pickupVerified => e[o].pickupVerified
  BY DEF Remembers
<1>2. d[o].deliveryVerified => e[o].deliveryVerified
  BY DEF Remembers
<1> QED  BY <1>1, <1>2

LEMMA SoundStays ==
    ASSUME NEW d \in [Orders -> Delivery], NEW e \in [Orders -> Delivery],
           NEW p \in Seq(Statement), Sound(d, p), Remembers(d, e)
    PROVE  Sound(e, p)
<1>1. \A i \in 1..Len(p) : p[i].o \in Orders
  <2>1. \A i \in 1..Len(p) : p[i] \in Statement
    OBVIOUS
  <2> QED  BY <2>1, StatementFields
<1>2. SUFFICES ASSUME NEW i \in 1..Len(p), p[i].do = "advance" PROVE SoundAt(e, p, i)
  BY DEF Sound, SoundAt
<1>3. SoundAt(d, p, i) /\ p[i].o \in Orders
  BY <1>1 DEF Sound
<1>4. /\ d[p[i].o].pickupVerified => e[p[i].o].pickupVerified
      /\ d[p[i].o].deliveryVerified => e[p[i].o].deliveryVerified
  BY <1>3, RemembersAt
<1> QED  BY <1>2, <1>3, <1>4 DEF SoundAt

LEMMA TailIsSound ==
    ASSUME NEW d \in [Orders -> Delivery], NEW e \in [Orders -> Delivery],
           NEW p \in Seq(Statement), p # <<>>,
           Sound(d, p), Remembers(d, e), Verified(e, p)
    PROVE  Tail(p) \in Seq(Statement) /\ Sound(e, Tail(p))
<1>1. /\ Tail(p) \in Seq(Statement) /\ Len(Tail(p)) = Len(p) - 1
      /\ \A i \in 1..Len(Tail(p)) : Tail(p)[i] = p[i + 1]
      /\ Len(p) \in Nat
  BY HeadTailProperties
<1>2. SUFFICES ASSUME NEW i \in 1..Len(Tail(p)) PROVE SoundAt(e, Tail(p), i)
  BY <1>1 DEF Sound
<1>3. i + 1 \in 1..Len(p) /\ i + 1 > 1 /\ Tail(p)[i] = p[i + 1] /\ p[i + 1] \in Statement
  BY <1>1
<1>4. SoundAt(d, p, i + 1) /\ p[i + 1].o \in Orders
  BY <1>3, StatementFields DEF Sound
<1>5. /\ d[p[i + 1].o].pickupVerified => e[p[i + 1].o].pickupVerified
      /\ d[p[i + 1].o].deliveryVerified => e[p[i + 1].o].deliveryVerified
  BY <1>4, RemembersAt
<1>6. p[i + 1].do = "advance" =>
        /\ p[i + 1].to \in PastShop => e[p[i + 1].o].pickupVerified
        /\ p[i + 1].to = "DELIVERED" => e[p[i + 1].o].deliveryVerified
  BY <1>4, <1>5 DEF SoundAt, Verifies, Verified
<1> QED  BY <1>3, <1>6 DEF SoundAt

(* A handler executes a statement. *)
LEMMA Executes ==
    ASSUME IInv, NEW a \in Actors, job[a] # <<>>,
           job' = [job EXCEPT ![a] = Tail(@)], UNCHANGED <<faults, calm>>,
           order' \in [Orders -> OrderStatus], delivery' \in [Orders -> Delivery],
           offers' \in [Orders -> Seq(Offer)], rider' \in [Riders -> RiderStatus],
           calls' \in [Orders -> Nat],
           HandoversVerified', Remembers(delivery, delivery'), Verified(delivery', job[a])
    PROVE  IInv'
<1>1. /\ \A b \in Actors : job[b] \in Seq(Statement) /\ Sound(delivery, job[b])
      /\ job \in [Actors -> Seq(Statement)]
  BY DEF IInv, TypeOK
<1>0. delivery \in [Orders -> Delivery]
  BY DEF IInv, TypeOK
<1>2. Tail(job[a]) \in Seq(Statement) /\ Sound(delivery', Tail(job[a]))
  BY <1>0, <1>1, TailIsSound
<1>3. \A b \in Actors : job'[b] = IF b = a THEN Tail(job[a]) ELSE job[b]
  BY <1>1
<1>4. ASSUME NEW b \in Actors PROVE Sound(delivery, job[b])'
  <2>1. CASE b = a
    BY <1>2, <1>3, <2>1
  <2>2. CASE b # a
    BY <1>0, <1>1, <1>3, <2>2, SoundStays
  <2> QED  BY <2>1, <2>2
<1>5. TypeOK'
  BY <1>1, <1>2 DEF IInv, TypeOK
<1> QED  BY <1>4, <1>5 DEF IInv

(* A handler ends early, and nothing else changes. *)
LEMMA Ends ==
    ASSUME IInv, NEW a \in Actors, job' = [job EXCEPT ![a] = <<>>],
           faults' \in 0..MaxFaults, calm' = FALSE,
           UNCHANGED <<order, delivery, offers, rider, calls>>
    PROVE  IInv'
<1>1. <<>> \in Seq(Statement) /\ Sound(delivery, <<>>)
  BY DEF Sound
<1>2. TypeOK'
  BY <1>1 DEF IInv, TypeOK
<1>3. HandoversVerified'
  BY DEF IInv, HandoversVerified
<1>4. \A b \in Actors : Sound(delivery, job[b])'
  BY <1>1 DEF IInv, TypeOK
<1> QED  BY <1>2, <1>3, <1>4 DEF IInv

(* A handler replaces what it has still to do, and changes nothing else. *)
LEMMA Replaces ==
    ASSUME IInv, NEW a \in Actors, NEW p \in Seq(Statement), Sound(delivery, p),
           job' = [job EXCEPT ![a] = p], UNCHANGED <<faults, calm>>,
           UNCHANGED <<order, delivery, offers, rider, calls>>
    PROVE  IInv'
<1>1. TypeOK'
  BY DEF IInv, TypeOK
<1>2. HandoversVerified'
  BY DEF IInv, HandoversVerified
<1>3. \A b \in Actors : Sound(delivery, job[b])'
  BY DEF IInv, TypeOK
<1> QED  BY <1>1, <1>2, <1>3 DEF IInv

(* The types that the next statement relies on. *)
LEMMA NowTypes ==
    ASSUME IInv, NEW a \in Actors, job[a] # <<>>
    PROVE  /\ Now(a) \in Statement /\ Now(a) = job[a][1]
           /\ Len(job[a]) >= 1 /\ SoundAt(delivery, job[a], 1)
           /\ order \in [Orders -> OrderStatus] /\ delivery \in [Orders -> Delivery]
           /\ offers \in [Orders -> Seq(Offer)] /\ rider \in [Riders -> RiderStatus]
           /\ calls \in [Orders -> Nat]
<1>1. job[a] \in Seq(Statement) /\ Sound(delivery, job[a])
  BY DEF IInv, TypeOK
<1>2. Len(job[a]) \in Nat /\ Len(job[a]) >= 1 /\ job[a][1] \in Statement /\ Head(job[a]) = job[a][1]
  BY <1>1, HeadTailProperties
<1>3. SoundAt(delivery, job[a], 1)
  BY <1>1, <1>2 DEF Sound
<1> QED  BY <1>2, <1>3 DEF Now, IInv, TypeOK

(* A statement that leaves the deliveries alone. *)
LEMMA ExecutesElsewhere ==
    ASSUME IInv, NEW a \in Actors, job[a] # <<>>, Now(a).do # "verify",
           Proceed(a), delivery' = delivery,
           order' \in [Orders -> OrderStatus], offers' \in [Orders -> Seq(Offer)],
           rider' \in [Riders -> RiderStatus], calls' \in [Orders -> Nat]
    PROVE  IInv'
<1>1. HandoversVerified' /\ delivery' \in [Orders -> Delivery]
  BY DEF IInv, HandoversVerified, TypeOK
<1>2. Remembers(delivery, delivery')
  BY DEF Remembers
<1>3. Verified(delivery', job[a])
  BY NowTypes DEF Verified
<1> QED  BY <1>1, <1>2, <1>3, Executes DEF Proceed

(* A statement that changes one delivery, and forgets none of its codes. *)
LEMMA ExecutesOnDelivery ==
    ASSUME IInv, NEW a \in Actors, job[a] # <<>>, Proceed(a),
           NEW o \in Orders, NEW d \in Delivery, delivery' = [delivery EXCEPT ![o] = d],
           order' \in [Orders -> OrderStatus], UNCHANGED <<offers, calls>>,
           rider' \in [Riders -> RiderStatus],
           delivery[o].pickupVerified => d.pickupVerified,
           delivery[o].deliveryVerified => d.deliveryVerified,
           d.status \in PastShop => d.pickupVerified,
           d.status = "DELIVERED" => d.deliveryVerified,
           Verified(delivery', job[a])
    PROVE  IInv'
<1>1. delivery \in [Orders -> Delivery] /\ delivery' \in [Orders -> Delivery]
  BY DEF IInv, TypeOK
<1>2. ASSUME NEW q \in Orders
      PROVE  delivery'[q] = IF q = o THEN d ELSE delivery[q]
  BY <1>1
<1>3. HandoversVerified'
  BY <1>2 DEF IInv, HandoversVerified, PastShop
<1>4. Remembers(delivery, delivery')
  BY <1>2 DEF Remembers
<1>5. offers' \in [Orders -> Seq(Offer)] /\ calls' \in [Orders -> Nat]
  BY DEF IInv, TypeOK
<1> QED  BY <1>1, <1>3, <1>4, <1>5, Executes DEF Proceed

LEMMA GivesUp ==
    ASSUME IInv, NEW a \in Actors, Give(a), UNCHANGED <<order, delivery, offers, rider, calls>>
    PROVE  IInv'
<1>1. faults' \in 0..MaxFaults
  BY DEF Give, IInv, TypeOK
<1> QED  BY <1>1, Ends DEF Give

(* A program that moves no delivery forward.                               *)
Harmless(p) == p \in Seq(Statement) /\ \A i \in 1..Len(p) : p[i].do # "advance"

LEMMA HarmlessIsSound ==
    ASSUME NEW d, NEW p, Harmless(p)
    PROVE  p \in Seq(Statement) /\ Sound(d, p)
BY DEF Harmless, Sound, SoundAt

LEMMA HarmlessConcat ==
    ASSUME NEW p, NEW q, Harmless(p), Harmless(q)
    PROVE  Harmless(p \o q)
<1>1. p \in Seq(Statement) /\ q \in Seq(Statement)
  BY DEF Harmless
<1>2. /\ p \o q \in Seq(Statement) /\ Len(p \o q) = Len(p) + Len(q)
      /\ \A i \in 1..(Len(p) + Len(q)) : (p \o q)[i] = IF i <= Len(p) THEN p[i] ELSE q[i - Len(p)]
      /\ Len(p) \in Nat /\ Len(q) \in Nat
  BY <1>1, ConcatProperties
<1>3. ASSUME NEW i \in 1..Len(p \o q) PROVE (p \o q)[i].do # "advance"
  <2>1. CASE i <= Len(p)
    <3>1. i \in 1..Len(p)
      BY <1>2, <2>1
    <3> QED  BY <1>2, <2>1, <3>1 DEF Harmless
  <2>2. CASE i > Len(p)
    <3>1. i - Len(p) \in 1..Len(q) /\ ~(i <= Len(p))
      BY <1>2, <2>2
    <3> QED  BY <1>2, <3>1 DEF Harmless
  <2> QED  BY <1>2, <2>1, <2>2
<1> QED  BY <1>2, <1>3 DEF Harmless

LEMMA HarmlessStatements ==
    ASSUME NEW o \in Orders, NEW r \in Riders
    PROVE  /\ Harmless(<<>>)
           /\ \A k \in {"eligible", "assignable", "bind", "create"} : Harmless(<<DoFor(k, o, r)>>)
           /\ Harmless(FinishAssignment(o, r))
<1>1. /\ \A k \in {"eligible", "assignable", "bind", "create", "offer"} : DoFor(k, o, r) \in Statement
      /\ DoTo("order", o, "RIDER_ASSIGNED") \in Statement /\ Do("rider", o, r, "BUSY") \in Statement
  BY StatementTypes DEF OrderStatus, RiderStatus
<1>2. \A k \in {"eligible", "assignable", "bind", "create"} : Harmless(<<DoFor(k, o, r)>>)
  BY <1>1 DEF Harmless, DoFor, Do
<1>3. Harmless(FinishAssignment(o, r))
  BY <1>1 DEF Harmless, FinishAssignment, DoFor, DoTo, Do
<1>4. Harmless(<<>>)
  BY DEF Harmless
<1> QED  BY <1>2, <1>3, <1>4

LEMMA ExecutePreserves ==
    ASSUME IInv, NEW a \in Actors, Execute(a)
    PROVE  IInv'
<1> DEFINE s == Now(a)
<1>0. job[a] # <<>>
  BY DEF Execute, CheckEligible, CheckAssignable, BindRider, ReleaseDelivery,
     CreateAssignmentRecord, RespondToOffers, ExpireOffer, AdvanceDelivery, MarkVerified,
     Transition, UpdateRider, FailDelivery, CallAutoAssign, Doing
<1>1. /\ s \in Statement /\ s = job[a][1] /\ SoundAt(delivery, job[a], 1)
      /\ order \in [Orders -> OrderStatus] /\ delivery \in [Orders -> Delivery]
      /\ offers \in [Orders -> Seq(Offer)] /\ rider \in [Riders -> RiderStatus]
      /\ calls \in [Orders -> Nat]
  BY <1>0, NowTypes
<1>2. /\ s.o \in Orders /\ s.n \in Nat /\ s.r \in Riders \cup {NoRider}
      /\ s.do \in {"bind", "create", "offer", "rider", "fail"} => s.r \in Riders
      /\ s.do = "order" => s.to \in OrderStatus
      /\ s.do = "advance" => s.to \in DeliveryStatus
      /\ s.do = "rider" => s.to \in RiderStatus
      /\ s.do = "respond" => s.to \in OfferStatus
  BY <1>1, StatementFields
<1>a. CASE CheckEligible(a)
  <2>1. CASE Proceed(a)
    BY <1>0, <1>1, <1>a, <2>1, ExecutesElsewhere DEF CheckEligible, Doing
  <2>2. CASE Give(a)
    BY <1>a, <2>2, GivesUp DEF CheckEligible
  <2> QED  BY <1>a, <2>1, <2>2 DEF CheckEligible
<1>c. CASE BindRider(a)
  <2>1. CASE Give(a) /\ UNCHANGED delivery
    BY <1>c, <2>1, GivesUp DEF BindRider
  <2>2. CASE Proceed(a) /\ delivery' = [delivery EXCEPT ![s.o].status = "ASSIGNED", ![s.o].rider = s.r]
    <3>1. s.do \in {"bind", "create"} /\ s.r \in Riders
      BY <1>2, <1>c DEF BindRider, Doing
    <3> DEFINE d == [delivery[s.o] EXCEPT !.status = "ASSIGNED", !.rider = s.r]
    <3>2. d \in Delivery /\ delivery' = [delivery EXCEPT ![s.o] = d]
      BY <1>1, <1>2, <2>2, <3>1 DEF Delivery, DeliveryStatus
    <3>3. /\ d.pickupVerified = delivery[s.o].pickupVerified
          /\ d.deliveryVerified = delivery[s.o].deliveryVerified /\ d.status = "ASSIGNED"
      BY <1>1, <1>2 DEF Delivery
    <3>4. Verified(delivery', job[a])
      BY <1>1, <3>1 DEF Verified
    <3>5. "ASSIGNED" \notin PastShop /\ "ASSIGNED" # "DELIVERED"
      BY DEF PastShop
    <3>6. order' = order /\ rider' = rider /\ UNCHANGED <<offers, calls>>
      BY <1>c DEF BindRider
    <3>7. /\ d.status \in PastShop => d.pickupVerified
          /\ d.status = "DELIVERED" => d.deliveryVerified
      BY <3>3, <3>5
    <3>8. s.o \in Orders /\ Proceed(a) /\ order' \in [Orders -> OrderStatus]
          /\ rider' \in [Riders -> RiderStatus]
      BY <1>1, <1>2, <2>2, <3>6
    <3> HIDE DEF d, s
    <3> QED  BY <1>0, <3>2, <3>3, <3>4, <3>6, <3>7, <3>8, ExecutesOnDelivery
  <2> QED  BY <1>c, <2>1, <2>2 DEF BindRider
<1>d. CASE ReleaseDelivery(a)
  <2> DEFINE d == [delivery[s.o] EXCEPT !.status = "CANCELLED", !.rider = NoRider]
  <2>2. d \in Delivery /\ delivery' = [delivery EXCEPT ![s.o] = d]
    BY <1>1, <1>2, <1>d DEF ReleaseDelivery, Delivery, DeliveryStatus
  <2>3. /\ d.pickupVerified = delivery[s.o].pickupVerified
        /\ d.deliveryVerified = delivery[s.o].deliveryVerified /\ d.status = "CANCELLED"
    BY <1>1, <1>2 DEF Delivery
  <2>4. Verified(delivery', job[a])
    BY <1>1, <1>d DEF Verified, ReleaseDelivery, Doing
  <2>5. "CANCELLED" \notin PastShop /\ "CANCELLED" # "DELIVERED"
    BY DEF PastShop
  <2>6. Proceed(a) /\ order' = order /\ rider' = rider /\ UNCHANGED <<offers, calls>>
    BY <1>d DEF ReleaseDelivery
  <2> HIDE DEF d
  <2> QED  BY <1>0, <1>1, <1>2, <2>2, <2>3, <2>4, <2>5, <2>6, ExecutesOnDelivery
<1>e. CASE CreateAssignmentRecord(a)
  <2>1. s.do = "offer" /\ s.r \in Riders
    BY <1>2, <1>e DEF CreateAssignmentRecord, Doing
  <2>2. [rider |-> s.r, status |-> "OFFERED"] \in Offer
    BY <2>1 DEF Offer, OfferStatus
  <2>3. offers' \in [Orders -> Seq(Offer)]
    BY <1>1, <1>2, <1>e, <2>2 DEF CreateAssignmentRecord
  <2> QED  BY <1>0, <1>1, <1>e, <2>1, <2>3, ExecutesElsewhere DEF CreateAssignmentRecord
<1>h. CASE AdvanceDelivery(a)
  <2> DEFINE d == [delivery[s.o] EXCEPT !.status = s.to]
  <2>1. s.do = "advance"
    BY <1>h DEF AdvanceDelivery, Doing
  <2>2. d \in Delivery /\ delivery' = [delivery EXCEPT ![s.o] = d]
    BY <1>1, <1>2, <1>h, <2>1 DEF AdvanceDelivery, Delivery
  <2>3. /\ d.pickupVerified = delivery[s.o].pickupVerified
        /\ d.deliveryVerified = delivery[s.o].deliveryVerified /\ d.status = s.to
    BY <1>1, <1>2 DEF Delivery
  <2>4. Verified(delivery', job[a])
    BY <1>1, <2>1 DEF Verified
  <2>5. /\ s.to \in PastShop => delivery[s.o].pickupVerified
        /\ s.to = "DELIVERED" => delivery[s.o].deliveryVerified
    BY <1>1, <2>1 DEF SoundAt
  <2>6. Proceed(a) /\ order' = order /\ rider' = rider /\ UNCHANGED <<offers, calls>>
    BY <1>h DEF AdvanceDelivery
  <2> HIDE DEF d
  <2> QED  BY <1>0, <1>1, <1>2, <2>2, <2>3, <2>4, <2>5, <2>6, ExecutesOnDelivery
<1>j. CASE Transition(a)
  <2>1. s.do = "order"
    BY <1>j DEF Transition, Doing
  <2>2. order' \in [Orders -> OrderStatus]
    BY <1>1, <1>2, <1>j, <2>1 DEF Transition
  <2> QED  BY <1>0, <1>1, <1>j, <2>1, <2>2, ExecutesElsewhere DEF Transition
<1>k. CASE UpdateRider(a)
  <2>1. s.do = "rider"
    BY <1>k DEF UpdateRider, Doing
  <2>2. rider' \in [Riders -> RiderStatus]
    BY <1>1, <1>2, <1>k, <2>1 DEF UpdateRider
  <2> QED  BY <1>0, <1>1, <1>k, <2>1, <2>2, ExecutesElsewhere DEF UpdateRider
<1>m. CASE CallAutoAssign(a)
  <2>1. s.do = "dispatch"
    BY <1>m DEF CallAutoAssign, Doing
  <2>2. calls' \in [Orders -> Nat]
    BY <1>1, <1>2, <1>m DEF CallAutoAssign
  <2> QED  BY <1>0, <1>1, <1>m, <2>1, <2>2, ExecutesElsewhere DEF CallAutoAssign
<1>l. CASE FailDelivery(a)
  <2> DEFINE d == [delivery[s.o] EXCEPT !.status = "FAILED"]
  <2>1. s.do = "fail" /\ s.r \in Riders
    BY <1>2, <1>l DEF FailDelivery, Doing
  <2>2. d \in Delivery /\ delivery' = [delivery EXCEPT ![s.o] = d]
    BY <1>1, <1>2, <1>l DEF FailDelivery, Delivery, DeliveryStatus
  <2>3. /\ d.pickupVerified = delivery[s.o].pickupVerified
        /\ d.deliveryVerified = delivery[s.o].deliveryVerified /\ d.status = "FAILED"
    BY <1>1, <1>2 DEF Delivery
  <2>4. Verified(delivery', job[a])
    BY <1>1, <2>1 DEF Verified
  <2>5. "FAILED" \notin PastShop /\ "FAILED" # "DELIVERED"
    BY DEF PastShop
  <2>6. Proceed(a) /\ UNCHANGED <<offers, calls>>
    BY <1>l DEF FailDelivery
  <2>7. order' \in [Orders -> OrderStatus] /\ rider' \in [Riders -> RiderStatus]
    BY <1>1, <1>2, <1>l, <2>1 DEF FailDelivery, OrderStatus, RiderStatus
  <2> HIDE DEF d
  <2> QED  BY <1>0, <1>1, <1>2, <2>2, <2>3, <2>4, <2>5, <2>6, <2>7, ExecutesOnDelivery
<1>b. CASE CheckAssignable(a)
  <2>1. CASE Give(a)
    BY <1>b, <2>1, GivesUp DEF CheckAssignable
  <2>2. CASE ~Give(a)
    <3> DEFINE k == IF delivery[s.o].status = "NONE" THEN "create" ELSE "bind"
               p == <<DoFor(k, s.o, s.r)>> \o FinishAssignment(s.o, s.r)
    <3>1. s.do = "assignable" /\ s.r \in Riders
      BY <1>1, <1>b DEF CheckAssignable, Doing, Statement
    <3>2. job' = [job EXCEPT ![a] = p] /\ UNCHANGED <<faults, calm>>
      BY <1>b, <2>2 DEF CheckAssignable
    <3>3. k \in {"eligible", "assignable", "bind", "create"}
      OBVIOUS
    <3>4. p \in Seq(Statement) /\ Sound(delivery, p)
      <4> HIDE DEF k
      <4>1. Harmless(<<DoFor(k, s.o, s.r)>>) /\ Harmless(FinishAssignment(s.o, s.r))
        BY <1>2, <3>1, <3>3, HarmlessStatements
      <4> QED  BY <4>1, HarmlessConcat, HarmlessIsSound
    <3>5. UNCHANGED <<order, delivery, offers, rider, calls>>
      BY <1>b DEF CheckAssignable
    <3> HIDE DEF p
    <3> QED  BY <3>2, <3>4, <3>5, Replaces
  <2> QED  BY <2>1, <2>2
<1>f. CASE RespondToOffers(a)
  <2>1. s.do = "respond" /\ s.to \in OfferStatus
    BY <1>2, <1>f DEF RespondToOffers, Doing
  <2>2. offers' \in [Orders -> Seq(Offer)]
    <3>1. offers[s.o] \in Seq(Offer) /\ Len(offers[s.o]) \in Nat
      BY <1>1, <1>2
    <3> DEFINE q == [n \in 1..Len(offers[s.o]) |->
                        IF s.r \in {NoRider, offers[s.o][n].rider}
                             /\ offers[s.o][n].status \in (IF s.to = "CANCELLED"
                                    THEN {"OFFERED", "ACCEPTED"} ELSE {"OFFERED"})
                        THEN [offers[s.o][n] EXCEPT !.status = s.to] ELSE offers[s.o][n]]
    <3>2. ASSUME NEW n \in 1..Len(offers[s.o]) PROVE q[n] \in Offer
      <4>1. offers[s.o][n] \in Offer
        BY <3>1
      <4>2. [offers[s.o][n] EXCEPT !.status = s.to] \in Offer
        BY <2>1, <4>1 DEF Offer
      <4> QED  BY <4>1, <4>2
    <3>3. q \in Seq(Offer)
      <4>1. q \in [1..Len(offers[s.o]) -> Offer]
        BY <3>2
      <4> HIDE DEF q
      <4> QED  BY <3>1, <4>1
    <3>4. offers' = [offers EXCEPT ![s.o] = q]
      BY <1>f DEF RespondToOffers
    <3> HIDE DEF q
    <3> QED  BY <1>1, <1>2, <3>3, <3>4
  <2> QED  BY <1>0, <1>1, <1>f, <2>1, <2>2, ExecutesElsewhere DEF RespondToOffers
<1>g. CASE ExpireOffer(a)
  <2>1. s.do = "expire"
    BY <1>g DEF ExpireOffer, Doing
  <2>2. offers' \in [Orders -> Seq(Offer)]
    <3>1. offers[s.o] \in Seq(Offer) /\ Len(offers[s.o]) \in Nat
      BY <1>1, <1>2
    <3> DEFINE q == [offers[s.o] EXCEPT ![s.n].status = "EXPIRED"]
    <3>2. q \in Seq(Offer)
      <4>1. \A n \in 1..Len(offers[s.o]) : offers[s.o][n] \in Offer
        BY <3>1
      <4>2. \A n \in 1..Len(offers[s.o]) : [offers[s.o][n] EXCEPT !.status = "EXPIRED"] \in Offer
        BY <4>1 DEF Offer, OfferStatus
      <4>3. q = [n \in 1..Len(offers[s.o]) |->
                   IF n = s.n THEN [offers[s.o][n] EXCEPT !.status = "EXPIRED"] ELSE offers[s.o][n]]
        BY <3>1
      <4>4. q \in [1..Len(offers[s.o]) -> Offer]
        BY <4>1, <4>2, <4>3
      <4> HIDE DEF q
      <4> QED  BY <3>1, <4>4
    <3>3. offers' = [offers EXCEPT ![s.o] = q]
      BY <1>g DEF ExpireOffer
    <3> HIDE DEF q
    <3> QED  BY <1>1, <1>2, <3>2, <3>3
  <2> QED  BY <1>0, <1>1, <1>g, <2>1, <2>2, ExecutesElsewhere DEF ExpireOffer
<1>i. CASE MarkVerified(a)
  <2>1. s.do = "verify" /\ Proceed(a) /\ UNCHANGED <<order, offers, rider, calls>>
    BY <1>i DEF MarkVerified, Doing
  <2>2. s.o \in Orders /\ order' \in [Orders -> OrderStatus] /\ rider' \in [Riders -> RiderStatus]
    BY <1>1, <1>2, <2>1
  <2>3. delivery[s.o] \in Delivery
    BY <1>1, <1>2
  <2>4. /\ delivery[s.o].status \in PastShop => delivery[s.o].pickupVerified
        /\ delivery[s.o].status = "DELIVERED" => delivery[s.o].deliveryVerified
    BY <1>2 DEF IInv, HandoversVerified, PastShop
  <2>5. CASE s.to = "PICKED_UP"
    <3> DEFINE d == [delivery[s.o] EXCEPT !.pickupVerified = TRUE]
    <3>1. d \in Delivery /\ delivery' = [delivery EXCEPT ![s.o] = d]
      BY <1>1, <1>i, <2>3, <2>5 DEF MarkVerified, Delivery
    <3>2. /\ d.pickupVerified /\ d.deliveryVerified = delivery[s.o].deliveryVerified
          /\ d.status = delivery[s.o].status
      BY <2>3 DEF Delivery
    <3>3. delivery'[s.o] = d
      BY <1>1, <2>2, <3>1
    <3>4. Verified(delivery', job[a])
      BY <1>1, <2>5, <3>2, <3>3 DEF Verified
    <3> HIDE DEF d, s
    <3> QED  BY <1>0, <2>1, <2>2, <2>4, <3>1, <3>2, <3>4, ExecutesOnDelivery
  <2>6. CASE s.to # "PICKED_UP"
    <3> DEFINE d == [delivery[s.o] EXCEPT !.deliveryVerified = TRUE]
    <3>1. d \in Delivery /\ delivery' = [delivery EXCEPT ![s.o] = d]
      BY <1>1, <1>i, <2>3, <2>6 DEF MarkVerified, Delivery
    <3>2. /\ d.deliveryVerified /\ d.pickupVerified = delivery[s.o].pickupVerified
          /\ d.status = delivery[s.o].status
      BY <2>3 DEF Delivery
    <3>3. delivery'[s.o] = d
      BY <1>1, <2>2, <3>1
    <3>4. Verified(delivery', job[a])
      BY <1>1, <2>6, <3>2, <3>3 DEF Verified
    <3> HIDE DEF d, s
    <3> QED  BY <1>0, <2>1, <2>2, <2>4, <3>1, <3>2, <3>4, ExecutesOnDelivery
  <2> QED  BY <2>5, <2>6
<1> HIDE DEF s
<1> QED
  BY <1>a, <1>b, <1>c, <1>d, <1>e, <1>f, <1>g, <1>h, <1>i, <1>j, <1>k, <1>l, <1>m DEF Execute

-----------------------------------------------------------------------------
(* The handlers' first actions *)

(* A handler begins that moves no delivery forward. *)
LEMMA StartsHarmlessly ==
    ASSUME IInv, NEW a \in Actors, NEW p, Start(a, p), Harmless(p),
           calls' \in [Orders -> Nat]
    PROVE  IInv'
BY HarmlessIsSound, Starts

LEMMA RowTypes ==
    ASSUME IInv
    PROVE  /\ \A o \in Orders : delivery[o] \in Delivery /\ delivery[o].rider \in Riders \cup {NoRider}
           /\ \A o \in Orders : offers[o] \in Seq(Offer)
           /\ \A o \in Orders : calls[o] \in Nat
           /\ calls \in [Orders -> Nat]
<1>1. \A o \in Orders : delivery[o] \in Delivery
  BY DEF IInv, TypeOK
<1>2. \A o \in Orders : delivery[o].rider \in Riders \cup {NoRider}
  BY <1>1 DEF Delivery
<1> QED  BY <1>1, <1>2 DEF IInv, TypeOK

LEMMA AnOrderStatement ==
    ASSUME NEW o \in Orders, NEW v \in OrderStatus
    PROVE  DoTo("order", o, v) \in Statement
BY DEF Statement, DoTo, Do, Kinds, Values

LEMMA AStatement ==
    ASSUME NEW o \in Orders, NEW k \in {"release", "dispatch", "verify"},
           NEW v \in {"CANCELLED", "NONE", "PICKED_UP", "DELIVERED"}
    PROVE  DoTo(k, o, v) \in Statement
BY DEF Statement, DoTo, Do, Kinds, Values, DeliveryStatus

LEMMA ReleaseIsHarmless ==
    ASSUME NEW o \in Orders
    PROVE  Harmless(<<DoTo("release", o, "CANCELLED"), DoTo("order", o, "READY_FOR_PICKUP")>>)
<1>1. "READY_FOR_PICKUP" \in OrderStatus
  BY DEF OrderStatus
<1>2. DoTo("release", o, "CANCELLED") \in Statement /\ DoTo("order", o, "READY_FOR_PICKUP") \in Statement
  BY <1>1, AnOrderStatement, AStatement
<1> QED  BY <1>2 DEF Harmless, DoTo, Do

(* What a rejected and an expired offer have in common. *)
LEMMA GivesBackIsHarmless ==
    ASSUME NEW o \in Orders, NEW r \in Riders, NEW e \in Statement, e.do # "advance"
    PROVE  Harmless(<<e, DoTo("release", o, "CANCELLED"), Do("rider", o, r, "ONLINE"),
                      DoTo("order", o, "READY_FOR_PICKUP"), DoTo("dispatch", o, "NONE")>>)
<1>1. "READY_FOR_PICKUP" \in OrderStatus /\ "ONLINE" \in RiderStatus
  BY DEF OrderStatus, RiderStatus
<1>2. Do("rider", o, r, "ONLINE") \in Statement
  BY <1>1, StatementTypes
<1>3. /\ DoTo("release", o, "CANCELLED") \in Statement /\ DoTo("dispatch", o, "NONE") \in Statement
      /\ DoTo("order", o, "READY_FOR_PICKUP") \in Statement
  BY <1>1, AnOrderStatement, AStatement
<1> QED  BY <1>2, <1>3 DEF Harmless, DoTo, Do

LEMMA AutoAssignPreserves ==
    ASSUME IInv, NEW a \in Actors, NEW o \in Orders, AutoAssign(a, o)
    PROVE  IInv'
<1>1. calls' \in [Orders -> Nat]
  BY RowTypes DEF AutoAssign
<1>2. CASE Start(a, <<>>)
  <2>1. Harmless(<<>>)
    BY DEF Harmless
  <2> QED  BY <1>1, <1>2, <2>1, StartsHarmlessly
<1>3. ASSUME NEW r \in Riders, Start(a, <<DoFor("eligible", o, r), DoFor("assignable", o, r)>>)
      PROVE  IInv'
  <2>1. DoFor("eligible", o, r) \in Statement /\ DoFor("assignable", o, r) \in Statement
    BY StatementTypes
  <2>2. Harmless(<<DoFor("eligible", o, r), DoFor("assignable", o, r)>>)
    BY <2>1 DEF Harmless, DoFor, Do
  <2> QED  BY <1>1, <1>3, <2>2, StartsHarmlessly
<1> QED  BY <1>2, <1>3 DEF AutoAssign

LEMMA LetGoIsHarmless ==
    ASSUME IInv, NEW o \in Orders, NEW w \in Riders \cup {NoRider}
    PROVE  Harmless(LetGo(o, w))
<1>1. CASE delivery[o].rider = NoRider
  BY <1>1 DEF LetGo, Harmless
<1>2. CASE delivery[o].rider # NoRider
  <2>1. delivery[o].rider \in Riders
    BY <1>2, RowTypes
  <2>2. "CANCELLED" \in OfferStatus /\ "ONLINE" \in RiderStatus
    BY DEF OfferStatus, RiderStatus
  <2>3. Do("respond", o, w, "CANCELLED") \in Statement
        /\ Do("rider", o, delivery[o].rider, "ONLINE") \in Statement
    BY <2>1, <2>2, StatementTypes
  <2> QED  BY <1>2, <2>3 DEF LetGo, Harmless, Do
<1> QED  BY <1>1, <1>2

LEMMA AdminPreserves ==
    ASSUME IInv, NEW a \in Actors, NEW o \in Orders, AdminRequest(a, o)
    PROVE  IInv'
<1>0. calls \in [Orders -> Nat]
  BY RowTypes
<1>1. ASSUME NEW r \in Riders, Assign(a, o, r) PROVE IInv'
  BY <1>0, <1>1, HarmlessStatements, StartsHarmlessly DEF Assign
<1>2. ASSUME NEW r \in Riders, Reassign(a, o, r) PROVE IInv'
  <2> DEFINE b == <<DoFor("eligible", o, r), DoFor("bind", o, r)>>
  <2>1. Harmless(LetGo(o, delivery[o].rider))
    BY RowTypes, LetGoIsHarmless
  <2>2. Harmless(b)
    <3>1. DoFor("eligible", o, r) \in Statement /\ DoFor("bind", o, r) \in Statement
      BY StatementTypes
    <3> QED  BY <3>1 DEF Harmless, DoFor, Do
  <2>3. Harmless(FinishAssignment(o, r))
    BY HarmlessStatements
  <2>4. Start(a, LetGo(o, delivery[o].rider) \o b \o FinishAssignment(o, r)) /\ calls' = calls
    BY <1>2 DEF Reassign
  <2> HIDE DEF b
  <2>5. Harmless(LetGo(o, delivery[o].rider) \o b \o FinishAssignment(o, r))
    BY <2>1, <2>2, <2>3, HarmlessConcat
  <2> QED  BY <1>0, <2>4, <2>5, StartsHarmlessly
<1>3. CASE Unassign(a, o)
  <2> DEFINE b == <<DoTo("release", o, "CANCELLED"), DoTo("order", o, "READY_FOR_PICKUP")>>
  <2>1. Harmless(LetGo(o, NoRider))
    BY LetGoIsHarmless
  <2>2. Harmless(b)
    BY ReleaseIsHarmless
  <2>3. Start(a, LetGo(o, NoRider) \o b) /\ calls' = calls
    BY <1>3 DEF Unassign
  <2> HIDE DEF b
  <2> QED  BY <1>0, <2>1, <2>2, <2>3, HarmlessConcat, StartsHarmlessly
<1>4. CASE CancelByAdmin(a, o)
  <2>1. DoTo("order", o, "CANCELLED_BY_ADMIN") \in Statement
    <3>1. "CANCELLED_BY_ADMIN" \in OrderStatus  BY DEF OrderStatus
    <3> QED  BY <3>1, AnOrderStatement
  <2>2. Harmless(<<DoTo("order", o, "CANCELLED_BY_ADMIN")>>)
    BY <2>1 DEF Harmless, DoTo, Do
  <2> QED  BY <1>0, <1>4, <2>2, StartsHarmlessly DEF CancelByAdmin
<1> QED  BY <1>1, <1>2, <1>3, <1>4 DEF AdminRequest

LEMMA CronPreserves ==
    ASSUME IInv, NEW a \in Actors, CronTick(a)
    PROVE  IInv'
<1>0. PICK o \in Orders : \E n \in 1..Len(offers[o]) : ProcessPendingOffers(a, o, n)
  BY DEF CronTick
<1>1. PICK n \in 1..Len(offers[o]) : ProcessPendingOffers(a, o, n)
  BY <1>0
<1>2. calls \in [Orders -> Nat] /\ offers[o] \in Seq(Offer)
  BY RowTypes
<1>3. n \in Nat /\ offers[o][n].rider \in Riders
  <2>1. offers[o][n] \in Offer
    BY <1>2
  <2> QED  BY <1>2, <2>1 DEF Offer
<1> DEFINE e == [DoTo("expire", o, "EXPIRED") EXCEPT !.n = n]
           p == <<e, DoTo("release", o, "CANCELLED"),
                  Do("rider", o, offers[o][n].rider, "ONLINE"),
                  DoTo("order", o, "READY_FOR_PICKUP"), DoTo("dispatch", o, "NONE")>>
<1>4. Harmless(p)
  <2>1. e \in Statement /\ e.do = "expire"
    BY <1>3, StatementTypes DEF DoTo, Do
  <2> HIDE DEF e
  <2> QED  BY <1>3, <2>1, GivesBackIsHarmless
<1>5. Start(a, p) /\ calls' = calls
  BY <1>1 DEF ProcessPendingOffers
<1> HIDE DEF p
<1> QED  BY <1>2, <1>4, <1>5, StartsHarmlessly

(* The rider's statements that move his delivery. *)
LEMMA Advances ==
    ASSUME NEW o \in Orders, NEW r \in Riders
    PROVE  /\ \A v \in DeliveryStatus : DoTo("advance", o, v) \in Statement
           /\ DoTo("order", o, "PICKED_UP") \in Statement
           /\ DoTo("order", o, "DELIVERED") \in Statement
           /\ Do("rider", o, r, "ONLINE") \in Statement
           /\ {"ACCEPTED", "ARRIVED_AT_STORE", "PICKED_UP", "ARRIVED_AT_CUSTOMER", "DELIVERED"}
                \subseteq DeliveryStatus
<1>1. "PICKED_UP" \in OrderStatus /\ "DELIVERED" \in OrderStatus /\ "ONLINE" \in RiderStatus
  BY DEF OrderStatus, RiderStatus
<1>2. DoTo("order", o, "PICKED_UP") \in Statement /\ DoTo("order", o, "DELIVERED") \in Statement
  BY <1>1, AnOrderStatement
<1>3. {"ACCEPTED", "ARRIVED_AT_STORE", "PICKED_UP", "ARRIVED_AT_CUSTOMER", "DELIVERED"}
        \subseteq DeliveryStatus
  BY DEF DeliveryStatus
<1> QED  BY <1>1, <1>2, <1>3, StatementTypes

LEMMA TwoParts ==
    ASSUME NEW x, NEW y, NEW z
    PROVE  <<x, y, z>> = <<x>> \o <<y, z>>
OBVIOUS

(* A delivery behind whose `to` no code is asked, or whose code is known. *)
Known(o, to) ==
    /\ to \in PastShop => delivery[o].pickupVerified
    /\ to = "DELIVERED" => delivery[o].deliveryVerified

LEMMA StartsWithAdvance ==
    ASSUME IInv, NEW a \in Actors, NEW o \in Orders, NEW to \in DeliveryStatus, Known(o, to),
           NEW q, Harmless(q), Start(a, <<DoTo("advance", o, to)>> \o q), UNCHANGED calls
    PROVE  IInv'
<1> DEFINE h == <<DoTo("advance", o, to)>>
           p == h \o q
<1>1. h \in Seq(Statement) /\ Len(h) = 1 /\ h[1] = DoTo("advance", o, to) /\ q \in Seq(Statement)
  <2>1. DoTo("advance", o, to) \in Statement
    BY DEF Statement, DoTo, Do, Kinds, Values
  <2> QED  BY <2>1 DEF Harmless
<1> HIDE DEF h
<1>2. /\ p \in Seq(Statement) /\ Len(p) = 1 + Len(q) /\ Len(q) \in Nat
      /\ \A i \in 1..Len(p) : p[i] = IF i <= 1 THEN h[i] ELSE q[i - 1]
  <2>1. /\ p \in Seq(Statement) /\ Len(p) = Len(h) + Len(q) /\ Len(q) \in Nat
        /\ \A i \in 1..(Len(h) + Len(q)) : p[i] = IF i <= Len(h) THEN h[i] ELSE q[i - Len(h)]
    <3>1. h \in Seq(Statement) /\ q \in Seq(Statement)
      BY <1>1
    <3> QED  BY <3>1, ConcatProperties
  <2> HIDE DEF p
  <2> QED  BY <1>1, <2>1
<1> HIDE DEF p
<1>3. ASSUME NEW i \in 1..Len(p) PROVE SoundAt(delivery, p, i)
  <2>1. CASE i = 1
    <3>1. p[1].o = o /\ p[1].to = to
      BY <1>1, <1>2, <2>1 DEF DoTo, Do
    <3> QED  BY <2>1, <3>1 DEF SoundAt, Known
  <2>2. CASE i # 1
    <3>1. i - 1 \in 1..Len(q) /\ ~(i <= 1)
      BY <1>2, <2>2
    <3>2. p[i].do # "advance"
      BY <1>2, <3>1 DEF Harmless
    <3> QED  BY <3>2 DEF SoundAt
  <2> QED  BY <2>1, <2>2
<1>4. Sound(delivery, p) /\ calls' \in [Orders -> Nat]
  BY <1>3, RowTypes DEF Sound
<1>5. Start(a, p)
  BY DEF p, h
<1> QED  BY <1>2, <1>4, <1>5, Starts

LEMMA StartsWithVerification ==
    ASSUME IInv, NEW a \in Actors, NEW o \in Orders, NEW to \in {"PICKED_UP", "DELIVERED"},
           to = "DELIVERED" => delivery[o].pickupVerified,
           NEW q, Harmless(q), UNCHANGED calls,
           Start(a, <<DoTo("verify", o, to), DoTo("advance", o, to)>> \o q)
    PROVE  IInv'
<1> DEFINE h == <<DoTo("verify", o, to), DoTo("advance", o, to)>>
           p == h \o q
<1>1. /\ h \in Seq(Statement) /\ Len(h) = 2 /\ q \in Seq(Statement)
      /\ h[1] = DoTo("verify", o, to) /\ h[2] = DoTo("advance", o, to)
  <2>1. DoTo("verify", o, to) \in Statement
    BY AStatement
  <2>2. DoTo("advance", o, to) \in Statement
    BY DEF Statement, DoTo, Do, Kinds, Values, DeliveryStatus
  <2> QED  BY <2>1, <2>2 DEF Harmless
<1> HIDE DEF h
<1>2. /\ p \in Seq(Statement) /\ Len(p) = 2 + Len(q) /\ Len(q) \in Nat
      /\ \A i \in 1..Len(p) : p[i] = IF i <= 2 THEN h[i] ELSE q[i - 2]
  <2>1. /\ p \in Seq(Statement) /\ Len(p) = Len(h) + Len(q) /\ Len(q) \in Nat
        /\ \A i \in 1..(Len(h) + Len(q)) : p[i] = IF i <= Len(h) THEN h[i] ELSE q[i - Len(h)]
    <3>1. h \in Seq(Statement) /\ q \in Seq(Statement)
      BY <1>1
    <3> QED  BY <3>1, ConcatProperties
  <2> HIDE DEF p
  <2> QED  BY <1>1, <2>1
<1> HIDE DEF p
<1>3. ASSUME NEW i \in 1..Len(p) PROVE SoundAt(delivery, p, i)
  <2>0. p[1].do = "verify" /\ p[1].o = o /\ p[1].to = to
    <3>1. 1 \in 1..Len(p) /\ 1 <= 2
      BY <1>2
    <3> QED  BY <1>1, <1>2, <3>1 DEF DoTo, Do
  <2>1. CASE i = 1
    BY <2>0, <2>1 DEF SoundAt
  <2>2. CASE i = 2
    <3>1. p[2].o = o /\ p[2].to = to
      BY <1>1, <1>2, <2>2 DEF DoTo, Do
    <3> QED  BY <2>0, <2>2, <3>1 DEF SoundAt, Verifies
  <2>3. CASE i # 1 /\ i # 2
    <3>1. i - 2 \in 1..Len(q) /\ ~(i <= 2)
      BY <1>2, <2>3
    <3>2. p[i].do # "advance"
      BY <1>2, <3>1 DEF Harmless
    <3> QED  BY <3>2 DEF SoundAt
  <2> QED  BY <2>1, <2>2, <2>3
<1>4. Sound(delivery, p) /\ calls' \in [Orders -> Nat]
  BY <1>3, RowTypes DEF Sound
<1>5. Start(a, p)
  BY DEF p, h
<1> QED  BY <1>2, <1>4, <1>5, Starts

LEMMA RiderPreserves ==
    ASSUME IInv, NEW r \in Riders, NEW o \in Orders, RiderRequest(r, o)
    PROVE  IInv'
<1>0. r \in Actors /\ calls \in [Orders -> Nat]
  BY RowTypes DEF Actors
<1>1. /\ DoTo("order", o, "PICKED_UP") \in Statement /\ DoTo("order", o, "DELIVERED") \in Statement
      /\ Do("rider", o, r, "ONLINE") \in Statement
  BY Advances
<1>2. /\ Harmless(<<DoTo("order", o, "PICKED_UP")>>)
      /\ Harmless(<<DoTo("order", o, "DELIVERED"), Do("rider", o, r, "ONLINE")>>)
      /\ Harmless(<<>>)
  BY <1>1 DEF Harmless, DoTo, Do
<1>3. delivery[o].status \in PastShop => delivery[o].pickupVerified
  BY DEF IInv, HandoversVerified, PastShop
<1>a. CASE AcceptDelivery(r, o)
  <2> DEFINE q == <<Do("respond", o, r, "ACCEPTED"), Do("rider", o, r, "ON_DELIVERY")>>
  <2>1. Harmless(q)
    <3>1. Do("respond", o, r, "ACCEPTED") \in Statement /\ Do("rider", o, r, "ON_DELIVERY") \in Statement
      <4>1. "ACCEPTED" \in OfferStatus /\ "ON_DELIVERY" \in RiderStatus
        BY DEF OfferStatus, RiderStatus
      <4> QED  BY <4>1, StatementTypes
    <3> QED  BY <3>1 DEF Harmless, Do
  <2>2. Start(r, <<DoTo("advance", o, "ACCEPTED")>> \o q) /\ UNCHANGED calls
    <3>1. <<DoTo("advance", o, "ACCEPTED")>> \o q
            = <<DoTo("advance", o, "ACCEPTED"), Do("respond", o, r, "ACCEPTED"),
                Do("rider", o, r, "ON_DELIVERY")>>
      BY TwoParts DEF q
    <3> QED  BY <1>a, <3>1 DEF AcceptDelivery
  <2>3. Known(o, "ACCEPTED") /\ "ACCEPTED" \in DeliveryStatus
    BY DEF Known, PastShop, DeliveryStatus
  <2> HIDE DEF q
  <2> QED  BY <1>0, <2>1, <2>2, <2>3, StartsWithAdvance
<1>b. CASE RejectOffer(r, o)
  <2>1. Do("respond", o, r, "REJECTED") \in Statement /\ Do("respond", o, r, "REJECTED").do # "advance"
    <3>1. "REJECTED" \in OfferStatus  BY DEF OfferStatus
    <3> QED  BY <3>1, StatementTypes DEF Do
  <2> QED  BY <1>0, <1>b, <2>1, GivesBackIsHarmless, StartsHarmlessly DEF RejectOffer
<1>c. CASE Arrive(r, o)
  <2>1. ASSUME NEW v \in DeliveryStatus, Known(o, v), Start(r, <<DoTo("advance", o, v)>>)
        PROVE  IInv'
    <3>1. <<DoTo("advance", o, v)>> \o <<>> = <<DoTo("advance", o, v)>>
      OBVIOUS
    <3>2. UNCHANGED calls
      BY <1>c DEF Arrive
    <3> QED  BY <1>0, <1>2, <2>1, <3>1, <3>2, StartsWithAdvance
  <2>2. Known(o, "ARRIVED_AT_STORE") /\ "ARRIVED_AT_STORE" \in DeliveryStatus
    BY DEF Known, PastShop, DeliveryStatus
  <2>3. ASSUME delivery[o].status = "PICKED_UP"
        PROVE  Known(o, "ARRIVED_AT_CUSTOMER") /\ "ARRIVED_AT_CUSTOMER" \in DeliveryStatus
    BY <1>3, <2>3 DEF Known, PastShop, DeliveryStatus
  <2> QED  BY <1>c, <2>1, <2>2, <2>3 DEF Arrive
<1>d. ASSUME Known(o, "PICKED_UP"), Start(r, PickUp(o)), UNCHANGED calls PROVE IInv'
  <2>1. PickUp(o) = <<DoTo("advance", o, "PICKED_UP")>> \o <<DoTo("order", o, "PICKED_UP")>>
    BY DEF PickUp
  <2> QED  BY <1>0, <1>2, <1>d, <2>1, Advances, StartsWithAdvance
<1>e. ASSUME Known(o, "DELIVERED"), Start(r, Complete(o, r)), UNCHANGED calls PROVE IInv'
  <2>1. Complete(o, r) = <<DoTo("advance", o, "DELIVERED")>>
                           \o <<DoTo("order", o, "DELIVERED"), Do("rider", o, r, "ONLINE")>>
    BY DEF Complete
  <2> QED  BY <1>0, <1>2, <1>e, <2>1, Advances, StartsWithAdvance
<1>f. CASE VerifyPickup(r, o)
  <2>1. UNCHANGED calls
    BY <1>f DEF VerifyPickup
  <2>2. CASE delivery[o].pickupVerified
    <3>1. <<>> \o PickUp(o) = PickUp(o)
      BY DEF PickUp
    <3>2. Start(r, PickUp(o)) /\ Known(o, "PICKED_UP")
      BY <1>f, <2>2, <3>1 DEF VerifyPickup, Known
    <3> QED  BY <1>d, <2>1, <3>2
  <2>3. CASE ~delivery[o].pickupVerified
    <3>1. <<DoTo("verify", o, "PICKED_UP")>> \o PickUp(o)
            = <<DoTo("verify", o, "PICKED_UP"), DoTo("advance", o, "PICKED_UP")>>
                \o <<DoTo("order", o, "PICKED_UP")>>
      BY DEF PickUp
    <3>2. Start(r, <<DoTo("verify", o, "PICKED_UP")>> \o PickUp(o))
      BY <1>f, <2>3 DEF VerifyPickup
    <3> QED  BY <1>0, <1>2, <2>1, <3>1, <3>2, StartsWithVerification
  <2> QED  BY <2>2, <2>3
<1>g. CASE PickedUp(r, o)
  BY <1>d, <1>g DEF PickedUp, Known
<1>h. CASE VerifyDelivery(r, o)
  <2>1. UNCHANGED calls /\ delivery[o].pickupVerified
    BY <1>3, <1>h DEF VerifyDelivery, PastShop
  <2>2. CASE delivery[o].deliveryVerified
    <3>1. <<>> \o Complete(o, r) = Complete(o, r)
      BY DEF Complete
    <3>2. Start(r, Complete(o, r)) /\ Known(o, "DELIVERED")
      BY <1>h, <2>1, <2>2, <3>1 DEF VerifyDelivery, Known
    <3> QED  BY <1>e, <2>1, <3>2
  <2>3. CASE ~delivery[o].deliveryVerified
    <3>1. <<DoTo("verify", o, "DELIVERED")>> \o Complete(o, r)
            = <<DoTo("verify", o, "DELIVERED"), DoTo("advance", o, "DELIVERED")>>
                \o <<DoTo("order", o, "DELIVERED"), Do("rider", o, r, "ONLINE")>>
      BY DEF Complete
    <3>2. Start(r, <<DoTo("verify", o, "DELIVERED")>> \o Complete(o, r))
      BY <1>h, <2>3 DEF VerifyDelivery
    <3> QED  BY <1>0, <1>2, <2>1, <3>1, <3>2, StartsWithVerification
  <2> QED  BY <2>2, <2>3
<1>i. CASE MarkDelivered(r, o)
  <2>1. Known(o, "DELIVERED") /\ Start(r, Complete(o, r)) /\ UNCHANGED calls
    BY <1>3, <1>i DEF MarkDelivered, PastShop, Known
  <2> QED  BY <1>e, <2>1
<1>j. CASE MarkFailed(r, o)
  <2>1. Do("fail", o, r, "FAILED") \in Statement
    BY StatementTypes
  <2>2. Harmless(<<Do("fail", o, r, "FAILED")>>)
    BY <2>1 DEF Harmless, Do
  <2> QED  BY <1>0, <1>j, <2>2, StartsHarmlessly DEF MarkFailed
<1> QED
  BY <1>a, <1>b, <1>c, <1>f, <1>g, <1>h, <1>i, <1>j DEF RiderRequest

LEMMA UpdateStatusPreserves ==
    ASSUME IInv, NEW r \in Riders, UpdateStatus(r)
    PROVE  IInv'
<1>1. faults' \in 0..MaxFaults
  BY BoundAssumption DEF UpdateStatus, IInv, TypeOK
<1>2. rider' \in [Riders -> RiderStatus]
  BY DEF UpdateStatus, IInv, TypeOK, RiderStatus
<1>3. TypeOK'
  BY <1>1, <1>2 DEF UpdateStatus, IInv, TypeOK
<1> QED  BY <1>3 DEF UpdateStatus, IInv, HandoversVerified

LEMMA CrashPreserves ==
    ASSUME IInv, NEW a \in Actors, Crash(a)
    PROVE  IInv'
<1>1. faults' \in 0..MaxFaults
  BY BoundAssumption DEF Crash, IInv, TypeOK
<1> QED  BY <1>1, Ends DEF Crash

-----------------------------------------------------------------------------
(* Theorems *)

LEMMA InitIInv == Init => IInv
<1> SUFFICES ASSUME Init PROVE IInv
  OBVIOUS
<1>1. TypeOK
  <2>1. 0 \in 0..MaxFaults
    BY BoundAssumption
  <2>2. [status |-> "NONE", rider |-> NoRider, pickupVerified |-> FALSE, deliveryVerified |-> FALSE]
          \in Delivery
    BY DEF Delivery, DeliveryStatus
  <2> QED  BY <2>1, <2>2 DEF Init, TypeOK, OrderStatus, RiderStatus
<1>2. HandoversVerified
  BY DEF Init, HandoversVerified
<1>3. \A a \in Actors : Sound(delivery, job[a])
  BY DEF Init, Sound
<1> QED  BY <1>1, <1>2, <1>3 DEF IInv

LEMMA NextIInv == IInv /\ [Next]_vars => IInv'
<1> SUFFICES ASSUME IInv, [Next]_vars PROVE IInv'
  OBVIOUS
<1>1. CASE UNCHANGED vars
  BY <1>1 DEF vars, IInv, TypeOK, HandoversVerified, Sound, SoundAt
<1>2. ASSUME NEW a \in Actors, Execute(a) PROVE IInv'
  BY <1>2, ExecutePreserves
<1>3. ASSUME NEW a \in Actors, Crash(a) PROVE IInv'
  BY <1>3, CrashPreserves
<1>4. ASSUME NEW r \in Riders, UpdateStatus(r) PROVE IInv'
  BY <1>4, UpdateStatusPreserves
<1>5. ASSUME NEW r \in Riders, NEW o \in Orders, RiderRequest(r, o) PROVE IInv'
  BY <1>5, RiderPreserves
<1>6. ASSUME NEW a \in Admins, NEW o \in Orders, AdminRequest(a, o) PROVE IInv'
  BY <1>6, AdminPreserves DEF Actors
<1>7. ASSUME NEW a \in Crons, CronTick(a) PROVE IInv'
  BY <1>7, CronPreserves DEF Actors
<1>8. ASSUME NEW a \in Workers, NEW o \in Orders, AutoAssign(a, o) PROVE IInv'
  BY <1>8, AutoAssignPreserves DEF Actors
<1> QED  BY <1>1, <1>2, <1>3, <1>4, <1>5, <1>6, <1>7, <1>8 DEF Next

(* Every row of the four tables, and every statement that a handler has    *)
(* still to execute, has the fields and values of the schema.              *)
THEOREM TypeCorrect == Spec => []TypeOK
<1>1. IInv => TypeOK
  BY DEF IInv
<1> QED  BY <1>1, InitIInv, NextIInv, PTL DEF Spec

(* No delivery gets past the shop without the pickup code, nor is it       *)
(* completed without the buyer's code, for any number of orders, riders,   *)
(* administrators and crons whose handlers overlap, die, or overwrite each *)
(* other's rows.                                                           *)
THEOREM HandoversAlwaysVerified == Spec => []HandoversVerified
<1>1. IInv => HandoversVerified
  BY DEF IInv
<1> QED  BY <1>1, InitIInv, NextIInv, PTL DEF Spec

-----------------------------------------------------------------------------
(* One delivery for each rider *)

(* As long as the history is calm, only one handler is at work, so what it *)
(* has checked stays true until it writes.                                 *)
OneHandler == \A a, b \in Actors : ~Idle(a) /\ ~Idle(b) => a = b

Free(r) == \A o \in Orders : ~(delivery[o].rider = r /\ delivery[o].status \in Counted)
AtMostOne == \A r \in Riders : \A p, q \in Orders :
                 /\ delivery[p].rider = r /\ delivery[p].status \in Counted
                 /\ delivery[q].rider = r /\ delivery[q].status \in Counted
                 => p = q

(* A rider is bound right after he was found free, and a delivery is       *)
(* advanced to a counted status only from one.                             *)
Binds(p, i) ==
    p[i].do \in {"bind", "create", "assignable"} =>
        \/ i = 1 /\ Free(p[i].r)
        \/ i > 1 /\ p[i - 1].do = "eligible" /\ p[i - 1].r = p[i].r
KeepsCounted(p, i) ==
    p[i].do = "advance" /\ p[i].to \in Counted =>
        /\ delivery[p[i].o].status \in Counted
        /\ i > 1 => i = 2 /\ p[1].do = "verify"
Bindings(p) == \A i \in 1..Len(p) : Binds(p, i) /\ KeepsCounted(p, i)

BindInv == IInv /\ (calm => OneHandler /\ AtMostOne /\ \A a \in Actors : Bindings(job[a]))

(* The calm beginning of a handler: nobody else is at work. *)
LEMMA CalmStart ==
    ASSUME IInv, NEW a \in Actors, NEW p, Start(a, p), calm'
    PROVE  /\ Quiet /\ calm /\ UNCHANGED <<order, delivery, offers, rider>>
           /\ job'[a] = p /\ \A b \in Actors : b # a => job'[b] = <<>>
           /\ OneHandler'
<1>1. Quiet /\ calm /\ UNCHANGED <<order, delivery, offers, rider>>
      /\ job' = [job EXCEPT ![a] = p]
  BY DEF Start
<1>2. job \in [Actors -> Seq(Statement)]
  BY DEF IInv, TypeOK
<1>3. job'[a] = p /\ \A b \in Actors : b # a => job'[b] = <<>>
  BY <1>1, <1>2 DEF Quiet, Idle
<1> QED  BY <1>1, <1>3 DEF OneHandler, Idle

LEMMA BindStart ==
    ASSUME BindInv, NEW a \in Actors, NEW p, Start(a, p), IInv', Quiet /\ calm => Bindings(p)
    PROVE  BindInv'
<1>1. SUFFICES ASSUME calm' PROVE OneHandler' /\ AtMostOne' /\ \A b \in Actors : Bindings(job[b])'
  BY DEF BindInv
<1>2. /\ Quiet /\ calm /\ UNCHANGED <<order, delivery, offers, rider>>
      /\ job'[a] = p /\ \A b \in Actors : b # a => job'[b] = <<>>
      /\ OneHandler'
  BY <1>1, CalmStart DEF BindInv
<1>3. AtMostOne'
  BY <1>2 DEF BindInv, AtMostOne
<1>4. Bindings(p) /\ Bindings(job[a])'
  BY <1>2 DEF Bindings, Binds, KeepsCounted, Free
<1>5. ASSUME NEW b \in Actors PROVE Bindings(job[b])'
  <2>1. CASE b = a    BY <1>4, <2>1
  <2>2. CASE b # a
    <3>1. job'[b] = <<>>  BY <1>2, <2>2
    <3> QED  BY <3>1 DEF Bindings
  <2> QED  BY <2>1, <2>2
<1> QED  BY <1>2, <1>3, <1>5

(* A program that binds nobody. *)
Neutral(p) ==
    \A i \in 1..Len(p) : p[i].do \notin {"bind", "create", "assignable", "advance"}

LEMMA NeutralBinds == ASSUME NEW p, Neutral(p) PROVE Bindings(p)
BY DEF Neutral, Bindings, Binds, KeepsCounted

LEMMA NeutralConcat ==
    ASSUME NEW p \in Seq(Statement), NEW q \in Seq(Statement), Neutral(p), Neutral(q)
    PROVE  Neutral(p \o q)
<1>1. /\ Len(p \o q) = Len(p) + Len(q) /\ Len(p) \in Nat /\ Len(q) \in Nat
      /\ \A i \in 1..(Len(p) + Len(q)) : (p \o q)[i] = IF i <= Len(p) THEN p[i] ELSE q[i - Len(p)]
  BY ConcatProperties
<1>2. ASSUME NEW i \in 1..Len(p \o q)
      PROVE  (p \o q)[i].do \notin {"bind", "create", "assignable", "advance"}
  <2>1. CASE i <= Len(p)
    <3>1. i \in 1..Len(p)
      BY <1>1, <2>1
    <3> QED  BY <1>1, <2>1, <3>1 DEF Neutral
  <2>2. CASE i > Len(p)
    <3>1. i - Len(p) \in 1..Len(q) /\ ~(i <= Len(p))
      BY <1>1, <2>2
    <3> QED  BY <1>1, <3>1 DEF Neutral
  <2> QED  BY <1>1, <2>1, <2>2
<1> QED  BY <1>2 DEF Neutral

LEMMA BindTail ==
    ASSUME BindInv, calm, NEW a \in Actors, job[a] # <<>>,
           Now(a).do = "eligible" => \A r \in Riders : r = Now(a).r => Free(r)',
           Now(a).do = "verify" =>
               \A o \in Orders : delivery[o].status \in Counted => delivery'[o].status \in Counted
    PROVE  \A p \in Seq(Statement) : p = Tail(job[a]) => Bindings(p)'
<1> TAKE t \in Seq(Statement)
<1> HAVE t = Tail(job[a])
<1> DEFINE p == job[a]
<1>1. p \in Seq(Statement) /\ Bindings(p) /\ Now(a) = p[1]
  BY NowTypes DEF BindInv, IInv, TypeOK
<1>2. /\ Len(t) = Len(p) - 1 /\ Len(p) \in Nat /\ \A i \in 1..Len(t) : t[i] = p[i + 1]
  BY <1>1, HeadTailProperties
<1> SUFFICES ASSUME NEW i \in 1..Len(t) PROVE (Binds(t, i) /\ KeepsCounted(t, i))'
  BY DEF Bindings
<1>3. i + 1 \in 1..Len(p) /\ i + 1 > 1 /\ t[i] = p[i + 1] /\ t[i] \in Statement
      /\ (i + 1) - 1 = i /\ (i > 1 => t[i - 1] = p[i])
  <2>1. i > 1 => i - 1 \in 1..Len(t) /\ (i - 1) + 1 = i
    BY <1>2
  <2> QED  BY <1>2, <2>1
<1>4. Binds(p, i + 1) /\ KeepsCounted(p, i + 1)
  BY <1>1, <1>3 DEF Bindings
<1>5. Binds(t, i)'
  <2> SUFFICES ASSUME t[i].do \in {"bind", "create", "assignable"}
               PROVE  \/ i = 1 /\ Free(t[i].r)'
                      \/ i > 1 /\ t[i - 1].do = "eligible" /\ t[i - 1].r = t[i].r
    BY DEF Binds, Free
  <2>1. p[i].do = "eligible" /\ p[i].r = t[i].r
    BY <1>3, <1>4 DEF Binds
  <2>2. CASE i = 1
    <3>1. Now(a).do = "eligible" /\ Now(a).r = t[i].r /\ t[i].r \in Riders
      BY <1>1, <1>3, <2>1, <2>2 DEF Statement
    <3>2. Free(t[i].r)'
      BY <3>1 DEF Free
    <3> QED  BY <2>2, <3>2
  <2>3. CASE i > 1
    BY <1>3, <2>1, <2>3
  <2> QED  BY <2>2, <2>3
<1>6. KeepsCounted(t, i)'
  <2> SUFFICES ASSUME t[i].do = "advance", t[i].to \in Counted
               PROVE  delivery'[t[i].o].status \in Counted /\ ~(i > 1)
    BY DEF KeepsCounted, Counted, Active
  <2>1. delivery[t[i].o].status \in Counted /\ i + 1 = 2 /\ p[1].do = "verify"
    BY <1>3, <1>4 DEF KeepsCounted
  <2>2. t[i].o \in Orders
    BY <1>3, StatementFields
  <2> QED  BY <1>1, <2>1, <2>2
<1> QED  BY <1>5, <1>6

(* A handler executes a statement. *)
LEMMA BindProceed ==
    ASSUME BindInv, NEW a \in Actors, job[a] # <<>>, Proceed(a), IInv',
           calm => AtMostOne',
           Now(a).do = "eligible" => \A r \in Riders : r = Now(a).r => Free(r)',
           Now(a).do = "verify" =>
               \A o \in Orders : delivery[o].status \in Counted => delivery'[o].status \in Counted
    PROVE  BindInv'
<1>1. SUFFICES ASSUME calm' PROVE OneHandler' /\ AtMostOne' /\ \A b \in Actors : Bindings(job[b])'
  BY DEF BindInv
<1>2. calm /\ OneHandler /\ job' = [job EXCEPT ![a] = Tail(@)]
  BY <1>1 DEF Proceed, BindInv
<1>3. job \in [Actors -> Seq(Statement)] /\ job' \in [Actors -> Seq(Statement)]
  BY DEF BindInv, IInv, TypeOK
<1>4. job'[a] = Tail(job[a]) /\ job'[a] \in Seq(Statement)
      /\ \A b \in Actors : b # a => job'[b] = <<>>
  <2>1. \A b \in Actors : b # a => job[b] = <<>>
    BY <1>2 DEF OneHandler, Idle
  <2> QED  BY <1>2, <1>3, <2>1
<1>5. OneHandler'
  BY <1>4 DEF OneHandler, Idle
<1>6. ASSUME NEW b \in Actors PROVE Bindings(job[b])'
  <2>1. CASE b = a
    <3>1. \A p \in Seq(Statement) : p = Tail(job[a]) => Bindings(p)'
      BY <1>2, BindTail
    <3>2. PICK p \in Seq(Statement) : p = Tail(job[a])
      BY <1>4
    <3>3. Bindings(p)' /\ job'[b] = p
      BY <1>4, <2>1, <3>1, <3>2
    <3> QED  BY <3>3 DEF Bindings, Binds, KeepsCounted, Free
  <2>2. CASE b # a
    <3>1. job'[b] = <<>>  BY <1>4, <2>2
    <3> QED  BY <3>1 DEF Bindings
  <2> QED  BY <2>1, <2>2
<1> QED  BY <1>2, <1>5, <1>6

(* A handler gives up: the history is calm no longer. *)
LEMMA BindCalmEnds == ASSUME IInv', calm' = FALSE PROVE BindInv'
BY DEF BindInv

(* A statement after which every counted delivery was one before, of the   *)
(* same rider.                                                             *)
LEMMA FewerCounted ==
    ASSUME IInv, AtMostOne,
           \A o \in Orders : delivery'[o].status \in Counted =>
               delivery[o].status \in Counted /\ delivery'[o].rider = delivery[o].rider
    PROVE  AtMostOne'
BY DEF AtMostOne

LEMMA OneAndThree ==
    ASSUME NEW w, NEW x, NEW y, NEW z
    PROVE  <<w>> \o <<x, y, z>> = <<w, x, y, z>>
<1> DEFINE S == {w, x, y, z}
           p == <<w>> \o <<x, y, z>>
           q == <<w, x, y, z>>
<1>1. p \in Seq(S) /\ q \in Seq(S) /\ Len(p) = 4 /\ Len(q) = 4
  OBVIOUS
<1>2. \A i \in 1..4 : p[i] = q[i]
  OBVIOUS
<1> HIDE DEF p, q, S
<1>3. p = q
  BY <1>1, <1>2, SeqEqual
<1> QED  BY <1>3 DEF p, q

LEMMA BindExecute ==
    ASSUME BindInv, NEW a \in Actors, Execute(a)
    PROVE  BindInv'
<1> DEFINE s == Now(a)
<1>0. IInv /\ IInv' /\ job[a] # <<>>
  <2>1. job[a] # <<>>
    BY DEF Execute, CheckEligible, CheckAssignable, BindRider, ReleaseDelivery,
       CreateAssignmentRecord, RespondToOffers, ExpireOffer, AdvanceDelivery, MarkVerified,
       Transition, UpdateRider, FailDelivery, CallAutoAssign, Doing
  <2> QED  BY <2>1, ExecutePreserves DEF BindInv
<1>1. /\ s \in Statement /\ s = job[a][1] /\ 1 \in 1..Len(job[a])
      /\ delivery \in [Orders -> Delivery] /\ s.o \in Orders
      /\ job \in [Actors -> Seq(Statement)]
  <2>1. s \in Statement /\ s = job[a][1] /\ Len(job[a]) >= 1 /\ delivery \in [Orders -> Delivery]
    BY <1>0, NowTypes
  <2>2. job \in [Actors -> Seq(Statement)] /\ Len(job[a]) \in Nat
    BY <1>0 DEF IInv, TypeOK
  <2> QED  BY <2>1, <2>2, StatementFields
<1>2. calm => AtMostOne /\ Bindings(job[a])
  BY DEF BindInv
<1>3. ASSUME UNCHANGED delivery PROVE AtMostOne => AtMostOne'
  BY <1>3 DEF AtMostOne
<1>4. CASE Give(a)
  BY <1>0, <1>4, BindCalmEnds DEF Give
<1>5. ASSUME Proceed(a), UNCHANGED delivery, s.do \notin {"eligible", "verify"} PROVE BindInv'
  BY <1>0, <1>2, <1>3, <1>5, BindProceed
<1>a. CASE CheckEligible(a) /\ ~Give(a)
  <2>1. Eligible(s.r) /\ Proceed(a) /\ UNCHANGED delivery /\ s.do = "eligible"
    BY <1>a DEF CheckEligible, Doing
  <2>2. \A r \in Riders : r = Now(a).r => Free(r)'
    BY <2>1 DEF Eligible, Free
  <2> QED  BY <1>0, <1>2, <1>3, <2>1, <2>2, BindProceed
<1>b. CASE CheckAssignable(a) /\ ~Give(a)
  <2> DEFINE k == IF delivery[s.o].status = "NONE" THEN "create" ELSE "bind"
             p == <<DoFor(k, s.o, s.r)>> \o FinishAssignment(s.o, s.r)
  <2>1. /\ job' = [job EXCEPT ![a] = p] /\ UNCHANGED <<calm, delivery>>
        /\ s.do = "assignable"
    BY <1>b DEF CheckAssignable, Doing
  <2>2. SUFFICES ASSUME calm PROVE OneHandler' /\ AtMostOne' /\ \A b \in Actors : Bindings(job[b])'
    BY <1>0, <2>1 DEF BindInv
  <2>3. job'[a] = p /\ \A b \in Actors : b # a => job'[b] = <<>>
    <3>1. \A b \in Actors : b # a => job[b] = <<>>
      BY <1>0, <2>2 DEF BindInv, OneHandler, Idle
    <3> QED  BY <1>1, <2>1, <3>1
  <2>4. OneHandler' /\ AtMostOne'
    BY <1>2, <1>3, <2>1, <2>2, <2>3 DEF OneHandler, Idle
  <2>5. Free(s.r)
    BY <1>1, <1>2, <2>1, <2>2 DEF Bindings, Binds
  <2>6. p = <<DoFor(k, s.o, s.r), DoFor("offer", s.o, s.r), DoTo("order", s.o, "RIDER_ASSIGNED"),
              Do("rider", s.o, s.r, "BUSY")>>
    BY OneAndThree DEF FinishAssignment
  <2>7. PICK q : q = p
    OBVIOUS
  <2>8. \A i \in 1..Len(q) : q[i].do \notin {"assignable", "advance"}
                             /\ (q[i].do \in {"bind", "create"} => i = 1 /\ q[i].r = s.r)
    <3> HIDE DEF s
    <3>1. q = <<DoFor(k, s.o, s.r), DoFor("offer", s.o, s.r), DoTo("order", s.o, "RIDER_ASSIGNED"),
              Do("rider", s.o, s.r, "BUSY")>>
      BY <2>6, <2>7
    <3> QED  BY <3>1 DEF DoFor, DoTo, Do
  <2> HIDE DEF p
  <2>9. Bindings(q)'
    BY <2>1, <2>5, <2>8 DEF Bindings, Binds, KeepsCounted, Free
  <2>10. ASSUME NEW b \in Actors PROVE Bindings(job[b])'
    <3>1. CASE b = a
      BY <2>3, <2>7, <2>9, <3>1 DEF Bindings, Binds, KeepsCounted, Free
    <3>2. CASE b # a
      <4>1. job'[b] = <<>>  BY <2>3, <3>2
      <4> QED  BY <4>1 DEF Bindings
    <3> QED  BY <3>1, <3>2
  <2> QED  BY <2>4, <2>10
<1>c. CASE BindRider(a) /\ ~Give(a)
  <2>1. /\ delivery' = [delivery EXCEPT ![s.o].status = "ASSIGNED", ![s.o].rider = s.r]
        /\ Proceed(a) /\ s.do \in {"bind", "create"} /\ s.r \in Riders
    BY <1>1, <1>c DEF BindRider, Doing, Statement
  <2>2. ASSUME calm PROVE AtMostOne'
    <3>1. Free(s.r) /\ AtMostOne
      BY <1>1, <1>2, <2>1, <2>2 DEF Bindings, Binds
    <3>2. \A o \in Orders : IF o = s.o THEN delivery'[o].rider = s.r
                            ELSE delivery'[o] = delivery[o]
      BY <1>1, <2>1 DEF Delivery
    <3> HIDE DEF s
    <3> QED  BY <1>1, <2>1, <3>1, <3>2 DEF AtMostOne, Free
  <2> QED  BY <1>0, <2>1, <2>2, BindProceed
<1>d. CASE ReleaseDelivery(a)
  <2>1. /\ delivery' = [delivery EXCEPT ![s.o].status = "CANCELLED", ![s.o].rider = NoRider]
        /\ Proceed(a) /\ s.do = "release"
    BY <1>d DEF ReleaseDelivery, Doing
  <2>2. \A o \in Orders : IF o = s.o THEN delivery'[o].status = "CANCELLED"
                          ELSE delivery'[o] = delivery[o]
    BY <1>1, <2>1 DEF Delivery
  <2>3. calm => AtMostOne'
    BY <1>0, <1>2, <2>2, FewerCounted DEF Counted, Active
  <2> QED  BY <1>0, <2>1, <2>3, BindProceed
<1>h. CASE AdvanceDelivery(a)
  <2>1. /\ delivery' = [delivery EXCEPT ![s.o].status = s.to]
        /\ Proceed(a) /\ s.do = "advance"
    BY <1>h DEF AdvanceDelivery, Doing
  <2>2. \A o \in Orders : /\ delivery'[o].rider = delivery[o].rider
                          /\ IF o = s.o THEN delivery'[o].status = s.to
                             ELSE delivery'[o] = delivery[o]
    BY <1>1, <2>1 DEF Delivery
  <2>3. ASSUME calm PROVE AtMostOne'
    <3>1. s.to \in Counted => delivery[s.o].status \in Counted
      BY <1>1, <1>2, <2>1, <2>3 DEF Bindings, KeepsCounted
    <3> HIDE DEF s
    <3> QED  BY <1>0, <1>2, <2>2, <2>3, <3>1, FewerCounted
  <2> QED  BY <1>0, <2>1, <2>3, BindProceed
<1>i. CASE MarkVerified(a)
  <2>1. Proceed(a) /\ s.do = "verify"
    BY <1>i DEF MarkVerified, Doing
  <2>2. \A o \in Orders : delivery'[o].rider = delivery[o].rider
                          /\ delivery'[o].status = delivery[o].status
    BY <1>1, <1>i DEF MarkVerified, Delivery
  <2>3. calm => AtMostOne'
    BY <1>0, <1>2, <2>2, FewerCounted
  <2>4. s.do # "eligible"
    BY <2>1
  <2> QED  BY <1>0, <2>1, <2>2, <2>3, <2>4, BindProceed
<1>l. CASE FailDelivery(a)
  <2>1. /\ delivery' = [delivery EXCEPT ![s.o].status = "FAILED"]
        /\ Proceed(a) /\ s.do = "fail"
    BY <1>l DEF FailDelivery, Doing
  <2>2. \A o \in Orders : IF o = s.o THEN delivery'[o].status = "FAILED"
                          ELSE delivery'[o] = delivery[o]
    BY <1>1, <2>1 DEF Delivery
  <2>3. calm => AtMostOne'
    BY <1>0, <1>2, <2>2, FewerCounted DEF Counted, Active
  <2> QED  BY <1>0, <2>1, <2>3, BindProceed
<1>m. CASE CreateAssignmentRecord(a) \/ RespondToOffers(a) \/ ExpireOffer(a)
           \/ Transition(a) \/ UpdateRider(a) \/ CallAutoAssign(a)
  <2>1. /\ Proceed(a) /\ UNCHANGED delivery
        /\ s.do \in {"offer", "respond", "expire", "order", "rider", "dispatch"}
    BY <1>m DEF CreateAssignmentRecord, RespondToOffers, ExpireOffer, Transition, UpdateRider,
       CallAutoAssign, Doing
  <2> QED  BY <1>5, <2>1
<1> HIDE DEF s
<1> QED
  BY <1>4, <1>a, <1>b, <1>c, <1>d, <1>h, <1>i, <1>l, <1>m DEF Execute

-----------------------------------------------------------------------------
(* The handlers' first actions bind nobody who is not free *)

LEMMA AdvanceBinds ==
    ASSUME NEW o \in Orders, NEW to, to \in Counted => delivery[o].status \in Counted,
           NEW q \in Seq(Statement), Neutral(q)
    PROVE  Bindings(<<DoTo("advance", o, to)>> \o q)
<1> DEFINE h == <<DoTo("advance", o, to)>>
           p == h \o q
<1>1. /\ Len(p) = 1 + Len(q) /\ Len(q) \in Nat
      /\ \A i \in 1..Len(p) : p[i] = IF i <= 1 THEN DoTo("advance", o, to) ELSE q[i - 1]
  OBVIOUS
<1> HIDE DEF p
<1>2. ASSUME NEW i \in 1..Len(p) PROVE Binds(p, i) /\ KeepsCounted(p, i)
  <2>1. CASE i = 1
    <3>1. p[1] = DoTo("advance", o, to)
      BY <1>1, <2>1
    <3> QED  BY <2>1, <3>1 DEF Binds, KeepsCounted, DoTo, Do
  <2>2. CASE i # 1
    <3>1. i - 1 \in 1..Len(q) /\ ~(i <= 1)
      BY <1>1, <2>2
    <3> QED  BY <1>1, <3>1 DEF Binds, KeepsCounted, Neutral
  <2> QED  BY <2>1, <2>2
<1> QED  BY <1>2 DEF p, Bindings

LEMMA RiderBinds ==
    ASSUME BindInv, NEW r \in Riders, NEW o \in Orders, RiderRequest(r, o)
    PROVE  BindInv'
<1>0. r \in Actors /\ IInv' /\ IInv
  BY RiderPreserves DEF Actors, BindInv
<1>1. ASSUME NEW p, Start(r, p), Bindings(p) PROVE BindInv'
  BY <1>0, <1>1, BindStart
<1>2. /\ DoTo("order", o, "PICKED_UP") \in Statement /\ DoTo("order", o, "DELIVERED") \in Statement
      /\ Do("rider", o, r, "ONLINE") \in Statement /\ Do("rider", o, r, "ON_DELIVERY") \in Statement
      /\ Do("respond", o, r, "ACCEPTED") \in Statement
  <2>1. "ON_DELIVERY" \in RiderStatus /\ "ACCEPTED" \in OfferStatus
    BY DEF RiderStatus, OfferStatus
  <2> QED  BY <2>1, Advances, StatementTypes
<1>3. "PICKED_UP" \in Counted /\ "ACCEPTED" \in Counted /\ "ASSIGNED" \in Counted
      /\ "ARRIVED_AT_STORE" \in Counted /\ "ARRIVED_AT_CUSTOMER" \notin Counted
      /\ "DELIVERED" \notin Counted
  BY DEF Counted, Active
<1>4. Bindings(PickUp(o)) \/ delivery[o].status # "ARRIVED_AT_STORE"
  <2>1. Neutral(<<DoTo("order", o, "PICKED_UP")>>)
    BY DEF Neutral, DoTo, Do
  <2>2. <<DoTo("order", o, "PICKED_UP")>> \in Seq(Statement)
    BY <1>2
  <2>3. PickUp(o) = <<DoTo("advance", o, "PICKED_UP")>> \o <<DoTo("order", o, "PICKED_UP")>>
    BY DEF PickUp
  <2> QED  BY <1>3, <2>1, <2>2, <2>3, AdvanceBinds
<1>5. Neutral(<<DoTo("order", o, "DELIVERED"), Do("rider", o, r, "ONLINE")>>)
  BY DEF Neutral, DoTo, Do
<1>6. Bindings(Complete(o, r))
  <2>1. <<DoTo("order", o, "DELIVERED"), Do("rider", o, r, "ONLINE")>> \in Seq(Statement)
    BY <1>2
  <2>2. Complete(o, r) = <<DoTo("advance", o, "DELIVERED")>>
                           \o <<DoTo("order", o, "DELIVERED"), Do("rider", o, r, "ONLINE")>>
    BY DEF Complete
  <2> QED  BY <1>3, <1>5, <2>1, <2>2, AdvanceBinds
<1>a. CASE AcceptDelivery(r, o)
  <2> DEFINE q == <<Do("respond", o, r, "ACCEPTED"), Do("rider", o, r, "ON_DELIVERY")>>
  <2>1. q \in Seq(Statement) /\ Neutral(q)
    BY <1>2 DEF Neutral, Do
  <2>2. Start(r, <<DoTo("advance", o, "ACCEPTED")>> \o q) /\ delivery[o].status \in Counted
    BY <1>3, <1>a, TwoParts DEF AcceptDelivery
  <2> HIDE DEF q
  <2> QED  BY <1>1, <2>1, <2>2, AdvanceBinds
<1>b. CASE RejectOffer(r, o)
  <2>1. Neutral(<<Do("respond", o, r, "REJECTED"), DoTo("release", o, "CANCELLED"),
                  Do("rider", o, r, "ONLINE"), DoTo("order", o, "READY_FOR_PICKUP"),
                  DoTo("dispatch", o, "NONE")>>)
    BY DEF Neutral, DoTo, Do
  <2> QED  BY <1>1, <1>b, <2>1, NeutralBinds DEF RejectOffer
<1>c. CASE Arrive(r, o)
  <2>1. \A to : <<DoTo("advance", o, to)>> \o <<>> = <<DoTo("advance", o, to)>>
    OBVIOUS
  <2>2. Neutral(<<>>) /\ <<>> \in Seq(Statement)
    BY DEF Neutral
  <2>3. \/ Start(r, <<DoTo("advance", o, "ARRIVED_AT_STORE")>>) /\ delivery[o].status \in Counted
        \/ Start(r, <<DoTo("advance", o, "ARRIVED_AT_CUSTOMER")>>)
    BY <1>3, <1>c DEF Arrive
  <2>4. Bindings(<<DoTo("advance", o, "ARRIVED_AT_STORE")>>) \/ delivery[o].status \notin Counted
    BY <2>1, <2>2, AdvanceBinds
  <2>5. Bindings(<<DoTo("advance", o, "ARRIVED_AT_CUSTOMER")>>)
    BY <1>3, <2>1, <2>2, AdvanceBinds
  <2> QED  BY <1>1, <2>3, <2>4, <2>5
<1>d. ASSUME Start(r, PickUp(o)), delivery[o].status = "ARRIVED_AT_STORE" PROVE BindInv'
  BY <1>1, <1>4, <1>d
<1>e. ASSUME Start(r, Complete(o, r)) PROVE BindInv'
  BY <1>1, <1>6, <1>e
<1>f. CASE VerifyPickup(r, o)
  <2>1. CASE delivery[o].pickupVerified
    <3>1. <<>> \o PickUp(o) = PickUp(o)
      BY DEF PickUp
    <3> QED  BY <1>d, <1>f, <2>1, <3>1 DEF VerifyPickup
  <2>2. CASE ~delivery[o].pickupVerified
    <3> DEFINE p == <<DoTo("verify", o, "PICKED_UP"), DoTo("advance", o, "PICKED_UP"),
                      DoTo("order", o, "PICKED_UP")>>
    <3>1. <<DoTo("verify", o, "PICKED_UP")>> \o PickUp(o) = p
      BY TwoParts DEF PickUp
    <3>2. Start(r, p) /\ delivery[o].status \in Counted
      BY <1>3, <1>f, <2>2, <3>1 DEF VerifyPickup
    <3>3. Bindings(p)
      BY <3>2 DEF Bindings, Binds, KeepsCounted, DoTo, Do
    <3> HIDE DEF p
    <3> QED  BY <1>1, <3>2, <3>3
  <2> QED  BY <2>1, <2>2
<1>g. CASE PickedUp(r, o)
  BY <1>d, <1>g DEF PickedUp
<1>h. CASE VerifyDelivery(r, o)
  <2>1. CASE delivery[o].deliveryVerified
    <3>1. <<>> \o Complete(o, r) = Complete(o, r)
      BY DEF Complete
    <3> QED  BY <1>e, <1>h, <2>1, <3>1 DEF VerifyDelivery
  <2>2. CASE ~delivery[o].deliveryVerified
    <3> DEFINE p == <<DoTo("verify", o, "DELIVERED"), DoTo("advance", o, "DELIVERED"),
                      DoTo("order", o, "DELIVERED"), Do("rider", o, r, "ONLINE")>>
    <3>1. <<DoTo("verify", o, "DELIVERED")>> \o Complete(o, r) = p
      BY OneAndThree DEF Complete
    <3>2. Start(r, p)
      BY <1>h, <2>2, <3>1 DEF VerifyDelivery
    <3>3. Bindings(p)
      BY <1>3 DEF Bindings, Binds, KeepsCounted, DoTo, Do
    <3> HIDE DEF p
    <3> QED  BY <1>1, <3>2, <3>3
  <2> QED  BY <2>1, <2>2
<1>i. CASE MarkDelivered(r, o)
  BY <1>e, <1>i DEF MarkDelivered
<1>j. CASE MarkFailed(r, o)
  <2>1. Neutral(<<Do("fail", o, r, "FAILED")>>)
    BY DEF Neutral, Do
  <2> QED  BY <1>1, <1>j, <2>1, NeutralBinds DEF MarkFailed
<1> QED
  BY <1>a, <1>b, <1>c, <1>f, <1>g, <1>h, <1>i, <1>j DEF RiderRequest

LEMMA LetGoIsNeutral == \A o \in Orders : \A w : Neutral(LetGo(o, w))
BY DEF LetGo, Neutral, Do

LEMMA Joined ==
    ASSUME NEW p \in Seq(Statement), NEW q \in Seq(Statement)
    PROVE  /\ p \o q \in Seq(Statement) /\ Len(p \o q) = Len(p) + Len(q)
           /\ Len(p) \in Nat /\ Len(q) \in Nat
           /\ \A i \in 1..(Len(p) + Len(q)) :
                  (p \o q)[i] = IF i <= Len(p) THEN p[i] ELSE q[i - Len(p)]
BY ConcatProperties

(* The new rider is found free and bound in the next statement. *)
LEMMA ReassignBinds ==
    ASSUME NEW p \in Seq(Statement), NEW q \in Seq(Statement), Neutral(p), Neutral(q),
           NEW o \in Orders, NEW r \in Riders
    PROVE  Bindings(p \o <<DoFor("eligible", o, r), DoFor("bind", o, r)>> \o q)
<1> DEFINE e == <<DoFor("eligible", o, r), DoFor("bind", o, r)>>
           w == p \o e
           t == w \o q
<1>1. e \in Seq(Statement) /\ Len(e) = 2 /\ e[1] = DoFor("eligible", o, r) /\ e[2] = DoFor("bind", o, r)
  BY StatementTypes
<1> HIDE DEF e
<1>2. /\ w \in Seq(Statement) /\ Len(w) = Len(p) + 2 /\ Len(p) \in Nat
      /\ \A i \in 1..(Len(p) + 2) : w[i] = IF i <= Len(p) THEN p[i] ELSE e[i - Len(p)]
  <2>1. e \in Seq(Statement)
    BY <1>1
  <2>2. /\ w \in Seq(Statement) /\ Len(w) = Len(p) + Len(e) /\ Len(p) \in Nat
        /\ \A i \in 1..(Len(p) + Len(e)) : w[i] = IF i <= Len(p) THEN p[i] ELSE e[i - Len(p)]
    BY <2>1, Joined
  <2> QED  BY <1>1, <2>2
<1> HIDE DEF w
<1>3. /\ Len(t) = Len(p) + 2 + Len(q) /\ Len(q) \in Nat
      /\ \A i \in 1..Len(t) : t[i] = IF i <= Len(p) + 2 THEN w[i] ELSE q[i - (Len(p) + 2)]
  <2>1. w \in Seq(Statement)
    BY <1>2
  <2>2. /\ Len(t) = Len(w) + Len(q) /\ Len(q) \in Nat
        /\ \A i \in 1..(Len(w) + Len(q)) : t[i] = IF i <= Len(w) THEN w[i] ELSE q[i - Len(w)]
    BY <2>1, Joined
  <2> HIDE DEF t
  <2> QED  BY <1>2, <2>2
<1> HIDE DEF t
<1>4. ASSUME NEW i \in 1..Len(t) PROVE Binds(t, i) /\ KeepsCounted(t, i)
  <2>1. CASE i <= Len(p)
    <3>1. i \in 1..Len(p) /\ t[i] = p[i]
      BY <1>2, <1>3, <2>1
    <3> QED  BY <3>1 DEF Neutral, Binds, KeepsCounted
  <2>2. CASE i = Len(p) + 1
    <3>1. t[i] = e[1]
      BY <1>2, <1>3, <2>2
    <3> QED  BY <1>1, <3>1 DEF Binds, KeepsCounted, DoFor, Do
  <2>3. CASE i = Len(p) + 2
    <3>1. t[i] = e[2] /\ t[i - 1] = e[1] /\ i > 1
      BY <1>2, <1>3, <2>3
    <3> QED  BY <1>1, <3>1 DEF Binds, KeepsCounted, DoFor, Do
  <2>4. CASE i > Len(p) + 2
    <3>1. i - (Len(p) + 2) \in 1..Len(q) /\ t[i] = q[i - (Len(p) + 2)]
      BY <1>2, <1>3, <2>4
    <3> QED  BY <3>1 DEF Neutral, Binds, KeepsCounted
  <2> QED  BY <1>2, <2>1, <2>2, <2>3, <2>4
<1> QED  BY <1>4 DEF Bindings, t, w, e

LEMMA AdminBinds ==
    ASSUME BindInv, NEW a \in Admins, NEW o \in Orders, AdminRequest(a, o)
    PROVE  BindInv'
<1>0. a \in Actors /\ IInv' /\ IInv
  BY AdminPreserves DEF Actors, BindInv
<1>1. ASSUME NEW p, Start(a, p), Bindings(p) PROVE BindInv'
  BY <1>0, <1>1, BindStart
<1>2. ASSUME NEW r \in Riders, Assign(a, o, r) PROVE BindInv'
  <2>1. Free(r) /\ Start(a, <<DoFor("assignable", o, r)>>)
    BY <1>2 DEF Assign, Eligible, Free
  <2>2. Bindings(<<DoFor("assignable", o, r)>>)
    BY <2>1 DEF Bindings, Binds, KeepsCounted, DoFor, Do
  <2> QED  BY <1>1, <2>1, <2>2
<1>3. ASSUME NEW r \in Riders, Reassign(a, o, r) PROVE BindInv'
  <2>1. LetGo(o, delivery[o].rider) \in Seq(Statement)
    BY <1>0, RowTypes, LetGoIsHarmless DEF Harmless
  <2>2. FinishAssignment(o, r) \in Seq(Statement)
    BY HarmlessStatements DEF Harmless
  <2>3. Neutral(FinishAssignment(o, r))
    BY DEF Neutral, FinishAssignment, DoFor, DoTo, Do
  <2>4. Bindings(LetGo(o, delivery[o].rider) \o <<DoFor("eligible", o, r), DoFor("bind", o, r)>>
                   \o FinishAssignment(o, r))
    BY <2>1, <2>2, <2>3, LetGoIsNeutral, ReassignBinds
  <2> QED  BY <1>1, <1>3, <2>4 DEF Reassign
<1>4. CASE Unassign(a, o)
  <2> DEFINE q == <<DoTo("release", o, "CANCELLED"), DoTo("order", o, "READY_FOR_PICKUP")>>
  <2>1. LetGo(o, NoRider) \in Seq(Statement) /\ q \in Seq(Statement)
    BY <1>0, LetGoIsHarmless, ReleaseIsHarmless DEF Harmless
  <2>2. Neutral(q)
    BY DEF Neutral, DoTo, Do
  <2>3. Start(a, LetGo(o, NoRider) \o q)
    BY <1>4 DEF Unassign
  <2> HIDE DEF q
  <2> QED  BY <1>1, <2>1, <2>2, <2>3, LetGoIsNeutral, NeutralConcat, NeutralBinds
<1>5. CASE CancelByAdmin(a, o)
  <2>1. Neutral(<<DoTo("order", o, "CANCELLED_BY_ADMIN")>>)
    BY DEF Neutral, DoTo, Do
  <2> QED  BY <1>1, <1>5, <2>1, NeutralBinds DEF CancelByAdmin
<1> QED  BY <1>2, <1>3, <1>4, <1>5 DEF AdminRequest

LEMMA CronBinds ==
    ASSUME BindInv, NEW a \in Crons, CronTick(a)
    PROVE  BindInv'
<1>0. a \in Actors /\ IInv' /\ IInv
  BY CronPreserves DEF Actors, BindInv
<1>1. PICK o \in Orders : \E n \in 1..Len(offers[o]) : ProcessPendingOffers(a, o, n)
  BY DEF CronTick
<1>2. PICK n \in 1..Len(offers[o]) : ProcessPendingOffers(a, o, n)
  BY <1>1
<1> DEFINE p == <<[DoTo("expire", o, "EXPIRED") EXCEPT !.n = n], DoTo("release", o, "CANCELLED"),
                  Do("rider", o, offers[o][n].rider, "ONLINE"),
                  DoTo("order", o, "READY_FOR_PICKUP"), DoTo("dispatch", o, "NONE")>>
<1>3. Neutral(p)
  BY DEF Neutral, DoTo, Do
<1>4. Start(a, p)
  BY <1>2 DEF ProcessPendingOffers
<1> HIDE DEF p
<1> QED  BY <1>0, <1>3, <1>4, NeutralBinds, BindStart

LEMMA AutoAssignBinds ==
    ASSUME BindInv, NEW a \in Workers, NEW o \in Orders, AutoAssign(a, o)
    PROVE  BindInv'
<1>0. a \in Actors /\ IInv' /\ IInv
  BY AutoAssignPreserves DEF Actors, BindInv
<1>1. Bindings(<<>>)
  BY DEF Bindings
<1>2. ASSUME NEW r \in Riders
      PROVE  Bindings(<<DoFor("eligible", o, r), DoFor("assignable", o, r)>>)
  BY DEF Bindings, Binds, KeepsCounted, DoFor, Do
<1>3. \/ Start(a, <<>>)
      \/ \E r \in Riders : Start(a, <<DoFor("eligible", o, r), DoFor("assignable", o, r)>>)
  BY DEF AutoAssign
<1> QED  BY <1>0, <1>1, <1>2, <1>3, BindStart

LEMMA InitBindInv == Init => BindInv
<1> SUFFICES ASSUME Init PROVE BindInv
  OBVIOUS
<1>1. OneHandler /\ \A a \in Actors : Bindings(job[a])
  BY DEF Init, OneHandler, Idle, Bindings
<1>2. AtMostOne
  <2>1. \A o \in Orders : delivery[o].status = "NONE"
    BY DEF Init
  <2> QED  BY <2>1 DEF AtMostOne, Counted, Active
<1> QED  BY <1>1, <1>2, InitIInv DEF BindInv

LEMMA NextBindInv == BindInv /\ [Next]_vars => BindInv'
<1> SUFFICES ASSUME BindInv, [Next]_vars PROVE BindInv'
  OBVIOUS
<1>0. IInv'
  BY NextIInv DEF BindInv
<1>1. ASSUME UNCHANGED <<delivery, job, calm>> PROVE BindInv'
  <2>1. OneHandler => OneHandler'
    BY <1>1 DEF OneHandler, Idle
  <2>2. AtMostOne => AtMostOne'
    BY <1>1 DEF AtMostOne
  <2>3. \A a \in Actors : Bindings(job[a]) => Bindings(job[a])'
    BY <1>1 DEF Bindings, Binds, KeepsCounted, Free
  <2> QED  BY <1>0, <1>1, <2>1, <2>2, <2>3 DEF BindInv
<1>2. CASE UNCHANGED vars
  BY <1>1, <1>2 DEF vars
<1>3. ASSUME NEW r \in Riders, UpdateStatus(r) PROVE BindInv'
  BY <1>1, <1>3 DEF UpdateStatus
<1>4. ASSUME NEW a \in Actors, Crash(a) PROVE BindInv'
  BY <1>0, <1>4, BindCalmEnds DEF Crash
<1> QED
  BY <1>2, <1>3, <1>4, BindExecute, RiderBinds, AdminBinds, CronBinds, AutoAssignBinds DEF Next

(* rider-assignment.util.ts:3: as long as no handler overlaps another or   *)
(* ends half-way, a rider is on the way for one order until he has reached *)
(* its buyer, for any number of riders, orders, administrators and crons,  *)
(* and however riders switch their availability.                           *)
THEOREM OneDeliveryAlways == Spec => []OneDeliveryPerRider
<1>1. BindInv => OneDeliveryPerRider
  BY DEF BindInv, AtMostOne, OneDeliveryPerRider
<1> QED  BY <1>1, InitBindInv, NextBindInv, PTL DEF Spec

-----------------------------------------------------------------------------
(* The four tables agree *)

(* The rows that belong to order o, as one record. *)
RowOf(st, dr, os, f) == [st |-> st, dr |-> dr, os |-> os, f |-> f]
Row(o) == RowOf(delivery[o].status, delivery[o].rider, order[o], offers[o])

Respond(f, r, to) ==
    [n \in 1..Len(f) |->
        IF /\ r \in {NoRider, f[n].rider}
           /\ f[n].status \in (IF to = "CANCELLED" THEN {"OFFERED", "ACCEPTED"} ELSE {"OFFERED"})
        THEN [f[n] EXCEPT !.status = to] ELSE f[n]]

(* What statement s makes of the columns, and of the rows x, of order o. *)
StatusAfter(s, st) ==
    CASE s.do \in {"bind", "create"} -> "ASSIGNED"
      [] s.do = "release" -> "CANCELLED"
      [] s.do = "advance" -> s.to
      [] s.do = "fail" -> "FAILED"
      [] OTHER -> st
RiderAfter(s, dr) ==
    CASE s.do \in {"bind", "create"} -> s.r
      [] s.do = "release" -> NoRider
      [] OTHER -> dr
OrderAfter(s, os) ==
    CASE s.do = "order" -> s.to
      [] s.do = "fail" -> "DELIVERY_FAILED"
      [] OTHER -> os
OffersAfter(s, f) ==
    CASE s.do = "offer" -> Append(f, [rider |-> s.r, status |-> "OFFERED"])
      [] s.do = "respond" -> Respond(f, s.r, s.to)
      [] s.do = "expire" -> [f EXCEPT ![s.n].status = "EXPIRED"]
      [] OTHER -> f
Eff(o, x, s) ==
    IF s.o # o THEN x
    ELSE RowOf(StatusAfter(s, x.st), RiderAfter(s, x.dr), OrderAfter(s, x.os), OffersAfter(s, x.f))

(* What all the statements of p make of them; no handler has more than 7. *)
At(o, x, p, i) == IF i <= Len(p) THEN Eff(o, x, p[i]) ELSE x
Result(o, x, p) ==
    At(o, At(o, At(o, At(o, At(o, At(o, At(o, x, p, 1), p, 2), p, 3), p, 4), p, 5), p, 6), p, 7)

NoneOpen(f) == \A n \in 1..Len(f) : f[n].status # "OFFERED"
OneOpen(f) == \A m, n \in 1..Len(f) :
                  f[m].status = "OFFERED" /\ f[n].status = "OFFERED" => m = n
OpenFor(f, r) == \E n \in 1..Len(f) : f[n].status = "OFFERED" /\ f[n].rider = r
TakenBy(f, r) == \E n \in 1..Len(f) : f[n].status = "ACCEPTED" /\ f[n].rider = r

(* The rows agree; a delivery under way or failed also has a rider, and a  *)
(* failed one a failed order.                                              *)
Good(st, dr, os, f) ==
    /\ OneOpen(f)
    /\ st = "ASSIGNED" => OpenFor(f, dr)
    /\ st \notin {"ASSIGNED", "FAILED"} => NoneOpen(f)
    /\ st \in Active \ {"ASSIGNED"} => TakenBy(f, dr)
    /\ st \in Active \cup {"FAILED"} => dr # NoRider
    /\ st = "FAILED" => os = "DELIVERY_FAILED"
    /\ st \in {"ASSIGNED", "ACCEPTED", "ARRIVED_AT_STORE"}
         => os \in {"RIDER_ASSIGNED", "CANCELLED_BY_ADMIN"}
    /\ os = "RIDER_ASSIGNED" => st \in {"ASSIGNED", "ACCEPTED", "ARRIVED_AT_STORE"}
    /\ os = "PICKED_UP" <=> st \in {"PICKED_UP", "ARRIVED_AT_CUSTOMER"}
    /\ os = "DELIVERED" <=> st = "DELIVERED"
GoodRow(x) == Good(x.st, x.dr, x.os, x.f)
BoundRow(x, r) == x.dr = r /\ x.st \in Active

Busy == {"BUSY", "ON_DELIVERY"}
FreesAt(s, r) == s.r = r /\ (s.do = "fail" \/ (s.do = "rider" /\ s.to \notin Busy))
OccupiesAt(s, r) == s.r = r /\ s.do = "rider" /\ s.to \in Busy
Frees(p, r) == \E i \in 1..Len(p) : FreesAt(p[i], r)
Occupies(p, r) == \E i \in 1..Len(p) : OccupiesAt(p[i], r)
BoundAfter(p, r) == \E o \in Orders : BoundRow(Result(o, Row(o), p), r)

(* When p has been executed, the rows of every order agree; who is busy    *)
(* now has a delivery then or will be freed, and so has who will be busy.  *)
LeadsWell(p) ==
    /\ Len(p) <= 7
    /\ \A i \in 1..Len(p) : p[i].do = "assignable" => i = Len(p)
    /\ \A o \in Orders : GoodRow(Result(o, Row(o), p))
    /\ \A r \in Riders : /\ rider[r] \in Busy => BoundAfter(p, r) \/ Frees(p, r)
                         /\ Occupies(p, r) => BoundAfter(p, r)

DispatchInv ==
    /\ IInv
    /\ calm => /\ OneHandler
               /\ Quiet => LeadsWell(<<>>)
               /\ \A a \in Actors : ~Idle(a) => LeadsWell(job[a])

LEMMA ResultTail ==
    ASSUME NEW o, NEW x, NEW p \in Seq(Statement), p # <<>>, Len(p) <= 7
    PROVE  Result(o, x, p) = Result(o, Eff(o, x, p[1]), Tail(p))
<1> DEFINE t == Tail(p)
<1>1. /\ Len(t) = Len(p) - 1 /\ Len(p) \in Nat /\ Len(p) >= 1
      /\ \A i \in 1..Len(t) : t[i] = p[i + 1]
  BY HeadTailProperties
<1> HIDE DEF t
<1>2. ASSUME NEW y, NEW i \in 1..6 PROVE At(o, y, p, i + 1) = At(o, y, t, i)
  <2>1. i <= Len(t) <=> i + 1 <= Len(p)
    BY <1>1
  <2>2. i <= Len(t) => t[i] = p[i + 1]
    BY <1>1
  <2> QED  BY <2>1, <2>2 DEF At
<1>3. \A y : At(o, y, t, 7) = y
  <2>1. ~(7 <= Len(t))
    BY <1>1
  <2> QED  BY <2>1 DEF At
<1>4. At(o, x, p, 1) = Eff(o, x, p[1])
  BY <1>1 DEF At
<1>5. \A y : /\ At(o, y, p, 2) = At(o, y, t, 1) /\ At(o, y, p, 3) = At(o, y, t, 2)
             /\ At(o, y, p, 4) = At(o, y, t, 3) /\ At(o, y, p, 5) = At(o, y, t, 4)
             /\ At(o, y, p, 6) = At(o, y, t, 5) /\ At(o, y, p, 7) = At(o, y, t, 6)
  BY <1>2
<1> QED  BY <1>3, <1>4, <1>5 DEF Result, t

LEMMA ResultElsewhere ==
    ASSUME NEW o, NEW x, NEW p \in Seq(Statement), \A i \in 1..Len(p) : p[i].o # o
    PROVE  Result(o, x, p) = x
<1>1. ASSUME NEW y, NEW i \in 1..7 PROVE At(o, y, p, i) = y
  <2>1. i <= Len(p) => p[i].o # o
    OBVIOUS
  <2>2. p[i].o # o => Eff(o, y, p[i]) = y
    BY DEF Eff
  <2> QED  BY <2>1, <2>2 DEF At
<1>2. \A y : /\ At(o, y, p, 1) = y /\ At(o, y, p, 2) = y /\ At(o, y, p, 3) = y
             /\ At(o, y, p, 4) = y /\ At(o, y, p, 5) = y /\ At(o, y, p, 6) = y
             /\ At(o, y, p, 7) = y
  BY <1>1
<1> QED  BY <1>2 DEF Result

LEMMA ResultOfNone == ASSUME NEW o, NEW x PROVE Result(o, x, <<>>) = x
<1>1. \A y : \A i \in 1..7 : At(o, y, <<>>, i) = y
  BY DEF At
<1> QED  BY <1>1 DEF Result

LEMMA ResultOfOne ==
    ASSUME NEW o, NEW x, NEW s1
    PROVE  Result(o, x, <<s1>>)
             = Eff(o, x, s1)
<1> DEFINE p == <<s1>>
<1>1. Len(p) = 1 /\ p[1] = s1
  OBVIOUS
<1> HIDE DEF p
<1>2. \A y : /\ At(o, y, p, 1) = Eff(o, y, s1) /\ At(o, y, p, 2) = y /\ At(o, y, p, 3) = y
             /\ At(o, y, p, 4) = y /\ At(o, y, p, 5) = y /\ At(o, y, p, 6) = y
             /\ At(o, y, p, 7) = y
  BY <1>1 DEF At
<1>3. Result(o, x, p) = Eff(o, x, s1)
  BY <1>2 DEF Result
<1> QED  BY <1>3 DEF p

LEMMA ResultOfTwo ==
    ASSUME NEW o, NEW x, NEW s1, NEW s2
    PROVE  Result(o, x, <<s1, s2>>)
             = Eff(o, Eff(o, x, s1), s2)
<1> DEFINE p == <<s1, s2>>
<1>1. Len(p) = 2 /\ p[1] = s1 /\ p[2] = s2
  OBVIOUS
<1> HIDE DEF p
<1>2. \A y : /\ At(o, y, p, 1) = Eff(o, y, s1) /\ At(o, y, p, 2) = Eff(o, y, s2)
             /\ At(o, y, p, 3) = y
             /\ At(o, y, p, 4) = y /\ At(o, y, p, 5) = y /\ At(o, y, p, 6) = y
             /\ At(o, y, p, 7) = y
  BY <1>1 DEF At
<1>3. Result(o, x, p) = Eff(o, Eff(o, x, s1), s2)
  BY <1>2 DEF Result
<1> QED  BY <1>3 DEF p

LEMMA ResultOfThree ==
    ASSUME NEW o, NEW x, NEW s1, NEW s2, NEW s3
    PROVE  Result(o, x, <<s1, s2, s3>>)
             = Eff(o, Eff(o, Eff(o, x, s1), s2), s3)
<1> DEFINE p == <<s1, s2, s3>>
<1>1. Len(p) = 3 /\ p[1] = s1 /\ p[2] = s2 /\ p[3] = s3
  OBVIOUS
<1> HIDE DEF p
<1>2. \A y : /\ At(o, y, p, 1) = Eff(o, y, s1) /\ At(o, y, p, 2) = Eff(o, y, s2)
             /\ At(o, y, p, 3) = Eff(o, y, s3)
             /\ At(o, y, p, 4) = y /\ At(o, y, p, 5) = y /\ At(o, y, p, 6) = y
             /\ At(o, y, p, 7) = y
  BY <1>1 DEF At
<1>3. Result(o, x, p) = Eff(o, Eff(o, Eff(o, x, s1), s2), s3)
  BY <1>2 DEF Result
<1> QED  BY <1>3 DEF p

LEMMA ResultOfFour ==
    ASSUME NEW o, NEW x, NEW s1, NEW s2, NEW s3, NEW s4
    PROVE  Result(o, x, <<s1, s2, s3, s4>>)
             = Eff(o, Eff(o, Eff(o, Eff(o, x, s1), s2), s3), s4)
<1> DEFINE p == <<s1, s2, s3, s4>>
<1>1. Len(p) = 4 /\ p[1] = s1 /\ p[2] = s2 /\ p[3] = s3 /\ p[4] = s4
  OBVIOUS
<1> HIDE DEF p
<1>2. \A y : /\ At(o, y, p, 1) = Eff(o, y, s1) /\ At(o, y, p, 2) = Eff(o, y, s2)
             /\ At(o, y, p, 3) = Eff(o, y, s3)
             /\ At(o, y, p, 4) = Eff(o, y, s4) /\ At(o, y, p, 5) = y /\ At(o, y, p, 6) = y
             /\ At(o, y, p, 7) = y
  BY <1>1 DEF At
<1>3. Result(o, x, p) = Eff(o, Eff(o, Eff(o, Eff(o, x, s1), s2), s3), s4)
  BY <1>2 DEF Result
<1> QED  BY <1>3 DEF p

LEMMA ResultOfFive ==
    ASSUME NEW o, NEW x, NEW s1, NEW s2, NEW s3, NEW s4, NEW s5
    PROVE  Result(o, x, <<s1, s2, s3, s4, s5>>)
             = Eff(o, Eff(o, Eff(o, Eff(o, Eff(o, x, s1), s2), s3), s4), s5)
<1> DEFINE p == <<s1, s2, s3, s4, s5>>
<1>1. Len(p) = 5 /\ p[1] = s1 /\ p[2] = s2 /\ p[3] = s3 /\ p[4] = s4 /\ p[5] = s5
  OBVIOUS
<1> HIDE DEF p
<1>2. \A y : /\ At(o, y, p, 1) = Eff(o, y, s1) /\ At(o, y, p, 2) = Eff(o, y, s2)
             /\ At(o, y, p, 3) = Eff(o, y, s3)
             /\ At(o, y, p, 4) = Eff(o, y, s4) /\ At(o, y, p, 5) = Eff(o, y, s5)
             /\ At(o, y, p, 6) = y
             /\ At(o, y, p, 7) = y
  BY <1>1 DEF At
<1>3. Result(o, x, p) = Eff(o, Eff(o, Eff(o, Eff(o, Eff(o, x, s1), s2), s3), s4), s5)
  BY <1>2 DEF Result
<1> QED  BY <1>3 DEF p

LEMMA ResultOfSeven ==
    ASSUME NEW o, NEW x, NEW s1, NEW s2, NEW s3, NEW s4, NEW s5, NEW s6, NEW s7
    PROVE  Result(o, x, <<s1, s2, s3, s4, s5, s6, s7>>)
             = Eff(o, Eff(o, Eff(o, Eff(o, Eff(o, Eff(o, Eff(o, x, s1), s2), s3), s4), s5), s6), s7)
<1> DEFINE p == <<s1, s2, s3, s4, s5, s6, s7>>
<1>1. Len(p) = 7 /\ p[1] = s1 /\ p[2] = s2 /\ p[3] = s3 /\ p[4] = s4 /\ p[5] = s5 /\ p[6] = s6 /\ p[7] = s7
  OBVIOUS
<1> HIDE DEF p
<1>2. \A y : /\ At(o, y, p, 1) = Eff(o, y, s1) /\ At(o, y, p, 2) = Eff(o, y, s2)
             /\ At(o, y, p, 3) = Eff(o, y, s3)
             /\ At(o, y, p, 4) = Eff(o, y, s4) /\ At(o, y, p, 5) = Eff(o, y, s5)
             /\ At(o, y, p, 6) = Eff(o, y, s6)
             /\ At(o, y, p, 7) = Eff(o, y, s7)
  BY <1>1 DEF At
<1>3. Result(o, x, p)
    = Eff(o, Eff(o, Eff(o, Eff(o, Eff(o, Eff(o, Eff(o, x, s1), s2), s3), s4), s5), s6), s7)
  BY <1>2 DEF Result
<1> QED  BY <1>3 DEF p

(* What the statements make of the offers of an order. *)
LEMMA OfferMade ==
    ASSUME NEW f \in Seq(Offer), NoneOpen(f), NEW r \in Riders,
           NEW g, g = Append(f, [rider |-> r, status |-> "OFFERED"])
    PROVE  OneOpen(g) /\ OpenFor(g, r)
<1>1. /\ Len(g) = Len(f) + 1 /\ Len(f) \in Nat
      /\ g[Len(f) + 1] = [rider |-> r, status |-> "OFFERED"]
      /\ \A i \in 1..Len(f) : g[i] = f[i]
  BY DEF Offer, OfferStatus
<1>2. \A i \in 1..Len(g) : i = Len(f) + 1 \/ g[i].status # "OFFERED"
  BY <1>1 DEF NoneOpen
<1>3. OneOpen(g)
  BY <1>2 DEF OneOpen
<1>4. Len(f) + 1 \in 1..Len(g)
  BY <1>1
<1> QED  BY <1>1, <1>3, <1>4 DEF OpenFor

LEMMA Responses ==
    ASSUME NEW f \in Seq(Offer), NEW r, NEW to,
           NEW g, g = Respond(f, r, to)
    PROVE  /\ Len(g) = Len(f) /\ Len(f) \in Nat
           /\ \A i \in 1..Len(f) : /\ g[i].rider = f[i].rider
                                   /\ g[i].status \in {f[i].status, to}
                                   /\ f[i].status = "OFFERED" /\ r \in {NoRider, f[i].rider}
                                        => g[i].status = to
<1>1. Len(g) = Len(f) /\ Len(f) \in Nat
  BY DEF Respond
<1>2. ASSUME NEW i \in 1..Len(f)
      PROVE  /\ g[i].rider = f[i].rider
             /\ g[i].status \in {f[i].status, to}
             /\ f[i].status = "OFFERED" /\ r \in {NoRider, f[i].rider} => g[i].status = to
  <2>1. f[i] \in Offer
    OBVIOUS
  <2>2. /\ [f[i] EXCEPT !.status = to].rider = f[i].rider
        /\ [f[i] EXCEPT !.status = to].status = to
    BY <2>1 DEF Offer
  <2>3. g[i] = IF /\ r \in {NoRider, f[i].rider}
                  /\ f[i].status \in (IF to = "CANCELLED" THEN {"OFFERED", "ACCEPTED"} ELSE {"OFFERED"})
               THEN [f[i] EXCEPT !.status = to] ELSE f[i]
    BY <1>1 DEF Respond
  <2> QED  BY <2>2, <2>3
<1> QED  BY <1>1, <1>2

LEMMA OfferAnswered ==
    ASSUME NEW f \in Seq(Offer), NEW r, OneOpen(f), OpenFor(f, r),
           NEW to \in {"ACCEPTED", "REJECTED", "CANCELLED"}, NEW g, g = Respond(f, r, to)
    PROVE  NoneOpen(g) /\ OneOpen(g) /\ (to = "ACCEPTED" => TakenBy(g, r))
<1>1. PICK n \in 1..Len(f) : f[n].status = "OFFERED" /\ f[n].rider = r
  BY DEF OpenFor
<1>2. \A i \in 1..Len(f) : i = n \/ f[i].status # "OFFERED"
  BY <1>1 DEF OneOpen
<1>3. /\ Len(g) = Len(f)
      /\ \A i \in 1..Len(f) : g[i].rider = f[i].rider /\ g[i].status \in {f[i].status, to}
      /\ g[n].status = to
  BY <1>1, Responses
<1>4. NoneOpen(g)
  BY <1>2, <1>3 DEF NoneOpen
<1>5. to = "ACCEPTED" => TakenBy(g, r)
  BY <1>1, <1>3 DEF TakenBy
<1> QED  BY <1>4, <1>5 DEF NoneOpen, OneOpen

LEMMA OffersCancelled ==
    ASSUME NEW f \in Seq(Offer), NEW r, r = NoRider \/ NoneOpen(f) \/ (OneOpen(f) /\ OpenFor(f, r)),
           NEW g, g = Respond(f, r, "CANCELLED")
    PROVE  NoneOpen(g) /\ OneOpen(g)
<1>1. /\ Len(g) = Len(f)
      /\ \A i \in 1..Len(f) : /\ g[i].status \in {f[i].status, "CANCELLED"}
                              /\ f[i].status = "OFFERED" /\ r = NoRider => g[i].status = "CANCELLED"
  BY Responses
<1>2. CASE r = NoRider \/ NoneOpen(f)
  BY <1>1, <1>2 DEF NoneOpen, OneOpen
<1>3. CASE OneOpen(f) /\ OpenFor(f, r)
  BY <1>3, OfferAnswered
<1> QED  BY <1>2, <1>3

LEMMA OfferExpired ==
    ASSUME NEW f \in Seq(Offer), OneOpen(f), NEW n \in 1..Len(f), f[n].status = "OFFERED",
           NEW g, g = [f EXCEPT ![n].status = "EXPIRED"]
    PROVE  NoneOpen(g) /\ OneOpen(g)
<1>1. f[n] \in Offer
  OBVIOUS
<1>2. g = [f EXCEPT ![n] = [f[n] EXCEPT !.status = "EXPIRED"]]
  OBVIOUS
<1>3. [f[n] EXCEPT !.status = "EXPIRED"].status = "EXPIRED"
  BY <1>1 DEF Offer
<1>4. /\ Len(g) = Len(f) /\ g[n].status = "EXPIRED"
      /\ \A i \in 1..Len(f) : i # n => g[i] = f[i]
  BY <1>2, <1>3
<1>5. \A i \in 1..Len(f) : i = n \/ f[i].status # "OFFERED"
  BY DEF OneOpen
<1>6. NoneOpen(g)
  BY <1>4, <1>5 DEF NoneOpen
<1> QED  BY <1>6 DEF NoneOpen, OneOpen

(* What the statements make of the rows of their own order. *)
LEMMA EffOfOwn ==
    ASSUME NEW o, NEW st, NEW dr, NEW os, NEW f, NEW s, s.o = o
    PROVE  Eff(o, RowOf(st, dr, os, f), s)
             = RowOf(StatusAfter(s, st), RiderAfter(s, dr), OrderAfter(s, os), OffersAfter(s, f))
<1> DEFINE x == RowOf(st, dr, os, f)
<1>1. x.st = st /\ x.dr = dr /\ x.os = os /\ x.f = f
  BY DEF RowOf
<1> HIDE DEF x
<1>2. Eff(o, x, s)
    = RowOf(StatusAfter(s, st), RiderAfter(s, dr), OrderAfter(s, os), OffersAfter(s, f))
  BY <1>1 DEF Eff
<1> QED  BY <1>2 DEF x

LEMMA EffNothing ==
    ASSUME NEW o, NEW st, NEW dr, NEW os, NEW f, NEW k \in {"eligible", "assignable"}, NEW r
    PROVE  Eff(o, RowOf(st, dr, os, f), DoFor(k, o, r))
             = RowOf(st, dr, os, f)
<1>1. PICK s : s = DoFor(k, o, r)
  OBVIOUS
<1>2. s.o = o /\ s.do = k
  BY <1>1 DEF DoFor, Do
<1>3. Eff(o, RowOf(st, dr, os, f), s)
        = RowOf(StatusAfter(s, st), RiderAfter(s, dr), OrderAfter(s, os), OffersAfter(s, f))
  BY <1>2, EffOfOwn
<1> QED  BY <1>1, <1>2, <1>3 DEF StatusAfter, RiderAfter, OrderAfter, OffersAfter

LEMMA EffNoRow ==
    ASSUME NEW o, NEW st, NEW dr, NEW os, NEW f, NEW k \in {"verify", "dispatch"}, NEW v
    PROVE  Eff(o, RowOf(st, dr, os, f), DoTo(k, o, v))
             = RowOf(st, dr, os, f)
<1>1. PICK s : s = DoTo(k, o, v)
  OBVIOUS
<1>2. s.o = o /\ s.do = k
  BY <1>1 DEF DoTo, Do
<1>3. Eff(o, RowOf(st, dr, os, f), s)
        = RowOf(StatusAfter(s, st), RiderAfter(s, dr), OrderAfter(s, os), OffersAfter(s, f))
  BY <1>2, EffOfOwn
<1> QED  BY <1>1, <1>2, <1>3 DEF StatusAfter, RiderAfter, OrderAfter, OffersAfter

LEMMA EffRider ==
    ASSUME NEW o, NEW st, NEW dr, NEW os, NEW f, NEW r, NEW v
    PROVE  Eff(o, RowOf(st, dr, os, f), Do("rider", o, r, v))
             = RowOf(st, dr, os, f)
<1>1. PICK s : s = Do("rider", o, r, v)
  OBVIOUS
<1>2. s.o = o /\ s.do = "rider"
  BY <1>1 DEF Do
<1>3. Eff(o, RowOf(st, dr, os, f), s)
        = RowOf(StatusAfter(s, st), RiderAfter(s, dr), OrderAfter(s, os), OffersAfter(s, f))
  BY <1>2, EffOfOwn
<1> QED  BY <1>1, <1>2, <1>3 DEF StatusAfter, RiderAfter, OrderAfter, OffersAfter

LEMMA EffBind ==
    ASSUME NEW o, NEW st, NEW dr, NEW os, NEW f, NEW k \in {"bind", "create"}, NEW r
    PROVE  Eff(o, RowOf(st, dr, os, f), DoFor(k, o, r))
             = RowOf("ASSIGNED", r, os, f)
<1>1. PICK s : s = DoFor(k, o, r)
  OBVIOUS
<1>2. s.o = o /\ s.do = k /\ s.r = r
  BY <1>1 DEF DoFor, Do
<1>3. Eff(o, RowOf(st, dr, os, f), s)
        = RowOf(StatusAfter(s, st), RiderAfter(s, dr), OrderAfter(s, os), OffersAfter(s, f))
  BY <1>2, EffOfOwn
<1> QED  BY <1>1, <1>2, <1>3 DEF StatusAfter, RiderAfter, OrderAfter, OffersAfter

LEMMA EffRelease ==
    ASSUME NEW o, NEW st, NEW dr, NEW os, NEW f, NEW v
    PROVE  Eff(o, RowOf(st, dr, os, f), DoTo("release", o, v))
             = RowOf("CANCELLED", NoRider, os, f)
<1>1. PICK s : s = DoTo("release", o, v)
  OBVIOUS
<1>2. s.o = o /\ s.do = "release"
  BY <1>1 DEF DoTo, Do
<1>3. Eff(o, RowOf(st, dr, os, f), s)
        = RowOf(StatusAfter(s, st), RiderAfter(s, dr), OrderAfter(s, os), OffersAfter(s, f))
  BY <1>2, EffOfOwn
<1> QED  BY <1>1, <1>2, <1>3 DEF StatusAfter, RiderAfter, OrderAfter, OffersAfter

LEMMA EffAdvance ==
    ASSUME NEW o, NEW st, NEW dr, NEW os, NEW f, NEW v
    PROVE  Eff(o, RowOf(st, dr, os, f), DoTo("advance", o, v))
             = RowOf(v, dr, os, f)
<1>1. PICK s : s = DoTo("advance", o, v)
  OBVIOUS
<1>2. s.o = o /\ s.do = "advance" /\ s.to = v
  BY <1>1 DEF DoTo, Do
<1>3. Eff(o, RowOf(st, dr, os, f), s)
        = RowOf(StatusAfter(s, st), RiderAfter(s, dr), OrderAfter(s, os), OffersAfter(s, f))
  BY <1>2, EffOfOwn
<1> QED  BY <1>1, <1>2, <1>3 DEF StatusAfter, RiderAfter, OrderAfter, OffersAfter

LEMMA EffOrder ==
    ASSUME NEW o, NEW st, NEW dr, NEW os, NEW f, NEW v
    PROVE  Eff(o, RowOf(st, dr, os, f), DoTo("order", o, v))
             = RowOf(st, dr, v, f)
<1>1. PICK s : s = DoTo("order", o, v)
  OBVIOUS
<1>2. s.o = o /\ s.do = "order" /\ s.to = v
  BY <1>1 DEF DoTo, Do
<1>3. Eff(o, RowOf(st, dr, os, f), s)
        = RowOf(StatusAfter(s, st), RiderAfter(s, dr), OrderAfter(s, os), OffersAfter(s, f))
  BY <1>2, EffOfOwn
<1> QED  BY <1>1, <1>2, <1>3 DEF StatusAfter, RiderAfter, OrderAfter, OffersAfter

LEMMA EffFail ==
    ASSUME NEW o, NEW st, NEW dr, NEW os, NEW f, NEW r, NEW v
    PROVE  Eff(o, RowOf(st, dr, os, f), Do("fail", o, r, v))
             = RowOf("FAILED", dr, "DELIVERY_FAILED", f)
<1>1. PICK s : s = Do("fail", o, r, v)
  OBVIOUS
<1>2. s.o = o /\ s.do = "fail"
  BY <1>1 DEF Do
<1>3. Eff(o, RowOf(st, dr, os, f), s)
        = RowOf(StatusAfter(s, st), RiderAfter(s, dr), OrderAfter(s, os), OffersAfter(s, f))
  BY <1>2, EffOfOwn
<1> QED  BY <1>1, <1>2, <1>3 DEF StatusAfter, RiderAfter, OrderAfter, OffersAfter

LEMMA EffOffer ==
    ASSUME NEW o, NEW st, NEW dr, NEW os, NEW f, NEW r
    PROVE  Eff(o, RowOf(st, dr, os, f), DoFor("offer", o, r))
             = RowOf(st, dr, os, Append(f, [rider |-> r, status |-> "OFFERED"]))
<1>1. PICK s : s = DoFor("offer", o, r)
  OBVIOUS
<1>2. s.o = o /\ s.do = "offer" /\ s.r = r
  BY <1>1 DEF DoFor, Do
<1>3. Eff(o, RowOf(st, dr, os, f), s)
        = RowOf(StatusAfter(s, st), RiderAfter(s, dr), OrderAfter(s, os), OffersAfter(s, f))
  BY <1>2, EffOfOwn
<1> QED  BY <1>1, <1>2, <1>3 DEF StatusAfter, RiderAfter, OrderAfter, OffersAfter

LEMMA EffRespond ==
    ASSUME NEW o, NEW st, NEW dr, NEW os, NEW f, NEW r, NEW v
    PROVE  Eff(o, RowOf(st, dr, os, f), Do("respond", o, r, v))
             = RowOf(st, dr, os, Respond(f, r, v))
<1>1. PICK s : s = Do("respond", o, r, v)
  OBVIOUS
<1>2. s.o = o /\ s.do = "respond" /\ s.r = r /\ s.to = v
  BY <1>1 DEF Do
<1>3. Eff(o, RowOf(st, dr, os, f), s)
        = RowOf(StatusAfter(s, st), RiderAfter(s, dr), OrderAfter(s, os), OffersAfter(s, f))
  BY <1>2, EffOfOwn
<1> QED  BY <1>1, <1>2, <1>3 DEF StatusAfter, RiderAfter, OrderAfter, OffersAfter

LEMMA EffExpire ==
    ASSUME NEW o, NEW st, NEW dr, NEW os, NEW f, NEW n, NEW v
    PROVE  Eff(o, RowOf(st, dr, os, f), [DoTo("expire", o, v) EXCEPT !.n = n])
             = RowOf(st, dr, os, [f EXCEPT ![n].status = "EXPIRED"])
<1>1. PICK s : s = [DoTo("expire", o, v) EXCEPT !.n = n]
  OBVIOUS
<1>2. s.o = o /\ s.do = "expire" /\ s.n = n
  BY <1>1 DEF DoTo, Do
<1>3. Eff(o, RowOf(st, dr, os, f), s)
        = RowOf(StatusAfter(s, st), RiderAfter(s, dr), OrderAfter(s, os), OffersAfter(s, f))
  BY <1>2, EffOfOwn
<1> QED  BY <1>1, <1>2, <1>3 DEF StatusAfter, RiderAfter, OrderAfter, OffersAfter

-----------------------------------------------------------------------------
(* Executing a statement of a program that leads well leads well *)

(* Rider r is busy after statement s only if he was, and is not freed, or  *)
(* becomes busy.                                                           *)
BusyAfter(s, r) ==
    rider'[r] \in Busy => (rider[r] \in Busy /\ ~FreesAt(s, r)) \/ OccupiesAt(s, r)

LEMMA LeadsOn ==
    ASSUME NEW p \in Seq(Statement), p # <<>>, LeadsWell(p),
           \A o \in Orders : Row(o)' = Eff(o, Row(o), p[1]),
           \A r \in Riders : BusyAfter(p[1], r)
    PROVE  \A t \in Seq(Statement) : t = Tail(p) => LeadsWell(t)'
<1> TAKE t \in Seq(Statement)
<1> HAVE t = Tail(p)
<1>1. /\ Len(t) = Len(p) - 1 /\ Len(p) \in Nat /\ Len(p) >= 1 /\ Len(p) <= 7
      /\ \A i \in 1..Len(t) : t[i] = p[i + 1]
  BY HeadTailProperties DEF LeadsWell
<1>2. \A o \in Orders : Result(o, Row(o)', t) = Result(o, Row(o), p)
  BY <1>1, ResultTail
<1>3. \A r \in Riders : BoundAfter(p, r) => BoundAfter(t, r)'
  <2>1. \A r \in Riders : BoundAfter(t, r)' <=> \E o \in Orders : BoundRow(Result(o, Row(o)', t), r)
    BY DEF BoundAfter
  <2> QED  BY <1>2, <2>1 DEF BoundAfter
<1>4. Len(t) <= 7 /\ \A i \in 1..Len(t) : t[i].do = "assignable" => i = Len(t)
  <2>1. ASSUME NEW i \in 1..Len(t), t[i].do = "assignable" PROVE i = Len(t)
    <3>1. i + 1 \in 1..Len(p) /\ p[i + 1].do = "assignable"
      BY <1>1, <2>1
    <3>2. i + 1 = Len(p)
      BY <3>1 DEF LeadsWell
    <3>3. Len(t) = Len(p) - 1 /\ Len(p) \in Nat /\ i \in Nat
      BY <1>1
    <3> QED  BY <3>2, <3>3
  <2>2. Len(t) = Len(p) - 1 /\ Len(p) \in Nat /\ Len(p) <= 7
    BY <1>1
  <2>3. Len(t) <= 7
    BY <2>2
  <2> QED  BY <2>1, <2>3
<1>5. \A o \in Orders : GoodRow(Result(o, Row(o)', t))
  BY <1>2 DEF LeadsWell
<1>6. ASSUME NEW r \in Riders
      PROVE  /\ Frees(p, r) => FreesAt(p[1], r) \/ Frees(t, r)
             /\ Occupies(t, r) => Occupies(p, r)
             /\ OccupiesAt(p[1], r) => Occupies(p, r)
  <2>1. \A i \in 1..Len(p) : i = 1 \/ (i - 1 \in 1..Len(t) /\ (i - 1) + 1 = i)
    BY <1>1
  <2>2. \A i \in 1..Len(t) : i + 1 \in 1..Len(p)
    BY <1>1
  <2>3. 1 \in 1..Len(p)
    BY <1>1
  <2>4. \A i \in 1..Len(p) : i = 1 \/ p[i] = t[i - 1]
    BY <1>1, <2>1
  <2> QED  BY <1>1, <2>1, <2>2, <2>3, <2>4 DEF Frees, Occupies
<1>7. ASSUME NEW r \in Riders
      PROVE  /\ rider'[r] \in Busy => BoundAfter(t, r)' \/ Frees(t, r)
             /\ Occupies(t, r) => BoundAfter(t, r)'
  <2>1. /\ rider[r] \in Busy => BoundAfter(p, r) \/ Frees(p, r)
        /\ Occupies(p, r) => BoundAfter(p, r)
    BY DEF LeadsWell
  <2> QED  BY <1>3, <1>6, <2>1 DEF BusyAfter
<1> QED
  <2>1. LeadsWell(t)' <=>
          /\ Len(t) <= 7
          /\ \A i \in 1..Len(t) : t[i].do = "assignable" => i = Len(t)
          /\ \A o \in Orders : GoodRow(Result(o, Row(o)', t))
          /\ \A r \in Riders : /\ rider'[r] \in Busy => BoundAfter(t, r)' \/ Frees(t, r)
                               /\ Occupies(t, r) => BoundAfter(t, r)'
    BY DEF LeadsWell
  <2> QED  BY <1>4, <1>5, <1>7, <2>1

(* Only one handler is at work, before and after. *)
LEMMA AloneAtWork ==
    ASSUME DispatchInv, calm', NEW a \in Actors, job[a] # <<>>, NEW q, job' = [job EXCEPT ![a] = q],
           UNCHANGED calm, IInv', LeadsWell(q)'
    PROVE  DispatchInv'
<1>1. calm /\ OneHandler /\ job \in [Actors -> Seq(Statement)]
  BY DEF DispatchInv, IInv, TypeOK
<1>2. job'[a] = q /\ \A b \in Actors : b # a => job'[b] = <<>>
  BY <1>1 DEF OneHandler, Idle
<1>3. OneHandler'
  BY <1>2 DEF OneHandler, Idle
<1>4. ASSUME Quiet' PROVE q = <<>>
  BY <1>2, <1>4 DEF Quiet, Idle
<1>5. ASSUME NEW b \in Actors, ~Idle(b)' PROVE LeadsWell(job[b])'
  <2>1. b = a
    BY <1>2, <1>5 DEF Idle
  <2>2. job'[b] = q
    BY <1>2, <2>1
  <2> QED
    BY <2>2 DEF LeadsWell, Row, BoundAfter
<1>6. ASSUME Quiet' PROVE LeadsWell(<<>>)'
  BY <1>4, <1>6
<1> QED  BY <1>3, <1>5, <1>6 DEF DispatchInv

(* Statement s changes the columns of its order as StatusAfter etc. say. *)
LEMMA Columns ==
    ASSUME NEW s,
           \A o \in Orders :
               IF o = s.o
               THEN /\ delivery'[o].status = StatusAfter(s, delivery[o].status)
                    /\ delivery'[o].rider = RiderAfter(s, delivery[o].rider)
                    /\ order'[o] = OrderAfter(s, order[o])
                    /\ offers'[o] = OffersAfter(s, offers[o])
               ELSE delivery'[o] = delivery[o] /\ order'[o] = order[o] /\ offers'[o] = offers[o]
    PROVE  \A o \in Orders : Row(o)' = Eff(o, Row(o), s)
<1> TAKE o \in Orders
<1>1. /\ Row(o).st = delivery[o].status /\ Row(o).dr = delivery[o].rider
      /\ Row(o).os = order[o] /\ Row(o).f = offers[o]
  BY DEF Row, RowOf
<1>2. CASE o = s.o
  <2>1. Eff(o, Row(o), s)
      = RowOf(StatusAfter(s, delivery[o].status), RiderAfter(s, delivery[o].rider),
                                  OrderAfter(s, order[o]), OffersAfter(s, offers[o]))
    BY <1>1, <1>2 DEF Eff
  <2>2. Row(o)' = RowOf(delivery'[o].status, delivery'[o].rider, order'[o], offers'[o])
    BY DEF Row
  <2> QED  BY <1>2, <2>1, <2>2
<1>3. CASE o # s.o
  <2>1. Row(o)' = Row(o)
    BY <1>3 DEF Row
  <2> QED  BY <1>3, <2>1 DEF Eff
<1> QED  BY <1>2, <1>3

LEMMA DispatchProceed ==
    ASSUME DispatchInv, NEW a \in Actors, job[a] # <<>>, Proceed(a), IInv',
           NEW s, s = Now(a),
           \A o \in Orders : Row(o)' = Eff(o, Row(o), s),
           \A r \in Riders : BusyAfter(s, r)
    PROVE  DispatchInv'
<1> SUFFICES ASSUME calm' PROVE DispatchInv'
  BY DEF DispatchInv
<1>1. calm /\ job' = [job EXCEPT ![a] = Tail(@)] /\ UNCHANGED calm
  BY DEF Proceed
<1>2. job \in [Actors -> Seq(Statement)] /\ s = job[a][1]
  BY NowTypes DEF DispatchInv, IInv, TypeOK
<1>3. PICK p \in Seq(Statement) : p = job[a]
  BY <1>2
<1>4. LeadsWell(p)
  BY <1>1, <1>3 DEF DispatchInv, Idle
<1>5. PICK t \in Seq(Statement) : t = Tail(p)
  BY <1>3, HeadTailProperties
<1>6. LeadsWell(t)'
  BY <1>2, <1>3, <1>4, <1>5, LeadsOn
<1>7. job' = [job EXCEPT ![a] = t]
  BY <1>1, <1>2, <1>3, <1>5
<1> QED  BY <1>1, <1>6, <1>7, AloneAtWork

LEMMA DispatchExecute ==
    ASSUME DispatchInv, NEW a \in Actors, Execute(a), ~CheckAssignable(a)
    PROVE  DispatchInv'
<1>0. IInv /\ IInv' /\ job[a] # <<>>
  <2>1. job[a] # <<>>
    BY DEF Execute, CheckEligible, CheckAssignable, BindRider, ReleaseDelivery,
       CreateAssignmentRecord, RespondToOffers, ExpireOffer, AdvanceDelivery, MarkVerified,
       Transition, UpdateRider, FailDelivery, CallAutoAssign, Doing
  <2> QED  BY <2>1, ExecutePreserves DEF DispatchInv
<1>1. PICK s \in Statement : s = Now(a)
  BY <1>0, NowTypes
<1>2. /\ delivery \in [Orders -> Delivery] /\ order \in [Orders -> OrderStatus]
      /\ offers \in [Orders -> Seq(Offer)] /\ rider \in [Riders -> RiderStatus] /\ s.o \in Orders
  BY <1>0, <1>1, NowTypes, StatementFields
<1>3. CASE Give(a)
  BY <1>0, <1>3 DEF Give, DispatchInv
<1>4. ASSUME Proceed(a), UNCHANGED rider, \A o \in Orders : Row(o)' = Eff(o, Row(o), s),
             s.do # "fail", s.do # "rider"
      PROVE  DispatchInv'
  <2>1. \A r \in Riders : BusyAfter(s, r)
    BY <1>4 DEF BusyAfter, FreesAt
  <2> QED  BY <1>0, <1>1, <1>4, <2>1, DispatchProceed
<1>5. ASSUME UNCHANGED <<delivery, order, offers>>,
             s.do \in {"eligible", "verify", "rider", "dispatch"}
      PROVE  \A o \in Orders : Row(o)' = Eff(o, Row(o), s)
  <2>1. \A x : StatusAfter(s, x) = x /\ RiderAfter(s, x) = x /\ OrderAfter(s, x) = x
               /\ OffersAfter(s, x) = x
    BY <1>5 DEF StatusAfter, RiderAfter, OrderAfter, OffersAfter
  <2> QED  BY <1>5, <2>1, Columns
<1>a. CASE CheckEligible(a) /\ ~Give(a)
  <2>1. Proceed(a) /\ UNCHANGED <<delivery, order, offers, rider>> /\ s.do = "eligible"
    BY <1>1, <1>a DEF CheckEligible, Doing
  <2>2. UNCHANGED rider
    BY <2>1
  <2> QED  BY <1>4, <1>5, <2>1, <2>2
<1>c. CASE BindRider(a) /\ ~Give(a)
  <2>1. /\ delivery' = [delivery EXCEPT ![s.o].status = "ASSIGNED", ![s.o].rider = s.r]
        /\ Proceed(a) /\ s.do \in {"bind", "create"} /\ UNCHANGED <<order, offers, rider>>
    BY <1>1, <1>c DEF BindRider, Doing
  <2>2. /\ \A x : StatusAfter(s, x) = "ASSIGNED" /\ RiderAfter(s, x) = s.r /\ OrderAfter(s, x) = x
                  /\ OffersAfter(s, x) = x
    BY <2>1 DEF StatusAfter, RiderAfter, OrderAfter, OffersAfter
  <2>3. \A o \in Orders : IF o = s.o THEN delivery'[o].status = "ASSIGNED" /\ delivery'[o].rider = s.r
                          ELSE delivery'[o] = delivery[o]
    BY <1>2, <2>1 DEF Delivery
  <2>4. \A o \in Orders : Row(o)' = Eff(o, Row(o), s)
    BY <2>1, <2>2, <2>3, Columns
  <2> QED  BY <1>4, <2>1, <2>4
<1>d. CASE ReleaseDelivery(a)
  <2>1. /\ delivery' = [delivery EXCEPT ![s.o].status = "CANCELLED", ![s.o].rider = NoRider]
        /\ Proceed(a) /\ s.do = "release" /\ UNCHANGED <<order, offers, rider>>
    BY <1>1, <1>d DEF ReleaseDelivery, Doing
  <2>2. /\ \A x : StatusAfter(s, x) = "CANCELLED" /\ RiderAfter(s, x) = NoRider
                  /\ OrderAfter(s, x) = x /\ OffersAfter(s, x) = x
    BY <2>1 DEF StatusAfter, RiderAfter, OrderAfter, OffersAfter
  <2>3. \A o \in Orders : IF o = s.o
                          THEN delivery'[o].status = "CANCELLED" /\ delivery'[o].rider = NoRider
                          ELSE delivery'[o] = delivery[o]
    BY <1>2, <2>1 DEF Delivery
  <2>4. \A o \in Orders : Row(o)' = Eff(o, Row(o), s)
    BY <2>1, <2>2, <2>3, Columns
  <2> QED  BY <1>4, <2>1, <2>4
<1>e. CASE CreateAssignmentRecord(a)
  <2>1. /\ offers' = [offers EXCEPT ![s.o] = Append(@, [rider |-> s.r, status |-> "OFFERED"])]
        /\ Proceed(a) /\ s.do = "offer" /\ UNCHANGED <<order, delivery, rider>>
    BY <1>1, <1>e DEF CreateAssignmentRecord, Doing
  <2>2. /\ \A x : /\ StatusAfter(s, x) = x /\ RiderAfter(s, x) = x /\ OrderAfter(s, x) = x
                  /\ OffersAfter(s, x) = Append(x, [rider |-> s.r, status |-> "OFFERED"])
    BY <2>1 DEF StatusAfter, RiderAfter, OrderAfter, OffersAfter
  <2>3. \A o \in Orders : offers'[o] = IF o = s.o THEN OffersAfter(s, offers[o]) ELSE offers[o]
    BY <1>2, <2>1, <2>2
  <2>4. \A o \in Orders : Row(o)' = Eff(o, Row(o), s)
    BY <2>1, <2>2, <2>3, Columns
  <2> QED  BY <1>4, <2>1, <2>4
<1>f. CASE RespondToOffers(a)
  <2>1. /\ offers' = [offers EXCEPT ![s.o] = Respond(offers[s.o], s.r, s.to)]
        /\ Proceed(a) /\ s.do = "respond" /\ UNCHANGED <<order, delivery, rider>>
    BY <1>1, <1>f DEF RespondToOffers, Doing, Respond
  <2>2. /\ \A x : /\ StatusAfter(s, x) = x /\ RiderAfter(s, x) = x /\ OrderAfter(s, x) = x
                  /\ OffersAfter(s, x) = Respond(x, s.r, s.to)
    BY <2>1 DEF StatusAfter, RiderAfter, OrderAfter, OffersAfter
  <2>3. \A o \in Orders : offers'[o] = IF o = s.o THEN OffersAfter(s, offers[o]) ELSE offers[o]
    BY <1>2, <2>1, <2>2
  <2>4. \A o \in Orders : Row(o)' = Eff(o, Row(o), s)
    BY <2>1, <2>2, <2>3, Columns
  <2> QED  BY <1>4, <2>1, <2>4
<1>g. CASE ExpireOffer(a)
  <2>1. /\ offers' = [offers EXCEPT ![s.o] = [offers[s.o] EXCEPT ![s.n].status = "EXPIRED"]]
        /\ Proceed(a) /\ s.do = "expire" /\ UNCHANGED <<order, delivery, rider>>
    BY <1>1, <1>g DEF ExpireOffer, Doing
  <2>2. /\ \A x : /\ StatusAfter(s, x) = x /\ RiderAfter(s, x) = x /\ OrderAfter(s, x) = x
                  /\ OffersAfter(s, x) = [x EXCEPT ![s.n].status = "EXPIRED"]
    BY <2>1 DEF StatusAfter, RiderAfter, OrderAfter, OffersAfter
  <2>3. \A o \in Orders : offers'[o] = IF o = s.o THEN OffersAfter(s, offers[o]) ELSE offers[o]
    BY <1>2, <2>1, <2>2
  <2>4. \A o \in Orders : Row(o)' = Eff(o, Row(o), s)
    BY <2>1, <2>2, <2>3, Columns
  <2> QED  BY <1>4, <2>1, <2>4
<1>h. CASE AdvanceDelivery(a)
  <2>1. /\ delivery' = [delivery EXCEPT ![s.o].status = s.to]
        /\ Proceed(a) /\ s.do = "advance" /\ UNCHANGED <<order, offers, rider>>
    BY <1>1, <1>h DEF AdvanceDelivery, Doing
  <2>2. /\ \A x : StatusAfter(s, x) = s.to /\ RiderAfter(s, x) = x /\ OrderAfter(s, x) = x
                  /\ OffersAfter(s, x) = x
    BY <2>1 DEF StatusAfter, RiderAfter, OrderAfter, OffersAfter
  <2>3. \A o \in Orders : IF o = s.o
                          THEN delivery'[o].status = s.to /\ delivery'[o].rider = delivery[o].rider
                          ELSE delivery'[o] = delivery[o]
    BY <1>2, <2>1 DEF Delivery
  <2>4. \A o \in Orders : Row(o)' = Eff(o, Row(o), s)
    BY <2>1, <2>2, <2>3, Columns
  <2> QED  BY <1>4, <2>1, <2>4
<1>i. CASE MarkVerified(a)
  <2>1. Proceed(a) /\ s.do = "verify" /\ UNCHANGED <<order, offers, rider>>
    BY <1>1, <1>i DEF MarkVerified, Doing
  <2>2. /\ \A x : StatusAfter(s, x) = x /\ RiderAfter(s, x) = x /\ OrderAfter(s, x) = x
                  /\ OffersAfter(s, x) = x
    BY <2>1 DEF StatusAfter, RiderAfter, OrderAfter, OffersAfter
  <2>3. \A o \in Orders : /\ delivery'[o].status = delivery[o].status
                          /\ delivery'[o].rider = delivery[o].rider
                          /\ o # s.o => delivery'[o] = delivery[o]
    BY <1>1, <1>2, <1>i DEF MarkVerified, Delivery
  <2>4. \A o \in Orders : Row(o)' = Eff(o, Row(o), s)
    BY <2>1, <2>2, <2>3, Columns
  <2> QED  BY <1>4, <2>1, <2>4
<1>j. CASE Transition(a)
  <2>1. /\ order' = [order EXCEPT ![s.o] = s.to]
        /\ Proceed(a) /\ s.do = "order" /\ UNCHANGED <<delivery, offers, rider>>
    BY <1>1, <1>j DEF Transition, Doing
  <2>2. /\ \A x : StatusAfter(s, x) = x /\ RiderAfter(s, x) = x /\ OrderAfter(s, x) = s.to
                  /\ OffersAfter(s, x) = x
    BY <2>1 DEF StatusAfter, RiderAfter, OrderAfter, OffersAfter
  <2>3. \A o \in Orders : order'[o] = IF o = s.o THEN s.to ELSE order[o]
    BY <1>2, <2>1
  <2>4. \A o \in Orders : Row(o)' = Eff(o, Row(o), s)
    BY <2>1, <2>2, <2>3, Columns
  <2> QED  BY <1>4, <2>1, <2>4
<1>k. CASE UpdateRider(a)
  <2>1. /\ rider' = [rider EXCEPT ![s.r] = s.to]
        /\ Proceed(a) /\ s.do = "rider" /\ UNCHANGED <<order, delivery, offers>>
    BY <1>1, <1>k DEF UpdateRider, Doing
  <2>2. \A o \in Orders : Row(o)' = Eff(o, Row(o), s)
    BY <1>5, <2>1
  <2>3. \A r \in Riders : rider'[r] = IF r = s.r THEN s.to ELSE rider[r]
    BY <1>2, <2>1
  <2>4. \A r \in Riders : BusyAfter(s, r)
    BY <2>1, <2>3 DEF BusyAfter, FreesAt, OccupiesAt
  <2> QED  BY <1>0, <1>1, <2>1, <2>2, <2>4, DispatchProceed
<1>l. CASE FailDelivery(a)
  <2>1. /\ delivery' = [delivery EXCEPT ![s.o].status = "FAILED"]
        /\ order' = [order EXCEPT ![s.o] = "DELIVERY_FAILED"]
        /\ rider' = [rider EXCEPT ![s.r] = "ONLINE"]
        /\ Proceed(a) /\ s.do = "fail" /\ UNCHANGED offers
    BY <1>1, <1>l DEF FailDelivery, Doing
  <2>2. /\ \A x : StatusAfter(s, x) = "FAILED" /\ RiderAfter(s, x) = x
                  /\ OrderAfter(s, x) = "DELIVERY_FAILED" /\ OffersAfter(s, x) = x
    BY <2>1 DEF StatusAfter, RiderAfter, OrderAfter, OffersAfter
  <2>3. \A o \in Orders : IF o = s.o
                          THEN delivery'[o].status = "FAILED" /\ delivery'[o].rider = delivery[o].rider
                          ELSE delivery'[o] = delivery[o]
    BY <1>2, <2>1 DEF Delivery
  <2>4. \A o \in Orders : order'[o] = IF o = s.o THEN "DELIVERY_FAILED" ELSE order[o]
    BY <1>2, <2>1
  <2>5. \A o \in Orders : Row(o)' = Eff(o, Row(o), s)
    BY <2>1, <2>2, <2>3, <2>4, Columns
  <2>6. \A r \in Riders : rider'[r] = IF r = s.r THEN "ONLINE" ELSE rider[r]
    BY <1>2, <2>1
  <2>7. \A r \in Riders : BusyAfter(s, r)
    BY <2>1, <2>6 DEF BusyAfter, FreesAt, Busy
  <2> QED  BY <1>0, <1>1, <2>1, <2>5, <2>7, DispatchProceed
<1>m. CASE CallAutoAssign(a)
  <2>1. Proceed(a) /\ UNCHANGED <<delivery, order, offers, rider>> /\ s.do = "dispatch"
    BY <1>1, <1>m DEF CallAutoAssign, Doing
  <2>2. UNCHANGED rider
    BY <2>1
  <2> QED  BY <1>4, <1>5, <2>1, <2>2
<1> QED
  BY <1>3, <1>a, <1>c, <1>d, <1>e, <1>f, <1>g, <1>h, <1>i, <1>j, <1>k, <1>l, <1>m DEF Execute

-----------------------------------------------------------------------------
(* The handlers' first actions leave programs that lead well *)

(* Between handlers: the rows of every order agree, and who is busy has a  *)
(* delivery.                                                               *)
Agrees ==
    /\ \A o \in Orders : Good(delivery[o].status, delivery[o].rider, order[o], offers[o])
    /\ \A r \in Riders : rider[r] \in Busy =>
           \E o \in Orders : delivery[o].rider = r /\ delivery[o].status \in Active

LEMMA Rows ==
    /\ \A st, dr, os, f : GoodRow(RowOf(st, dr, os, f)) <=> Good(st, dr, os, f)
    /\ \A st, dr, os, f, r : BoundRow(RowOf(st, dr, os, f), r) <=> dr = r /\ st \in Active
    /\ \A o : GoodRow(Row(o)) <=> Good(delivery[o].status, delivery[o].rider, order[o], offers[o])
    /\ \A o, r : BoundRow(Row(o), r) <=> delivery[o].rider = r /\ delivery[o].status \in Active
<1>1. /\ \A st, dr, os, f : GoodRow(RowOf(st, dr, os, f)) <=> Good(st, dr, os, f)
      /\ \A st, dr, os, f, r : BoundRow(RowOf(st, dr, os, f), r) <=> dr = r /\ st \in Active
  BY DEF GoodRow, BoundRow, RowOf
<1> QED  BY <1>1 DEF Row

LEMMA Between == LeadsWell(<<>>) <=> Agrees
<1>1. \A o : Result(o, Row(o), <<>>) = Row(o)
  BY ResultOfNone
<1>2. \A r : BoundAfter(<<>>, r)
             <=> \E o \in Orders : delivery[o].rider = r /\ delivery[o].status \in Active
  BY <1>1, Rows DEF BoundAfter
<1>3. \A r : ~Frees(<<>>, r) /\ ~Occupies(<<>>, r)
  BY DEF Frees, Occupies
<1>4. Len(<<>>) <= 7 /\ \A i \in 1..Len(<<>>) : <<>>[i].do = "assignable" => i = Len(<<>>)
  OBVIOUS
<1>5. (\A o \in Orders : GoodRow(Result(o, Row(o), <<>>)))
        <=> \A o \in Orders : Good(delivery[o].status, delivery[o].rider, order[o], offers[o])
  BY <1>1, Rows
<1> QED  BY <1>2, <1>3, <1>4, <1>5 DEF LeadsWell, Agrees

LEMMA DispatchStart ==
    ASSUME DispatchInv, NEW a \in Actors, NEW p, Start(a, p), IInv',
           calm /\ Agrees /\ p \in Seq(Statement) => LeadsWell(p)
    PROVE  DispatchInv'
<1> SUFFICES ASSUME calm' PROVE DispatchInv'
  BY DEF DispatchInv
<1>1. /\ Quiet /\ calm /\ UNCHANGED <<order, delivery, offers, rider>>
      /\ job'[a] = p /\ \A b \in Actors : b # a => job'[b] = <<>>
      /\ OneHandler'
  BY CalmStart DEF DispatchInv
<1>2. p \in Seq(Statement)
  BY <1>1 DEF IInv, TypeOK
<1>3. Agrees
  BY <1>1, Between DEF DispatchInv
<1>4. LeadsWell(p)
  BY <1>1, <1>2, <1>3
<1>5. LeadsWell(p)'
  BY <1>1, <1>4 DEF LeadsWell, BoundAfter, Row
<1>6. ASSUME Quiet' PROVE LeadsWell(<<>>)'
  <2>1. p = <<>>
    BY <1>1, <1>6 DEF Quiet, Idle
  <2> QED  BY <1>5, <2>1
<1>7. ASSUME NEW b \in Actors, ~Idle(b)' PROVE LeadsWell(job[b])'
  <2>1. job'[b] = p
    BY <1>1, <1>7 DEF Idle
  <2> QED  BY <1>5, <2>1 DEF LeadsWell, BoundAfter, Row
<1> QED  BY <1>1, <1>6, <1>7 DEF DispatchInv

(* A program that is about one order only. *)
OnlyOn(p, o) == \A i \in 1..Len(p) : /\ p[i].o = o
                                     /\ p[i].do = "assignable" => i = Len(p)
OccupiesNobody(p) == \A i \in 1..Len(p) : ~(p[i].do = "rider" /\ p[i].to \in Busy)

LEMMA Begins ==
    ASSUME Agrees, NEW o \in Orders, NEW p \in Seq(Statement), Len(p) <= 7, OnlyOn(p, o),
           NEW st, NEW dr, NEW os, NEW f, Result(o, Row(o), p) = RowOf(st, dr, os, f),
           Good(st, dr, os, f),
           \A r \in Riders : delivery[o].rider = r /\ delivery[o].status \in Active
                                => (dr = r /\ st \in Active) \/ Frees(p, r),
           OccupiesNobody(p) \/ \A r \in Riders : Occupies(p, r) => dr = r /\ st \in Active
    PROVE  LeadsWell(p)
<1>1. \A q \in Orders : q # o => Result(q, Row(q), p) = Row(q)
  BY ResultElsewhere DEF OnlyOn
<1>2. \A q \in Orders : GoodRow(Result(q, Row(q), p))
  BY <1>1, Rows DEF Agrees
<1>3. \A r \in Riders : dr = r /\ st \in Active => BoundAfter(p, r)
  BY Rows DEF BoundAfter
<1>4. ASSUME NEW r \in Riders, rider[r] \in Busy PROVE BoundAfter(p, r) \/ Frees(p, r)
  <2>1. PICK q \in Orders : delivery[q].rider = r /\ delivery[q].status \in Active
    BY <1>4 DEF Agrees
  <2>2. CASE q = o
    BY <1>3, <2>1, <2>2
  <2>3. CASE q # o
    BY <1>1, <2>1, <2>3, Rows DEF BoundAfter
  <2> QED  BY <2>2, <2>3
<1>5. ASSUME NEW r \in Riders, Occupies(p, r) PROVE BoundAfter(p, r)
  <2>1. ~OccupiesNobody(p)
    BY <1>5 DEF Occupies, OccupiesAt, OccupiesNobody
  <2> QED  BY <1>3, <1>5, <2>1
<1>6. \A i \in 1..Len(p) : p[i].do = "assignable" => i = Len(p)
  BY DEF OnlyOn
<1> QED  BY <1>2, <1>4, <1>5, <1>6 DEF LeadsWell

LEMMA CheckAssignableDispatch ==
    ASSUME DispatchInv, NEW a \in Actors, CheckAssignable(a)
    PROVE  DispatchInv'
<1>0. IInv /\ IInv' /\ job[a] # <<>>
  <2>1. Execute(a)
    BY DEF Execute
  <2> QED  BY <2>1, ExecutePreserves DEF DispatchInv, CheckAssignable, Doing
<1>1. PICK s \in Statement : s = Now(a)
  BY <1>0, NowTypes
<1>2. PICK o \in Orders : o = s.o
  BY StatementFields
<1>3. PICK r \in Riders : r = s.r
  BY <1>1 DEF CheckAssignable, Doing, Statement
<1>4. CASE Give(a)
  BY <1>0, <1>4 DEF Give, DispatchInv
<1>5. CASE ~Give(a)
  <2>1. PICK k \in {"create", "bind"} :
            /\ job' = [job EXCEPT ![a] = <<DoFor(k, o, r)>> \o FinishAssignment(o, r)]
            /\ UNCHANGED <<faults, calm>> /\ Assignable(o)
    BY <1>1, <1>2, <1>3, <1>5 DEF CheckAssignable
  <2>2. UNCHANGED <<order, delivery, offers, rider>>
    BY DEF CheckAssignable
  <2>3. PICK p : p = <<DoFor(k, o, r), DoFor("offer", o, r), DoTo("order", o, "RIDER_ASSIGNED"),
                       Do("rider", o, r, "BUSY")>>
    OBVIOUS
  <2>4. job' = [job EXCEPT ![a] = p]
    BY <2>1, <2>3, OneAndThree DEF FinishAssignment
  <2>5. job \in [Actors -> Seq(Statement)] /\ p \in Seq(Statement)
    <3>1. job \in [Actors -> Seq(Statement)] /\ job' \in [Actors -> Seq(Statement)]
      BY <1>0 DEF IInv, TypeOK
    <3> QED  BY <2>4, <3>1
  <2>6. SUFFICES ASSUME calm PROVE DispatchInv'
    BY <1>0, <2>1 DEF DispatchInv
  <2>7. LeadsWell(job[a])
    BY <1>0, <2>6 DEF DispatchInv, Idle
  <2>8. job[a] = <<s>>
    <3>1. /\ job[a] \in Seq(Statement) /\ Len(job[a]) \in Nat /\ Len(job[a]) >= 1
          /\ job[a][1] = s /\ s.do = "assignable"
      BY <1>0, <1>1, <2>5, NowTypes DEF CheckAssignable, Doing
    <3>2. 1 \in 1..Len(job[a])
      BY <3>1
    <3>3. Len(job[a]) = 1
      BY <2>7, <3>1, <3>2 DEF LeadsWell
    <3> QED  BY <3>1, <3>3
  <2>9. Agrees
    <3>1. s.do = "assignable"
      BY <1>1 DEF CheckAssignable, Doing
    <3>2. \A x, q : x = RowOf(x.st, x.dr, x.os, x.f) => Eff(q, x, s) = x
      <4>1. \A x : StatusAfter(s, x) = x /\ RiderAfter(s, x) = x /\ OrderAfter(s, x) = x
                   /\ OffersAfter(s, x) = x
        BY <3>1 DEF StatusAfter, RiderAfter, OrderAfter, OffersAfter
      <4> QED  BY <4>1 DEF Eff
    <3>3. \A q : Row(q) = RowOf(Row(q).st, Row(q).dr, Row(q).os, Row(q).f)
      BY DEF Row, RowOf
    <3>4. \A q : Result(q, Row(q), job[a]) = Row(q)
      BY <2>8, <3>2, <3>3, ResultOfOne
    <3>5. \A q : ~Frees(job[a], q)
      BY <2>8, <3>1 DEF Frees, FreesAt
    <3>6. \A q \in Orders : Good(delivery[q].status, delivery[q].rider, order[q], offers[q])
      BY <2>7, <3>4, Rows DEF LeadsWell
    <3>7. \A q \in Riders : rider[q] \in Busy =>
              \E d \in Orders : delivery[d].rider = q /\ delivery[d].status \in Active
      BY <2>7, <3>4, <3>5, Rows DEF LeadsWell, BoundAfter
    <3> QED  BY <3>6, <3>7 DEF Agrees
  <2>10. PICK f : f = Append(offers[o], [rider |-> r, status |-> "OFFERED"])
    OBVIOUS
  <2>11. Result(o, Row(o), p) = RowOf("ASSIGNED", r, "RIDER_ASSIGNED", f)
    <3>1. Eff(o, Row(o), DoFor(k, o, r)) = RowOf("ASSIGNED", r, order[o], offers[o])
      BY EffBind DEF Row
    <3>2. Eff(o, RowOf("ASSIGNED", r, order[o], offers[o]), DoFor("offer", o, r))
            = RowOf("ASSIGNED", r, order[o], f)
      BY <2>10, EffOffer
    <3>3. Eff(o, RowOf("ASSIGNED", r, order[o], f), DoTo("order", o, "RIDER_ASSIGNED"))
            = RowOf("ASSIGNED", r, "RIDER_ASSIGNED", f)
      BY EffOrder
    <3>4. Eff(o, RowOf("ASSIGNED", r, "RIDER_ASSIGNED", f), Do("rider", o, r, "BUSY"))
            = RowOf("ASSIGNED", r, "RIDER_ASSIGNED", f)
      BY EffRider
    <3> QED  BY <2>3, <3>1, <3>2, <3>3, <3>4, ResultOfFour
  <2>12. Good("ASSIGNED", r, "RIDER_ASSIGNED", f)
    <3>1. NoneOpen(offers[o]) /\ offers[o] \in Seq(Offer)
      BY <1>0, <2>1, <2>9, RowTypes DEF Agrees, Good, Assignable, Active
    <3> QED  BY <2>10, <3>1, OfferMade, RiderAssumption DEF Good, Active
  <2>13. \A q \in Riders : Occupies(p, q) => q = r
    BY <2>3 DEF Occupies, OccupiesAt, DoFor, DoTo, Do
  <2>14. Len(p) <= 7 /\ OnlyOn(p, o)
    BY <2>3 DEF OnlyOn, DoFor, DoTo, Do
  <2>15. LeadsWell(p)
    BY <2>1, <2>5, <2>9, <2>11, <2>12, <2>13, <2>14, Begins DEF Assignable, Active
  <2>16. LeadsWell(p)'
    BY <2>2, <2>15 DEF LeadsWell, BoundAfter, Row
  <2> QED  BY <1>0, <2>1, <2>4, <2>6, <2>16, AloneAtWork
<1> QED  BY <1>4, <1>5

LEMMA TwoAndTwo ==
    ASSUME NEW w, NEW x, NEW y, NEW z
    PROVE  <<w, x>> \o <<y, z>> = <<w, x, y, z>>
<1> DEFINE S == {w, x, y, z}
           p == <<w, x>> \o <<y, z>>
           q == <<w, x, y, z>>
<1>1. p \in Seq(S) /\ q \in Seq(S) /\ Len(p) = 4 /\ Len(q) = 4
  OBVIOUS
<1>2. \A i \in 1..4 : p[i] = q[i]
  OBVIOUS
<1> HIDE DEF p, q, S
<1>3. p = q
  BY <1>1, <1>2, SeqEqual
<1> QED  BY <1>3 DEF p, q

LEMMA TwoTwoAndThree ==
    ASSUME NEW s, NEW t, NEW w, NEW x, NEW y, NEW z, NEW u
    PROVE  <<s, t>> \o <<w, x>> \o <<y, z, u>> = <<s, t, w, x, y, z, u>>
<1> DEFINE S == {s, t, w, x, y, z, u}
           p == <<s, t, w, x>> \o <<y, z, u>>
           q == <<s, t, w, x, y, z, u>>
<1>1. p \in Seq(S) /\ q \in Seq(S) /\ Len(p) = 7 /\ Len(q) = 7
  OBVIOUS
<1>2. \A i \in 1..7 : p[i] = q[i]
  OBVIOUS
<1> HIDE DEF p, q, S
<1>3. p = q
  BY <1>1, <1>2, SeqEqual
<1>4. <<s, t>> \o <<w, x>> = <<s, t, w, x>>
  BY TwoAndTwo
<1> QED  BY <1>3, <1>4 DEF p, q

LEMMA RespondTypes ==
    ASSUME NEW f \in Seq(Offer), NEW r, NEW to \in OfferStatus
    PROVE  Respond(f, r, to) \in Seq(Offer)
<1> DEFINE g == Respond(f, r, to)
<1>1. Len(f) \in Nat
  OBVIOUS
<1>2. ASSUME NEW n \in 1..Len(f)
      PROVE  (IF /\ r \in {NoRider, f[n].rider}
                 /\ f[n].status \in (IF to = "CANCELLED" THEN {"OFFERED", "ACCEPTED"} ELSE {"OFFERED"})
              THEN [f[n] EXCEPT !.status = to] ELSE f[n]) \in Offer
  <2>1. f[n] \in Offer
    OBVIOUS
  <2>2. [f[n] EXCEPT !.status = to] \in Offer
    BY <2>1 DEF Offer
  <2> QED  BY <2>1, <2>2
<1>3. g \in [1..Len(f) -> Offer]
  BY <1>2 DEF Respond
<1> HIDE DEF g
<1>4. g \in Seq(Offer)
  BY <1>1, <1>3
<1> QED  BY <1>4 DEF g

LEMMA NowGood ==
    ASSUME Agrees, NEW o \in Orders
    PROVE  /\ Row(o) = RowOf(delivery[o].status, delivery[o].rider, order[o], offers[o])
           /\ Good(delivery[o].status, delivery[o].rider, order[o], offers[o])
BY DEF Agrees, Row

(* The programs that are not named in RiderDispatch. *)
GivesBack(e, o, r) ==
    <<e, DoTo("release", o, "CANCELLED"), Do("rider", o, r, "ONLINE"),
      DoTo("order", o, "READY_FOR_PICKUP"), DoTo("dispatch", o, "NONE")>>
Accepts(o, r) ==
    <<DoTo("advance", o, "ACCEPTED"), Do("respond", o, r, "ACCEPTED"), Do("rider", o, r, "ON_DELIVERY")>>
VerifiesAndPicksUp(o) ==
    <<DoTo("verify", o, "PICKED_UP"), DoTo("advance", o, "PICKED_UP"), DoTo("order", o, "PICKED_UP")>>
VerifiesAndCompletes(o, r) ==
    <<DoTo("verify", o, "DELIVERED"), DoTo("advance", o, "DELIVERED"),
      DoTo("order", o, "DELIVERED"), Do("rider", o, r, "ONLINE")>>
Releases(o) == <<DoTo("release", o, "CANCELLED"), DoTo("order", o, "READY_FOR_PICKUP")>>
LetsGoAndReleases(o, r) ==
    <<Do("respond", o, NoRider, "CANCELLED"), Do("rider", o, r, "ONLINE"),
      DoTo("release", o, "CANCELLED"), DoTo("order", o, "READY_FOR_PICKUP")>>
Moves(o, w, r) ==
    <<Do("respond", o, w, "CANCELLED"), Do("rider", o, w, "ONLINE"),
      DoFor("eligible", o, r), DoFor("bind", o, r),
      DoFor("offer", o, r), DoTo("order", o, "RIDER_ASSIGNED"), Do("rider", o, r, "BUSY")>>

(* What every one of them is made of, whom it frees and occupies. *)
LEMMA GivesBackParts ==
    ASSUME NEW o, NEW r, NEW e, e.o = o, e.do \in {"respond", "expire"}
    PROVE  LET p == GivesBack(e, o, r) IN
           /\ Len(p) <= 7
           /\ OnlyOn(p, o)
           /\ OccupiesNobody(p)
           /\ Frees(p, r)
<1>0. PICK p : p = GivesBack(e, o, r)
  OBVIOUS
<1>1. /\ Len(p) = 5 /\ p[1] = e
      /\ p[2] = DoTo("release", o, "CANCELLED") /\ p[3] = Do("rider", o, r, "ONLINE")
      /\ p[4] = DoTo("order", o, "READY_FOR_PICKUP") /\ p[5] = DoTo("dispatch", o, "NONE")
  BY <1>0 DEF GivesBack
<1>2. \A i \in 1..Len(p) : i \in {1, 2, 3, 4, 5}
  BY <1>1
<1>3. OnlyOn(p, o)
  BY <1>1, <1>2 DEF OnlyOn, DoTo, Do
<1>4. OccupiesNobody(p)
  BY <1>1, <1>2 DEF OccupiesNobody, Busy, DoTo, Do
<1>5. Len(p) <= 7 /\ 3 \in 1..Len(p)
  BY <1>1
<1>6. Frees(p, r)
  <2>1. FreesAt(p[3], r)
    BY <1>1 DEF FreesAt, Busy, Do
  <2> QED  BY <1>5, <2>1 DEF Frees
<1> QED  BY <1>0, <1>3, <1>4, <1>5, <1>6

LEMMA AcceptsParts ==
    ASSUME NEW o, NEW r
    PROVE  LET p == Accepts(o, r) IN
           /\ Len(p) <= 7
           /\ OnlyOn(p, o)
           /\ \A q : Occupies(p, q) => q = r
<1>0. PICK p : p = Accepts(o, r)
  OBVIOUS
<1>1. /\ Len(p) = 3 /\ p[1] = DoTo("advance", o, "ACCEPTED")
      /\ p[2] = Do("respond", o, r, "ACCEPTED") /\ p[3] = Do("rider", o, r, "ON_DELIVERY")
  BY <1>0 DEF Accepts
<1>2. \A i \in 1..Len(p) : i \in {1, 2, 3}
  BY <1>1
<1>3. OnlyOn(p, o)
  BY <1>1, <1>2 DEF OnlyOn, DoTo, Do
<1>4. \A q : Occupies(p, q) => q = r
  BY <1>1, <1>2 DEF Occupies, OccupiesAt, Busy, DoTo, Do
<1>5. Len(p) <= 7
  BY <1>1
<1> QED  BY <1>0, <1>3, <1>4, <1>5

LEMMA PickUpParts ==
    ASSUME NEW o
    PROVE  LET p == PickUp(o) IN
           /\ Len(p) <= 7
           /\ OnlyOn(p, o)
           /\ OccupiesNobody(p)
<1>0. PICK p : p = PickUp(o)
  OBVIOUS
<1>1. /\ Len(p) = 2 /\ p[1] = DoTo("advance", o, "PICKED_UP")
      /\ p[2] = DoTo("order", o, "PICKED_UP")
  BY <1>0 DEF PickUp
<1>2. \A i \in 1..Len(p) : i \in {1, 2}
  BY <1>1
<1>3. OnlyOn(p, o)
  BY <1>1, <1>2 DEF OnlyOn, DoTo, Do
<1>4. OccupiesNobody(p)
  BY <1>1, <1>2 DEF OccupiesNobody, Busy, DoTo, Do
<1>5. Len(p) <= 7
  BY <1>1
<1> QED  BY <1>0, <1>3, <1>4, <1>5

LEMMA VerifiesAndPicksUpParts ==
    ASSUME NEW o
    PROVE  LET p == VerifiesAndPicksUp(o) IN
           /\ Len(p) <= 7
           /\ OnlyOn(p, o)
           /\ OccupiesNobody(p)
<1>0. PICK p : p = VerifiesAndPicksUp(o)
  OBVIOUS
<1>1. /\ Len(p) = 3 /\ p[1] = DoTo("verify", o, "PICKED_UP")
      /\ p[2] = DoTo("advance", o, "PICKED_UP") /\ p[3] = DoTo("order", o, "PICKED_UP")
  BY <1>0 DEF VerifiesAndPicksUp
<1>2. \A i \in 1..Len(p) : i \in {1, 2, 3}
  BY <1>1
<1>3. OnlyOn(p, o)
  BY <1>1, <1>2 DEF OnlyOn, DoTo, Do
<1>4. OccupiesNobody(p)
  BY <1>1, <1>2 DEF OccupiesNobody, Busy, DoTo, Do
<1>5. Len(p) <= 7
  BY <1>1
<1> QED  BY <1>0, <1>3, <1>4, <1>5

LEMMA CompleteParts ==
    ASSUME NEW o, NEW r
    PROVE  LET p == Complete(o, r) IN
           /\ Len(p) <= 7
           /\ OnlyOn(p, o)
           /\ OccupiesNobody(p)
           /\ Frees(p, r)
<1>0. PICK p : p = Complete(o, r)
  OBVIOUS
<1>1. /\ Len(p) = 3 /\ p[1] = DoTo("advance", o, "DELIVERED")
      /\ p[2] = DoTo("order", o, "DELIVERED") /\ p[3] = Do("rider", o, r, "ONLINE")
  BY <1>0 DEF Complete
<1>2. \A i \in 1..Len(p) : i \in {1, 2, 3}
  BY <1>1
<1>3. OnlyOn(p, o)
  BY <1>1, <1>2 DEF OnlyOn, DoTo, Do
<1>4. OccupiesNobody(p)
  BY <1>1, <1>2 DEF OccupiesNobody, Busy, DoTo, Do
<1>5. Len(p) <= 7 /\ 3 \in 1..Len(p)
  BY <1>1
<1>6. Frees(p, r)
  <2>1. FreesAt(p[3], r)
    BY <1>1 DEF FreesAt, Busy, Do
  <2> QED  BY <1>5, <2>1 DEF Frees
<1> QED  BY <1>0, <1>3, <1>4, <1>5, <1>6

LEMMA VerifiesAndCompletesParts ==
    ASSUME NEW o, NEW r
    PROVE  LET p == VerifiesAndCompletes(o, r) IN
           /\ Len(p) <= 7
           /\ OnlyOn(p, o)
           /\ OccupiesNobody(p)
           /\ Frees(p, r)
<1>0. PICK p : p = VerifiesAndCompletes(o, r)
  OBVIOUS
<1>1. /\ Len(p) = 4 /\ p[1] = DoTo("verify", o, "DELIVERED")
      /\ p[2] = DoTo("advance", o, "DELIVERED") /\ p[3] = DoTo("order", o, "DELIVERED")
      /\ p[4] = Do("rider", o, r, "ONLINE")
  BY <1>0 DEF VerifiesAndCompletes
<1>2. \A i \in 1..Len(p) : i \in {1, 2, 3, 4}
  BY <1>1
<1>3. OnlyOn(p, o)
  BY <1>1, <1>2 DEF OnlyOn, DoTo, Do
<1>4. OccupiesNobody(p)
  BY <1>1, <1>2 DEF OccupiesNobody, Busy, DoTo, Do
<1>5. Len(p) <= 7 /\ 4 \in 1..Len(p)
  BY <1>1
<1>6. Frees(p, r)
  <2>1. FreesAt(p[4], r)
    BY <1>1 DEF FreesAt, Busy, Do
  <2> QED  BY <1>5, <2>1 DEF Frees
<1> QED  BY <1>0, <1>3, <1>4, <1>5, <1>6

LEMMA ReleasesParts ==
    ASSUME NEW o
    PROVE  LET p == Releases(o) IN
           /\ Len(p) <= 7
           /\ OnlyOn(p, o)
           /\ OccupiesNobody(p)
<1>0. PICK p : p = Releases(o)
  OBVIOUS
<1>1. /\ Len(p) = 2 /\ p[1] = DoTo("release", o, "CANCELLED")
      /\ p[2] = DoTo("order", o, "READY_FOR_PICKUP")
  BY <1>0 DEF Releases
<1>2. \A i \in 1..Len(p) : i \in {1, 2}
  BY <1>1
<1>3. OnlyOn(p, o)
  BY <1>1, <1>2 DEF OnlyOn, DoTo, Do
<1>4. OccupiesNobody(p)
  BY <1>1, <1>2 DEF OccupiesNobody, Busy, DoTo, Do
<1>5. Len(p) <= 7
  BY <1>1
<1> QED  BY <1>0, <1>3, <1>4, <1>5

LEMMA LetsGoAndReleasesParts ==
    ASSUME NEW o, NEW r
    PROVE  LET p == LetsGoAndReleases(o, r) IN
           /\ Len(p) <= 7
           /\ OnlyOn(p, o)
           /\ OccupiesNobody(p)
           /\ Frees(p, r)
<1>0. PICK p : p = LetsGoAndReleases(o, r)
  OBVIOUS
<1>1. /\ Len(p) = 4 /\ p[1] = Do("respond", o, NoRider, "CANCELLED")
      /\ p[2] = Do("rider", o, r, "ONLINE") /\ p[3] = DoTo("release", o, "CANCELLED")
      /\ p[4] = DoTo("order", o, "READY_FOR_PICKUP")
  BY <1>0 DEF LetsGoAndReleases
<1>2. \A i \in 1..Len(p) : i \in {1, 2, 3, 4}
  BY <1>1
<1>3. OnlyOn(p, o)
  BY <1>1, <1>2 DEF OnlyOn, DoTo, Do
<1>4. OccupiesNobody(p)
  BY <1>1, <1>2 DEF OccupiesNobody, Busy, DoTo, Do
<1>5. Len(p) <= 7 /\ 2 \in 1..Len(p)
  BY <1>1
<1>6. Frees(p, r)
  <2>1. FreesAt(p[2], r)
    BY <1>1 DEF FreesAt, Busy, Do
  <2> QED  BY <1>5, <2>1 DEF Frees
<1> QED  BY <1>0, <1>3, <1>4, <1>5, <1>6

LEMMA MovesParts ==
    ASSUME NEW o, NEW w, NEW r
    PROVE  LET p == Moves(o, w, r) IN
           /\ Len(p) <= 7
           /\ OnlyOn(p, o)
           /\ \A q : Occupies(p, q) => q = r
           /\ Frees(p, w)
<1>0. PICK p : p = Moves(o, w, r)
  OBVIOUS
<1>1. /\ Len(p) = 7 /\ p[1] = Do("respond", o, w, "CANCELLED")
      /\ p[2] = Do("rider", o, w, "ONLINE") /\ p[3] = DoFor("eligible", o, r)
      /\ p[4] = DoFor("bind", o, r) /\ p[5] = DoFor("offer", o, r)
      /\ p[6] = DoTo("order", o, "RIDER_ASSIGNED") /\ p[7] = Do("rider", o, r, "BUSY")
  BY <1>0 DEF Moves
<1>2. \A i \in 1..Len(p) : i \in {1, 2, 3, 4, 5, 6, 7}
  BY <1>1
<1>3. OnlyOn(p, o)
  BY <1>1, <1>2 DEF OnlyOn, DoFor, DoTo, Do
<1>4. \A q : Occupies(p, q) => q = r
  BY <1>1, <1>2 DEF Occupies, OccupiesAt, Busy, DoFor, DoTo, Do
<1>5. Len(p) <= 7 /\ 2 \in 1..Len(p)
  BY <1>1
<1>6. Frees(p, w)
  <2>1. FreesAt(p[2], w)
    BY <1>1 DEF FreesAt, Busy, Do
  <2> QED  BY <1>5, <2>1 DEF Frees
<1> QED  BY <1>0, <1>3, <1>4, <1>5, <1>6

(* What they make of the rows of their order. *)
LEMMA GivesBackResult ==
    ASSUME NEW o, NEW r, NEW e, NEW st, NEW dr, NEW os, NEW g,
           Eff(o, Row(o), e) = RowOf(st, dr, os, g)
    PROVE  Result(o, Row(o), GivesBack(e, o, r))
              = RowOf("CANCELLED", NoRider, "READY_FOR_PICKUP", g)
<1>1. Eff(o, RowOf(st, dr, os, g), DoTo("release", o, "CANCELLED"))
        = RowOf("CANCELLED", NoRider, os, g)
  BY EffRelease
<1>2. Eff(o, RowOf("CANCELLED", NoRider, os, g), Do("rider", o, r, "ONLINE"))
        = RowOf("CANCELLED", NoRider, os, g)
  BY EffRider
<1>3. Eff(o, RowOf("CANCELLED", NoRider, os, g), DoTo("order", o, "READY_FOR_PICKUP"))
        = RowOf("CANCELLED", NoRider, "READY_FOR_PICKUP", g)
  BY EffOrder
<1>4. Eff(o, RowOf("CANCELLED", NoRider, "READY_FOR_PICKUP", g), DoTo("dispatch", o, "NONE"))
        = RowOf("CANCELLED", NoRider, "READY_FOR_PICKUP", g)
  BY EffNoRow
<1> QED  BY <1>1, <1>2, <1>3, <1>4, ResultOfFive DEF GivesBack

LEMMA AcceptsResult ==
    ASSUME NEW o, NEW r, NEW st, NEW dr, NEW os, NEW f
    PROVE  Result(o, RowOf(st, dr, os, f), Accepts(o, r))
              = RowOf("ACCEPTED", dr, os, Respond(f, r, "ACCEPTED"))
<1>1. Eff(o, RowOf(st, dr, os, f), DoTo("advance", o, "ACCEPTED"))
        = RowOf("ACCEPTED", dr, os, f)
  BY EffAdvance
<1>2. Eff(o, RowOf("ACCEPTED", dr, os, f), Do("respond", o, r, "ACCEPTED"))
        = RowOf("ACCEPTED", dr, os, Respond(f, r, "ACCEPTED"))
  BY EffRespond
<1>3. Eff(o, RowOf("ACCEPTED", dr, os, Respond(f, r, "ACCEPTED")), Do("rider", o, r, "ON_DELIVERY"))
        = RowOf("ACCEPTED", dr, os, Respond(f, r, "ACCEPTED"))
  BY EffRider
<1> QED  BY <1>1, <1>2, <1>3, ResultOfThree DEF Accepts

LEMMA PickUpResult ==
    ASSUME NEW o, NEW st, NEW dr, NEW os, NEW f
    PROVE  Result(o, RowOf(st, dr, os, f), PickUp(o)) = RowOf("PICKED_UP", dr, "PICKED_UP", f)
<1>1. Eff(o, RowOf(st, dr, os, f), DoTo("advance", o, "PICKED_UP"))
        = RowOf("PICKED_UP", dr, os, f)
  BY EffAdvance
<1>2. Eff(o, RowOf("PICKED_UP", dr, os, f), DoTo("order", o, "PICKED_UP"))
        = RowOf("PICKED_UP", dr, "PICKED_UP", f)
  BY EffOrder
<1> QED  BY <1>1, <1>2, ResultOfTwo DEF PickUp

LEMMA VerifiesAndPicksUpResult ==
    ASSUME NEW o, NEW st, NEW dr, NEW os, NEW f
    PROVE  Result(o, RowOf(st, dr, os, f), VerifiesAndPicksUp(o))
              = RowOf("PICKED_UP", dr, "PICKED_UP", f)
<1>1. Eff(o, RowOf(st, dr, os, f), DoTo("verify", o, "PICKED_UP"))
        = RowOf(st, dr, os, f)
  BY EffNoRow
<1>2. Eff(o, RowOf(st, dr, os, f), DoTo("advance", o, "PICKED_UP"))
        = RowOf("PICKED_UP", dr, os, f)
  BY EffAdvance
<1>3. Eff(o, RowOf("PICKED_UP", dr, os, f), DoTo("order", o, "PICKED_UP"))
        = RowOf("PICKED_UP", dr, "PICKED_UP", f)
  BY EffOrder
<1> QED  BY <1>1, <1>2, <1>3, ResultOfThree DEF VerifiesAndPicksUp

LEMMA CompleteResult ==
    ASSUME NEW o, NEW r, NEW st, NEW dr, NEW os, NEW f
    PROVE  Result(o, RowOf(st, dr, os, f), Complete(o, r)) = RowOf("DELIVERED", dr, "DELIVERED", f)
<1>1. Eff(o, RowOf(st, dr, os, f), DoTo("advance", o, "DELIVERED"))
        = RowOf("DELIVERED", dr, os, f)
  BY EffAdvance
<1>2. Eff(o, RowOf("DELIVERED", dr, os, f), DoTo("order", o, "DELIVERED"))
        = RowOf("DELIVERED", dr, "DELIVERED", f)
  BY EffOrder
<1>3. Eff(o, RowOf("DELIVERED", dr, "DELIVERED", f), Do("rider", o, r, "ONLINE"))
        = RowOf("DELIVERED", dr, "DELIVERED", f)
  BY EffRider
<1> QED  BY <1>1, <1>2, <1>3, ResultOfThree DEF Complete

LEMMA VerifiesAndCompletesResult ==
    ASSUME NEW o, NEW r, NEW st, NEW dr, NEW os, NEW f
    PROVE  Result(o, RowOf(st, dr, os, f), VerifiesAndCompletes(o, r))
              = RowOf("DELIVERED", dr, "DELIVERED", f)
<1>1. Eff(o, RowOf(st, dr, os, f), DoTo("verify", o, "DELIVERED"))
        = RowOf(st, dr, os, f)
  BY EffNoRow
<1>2. Eff(o, RowOf(st, dr, os, f), DoTo("advance", o, "DELIVERED"))
        = RowOf("DELIVERED", dr, os, f)
  BY EffAdvance
<1>3. Eff(o, RowOf("DELIVERED", dr, os, f), DoTo("order", o, "DELIVERED"))
        = RowOf("DELIVERED", dr, "DELIVERED", f)
  BY EffOrder
<1>4. Eff(o, RowOf("DELIVERED", dr, "DELIVERED", f), Do("rider", o, r, "ONLINE"))
        = RowOf("DELIVERED", dr, "DELIVERED", f)
  BY EffRider
<1> QED  BY <1>1, <1>2, <1>3, <1>4, ResultOfFour DEF VerifiesAndCompletes

LEMMA ReleasesResult ==
    ASSUME NEW o, NEW st, NEW dr, NEW os, NEW f
    PROVE  Result(o, RowOf(st, dr, os, f), Releases(o))
              = RowOf("CANCELLED", NoRider, "READY_FOR_PICKUP", f)
<1>1. Eff(o, RowOf(st, dr, os, f), DoTo("release", o, "CANCELLED"))
        = RowOf("CANCELLED", NoRider, os, f)
  BY EffRelease
<1>2. Eff(o, RowOf("CANCELLED", NoRider, os, f), DoTo("order", o, "READY_FOR_PICKUP"))
        = RowOf("CANCELLED", NoRider, "READY_FOR_PICKUP", f)
  BY EffOrder
<1> QED  BY <1>1, <1>2, ResultOfTwo DEF Releases

LEMMA LetsGoAndReleasesResult ==
    ASSUME NEW o, NEW r, NEW st, NEW dr, NEW os, NEW f, NEW g, g = Respond(f, NoRider, "CANCELLED")
    PROVE  Result(o, RowOf(st, dr, os, f), LetsGoAndReleases(o, r))
              = RowOf("CANCELLED", NoRider, "READY_FOR_PICKUP", g)
<1>1. Eff(o, RowOf(st, dr, os, f), Do("respond", o, NoRider, "CANCELLED"))
        = RowOf(st, dr, os, g)
  BY EffRespond
<1>2. Eff(o, RowOf(st, dr, os, g), Do("rider", o, r, "ONLINE"))
        = RowOf(st, dr, os, g)
  BY EffRider
<1>3. Eff(o, RowOf(st, dr, os, g), DoTo("release", o, "CANCELLED"))
        = RowOf("CANCELLED", NoRider, os, g)
  BY EffRelease
<1>4. Eff(o, RowOf("CANCELLED", NoRider, os, g), DoTo("order", o, "READY_FOR_PICKUP"))
        = RowOf("CANCELLED", NoRider, "READY_FOR_PICKUP", g)
  BY EffOrder
<1> QED  BY <1>1, <1>2, <1>3, <1>4, ResultOfFour DEF LetsGoAndReleases

LEMMA MovesResult ==
    ASSUME NEW o, NEW w, NEW r, NEW st, NEW dr, NEW os, NEW f
    PROVE  Result(o, RowOf(st, dr, os, f), Moves(o, w, r))
              = RowOf("ASSIGNED", r, "RIDER_ASSIGNED",
                      Append(Respond(f, w, "CANCELLED"), [rider |-> r, status |-> "OFFERED"]))
<1>1. Eff(o, RowOf(st, dr, os, f), Do("respond", o, w, "CANCELLED"))
        = RowOf(st, dr, os, Respond(f, w, "CANCELLED"))
  BY EffRespond
<1>2. Eff(o, RowOf(st, dr, os, Respond(f, w, "CANCELLED")), Do("rider", o, w, "ONLINE"))
        = RowOf(st, dr, os, Respond(f, w, "CANCELLED"))
  BY EffRider
<1>3. Eff(o, RowOf(st, dr, os, Respond(f, w, "CANCELLED")), DoFor("eligible", o, r))
        = RowOf(st, dr, os, Respond(f, w, "CANCELLED"))
  BY EffNothing
<1>4. Eff(o, RowOf(st, dr, os, Respond(f, w, "CANCELLED")), DoFor("bind", o, r))
        = RowOf("ASSIGNED", r, os, Respond(f, w, "CANCELLED"))
  BY EffBind
<1>5. Eff(o, RowOf("ASSIGNED", r, os, Respond(f, w, "CANCELLED")), DoFor("offer", o, r))
        = RowOf("ASSIGNED", r, os, 
                      Append(Respond(f, w, "CANCELLED"), [rider |-> r, status |-> "OFFERED"]))
  BY EffOffer
<1>6. Eff(o, RowOf("ASSIGNED", r, os, 
                      Append(Respond(f, w, "CANCELLED"), [rider |-> r, status |-> "OFFERED"])), DoTo("order", o, "RIDER_ASSIGNED"))
        = RowOf("ASSIGNED", r, "RIDER_ASSIGNED",
                      Append(Respond(f, w, "CANCELLED"), [rider |-> r, status |-> "OFFERED"]))
  BY EffOrder
<1>7. Eff(o, RowOf("ASSIGNED", r, "RIDER_ASSIGNED",
                      Append(Respond(f, w, "CANCELLED"), [rider |-> r, status |-> "OFFERED"])), Do("rider", o, r, "BUSY"))
        = RowOf("ASSIGNED", r, "RIDER_ASSIGNED",
                      Append(Respond(f, w, "CANCELLED"), [rider |-> r, status |-> "OFFERED"]))
  BY EffRider
<1> QED  BY <1>1, <1>2, <1>3, <1>4, <1>5, <1>6, <1>7, ResultOfSeven DEF Moves

LEMMA CancelledOffers ==
    ASSUME NEW f \in Seq(Offer), NEW r, r = NoRider \/ NoneOpen(f) \/ (OneOpen(f) /\ OpenFor(f, r))
    PROVE  NoneOpen(Respond(f, r, "CANCELLED")) /\ OneOpen(Respond(f, r, "CANCELLED"))
<1> DEFINE g == Respond(f, r, "CANCELLED")
<1>1. g = Respond(f, r, "CANCELLED")
  OBVIOUS
<1> HIDE DEF g
<1> SUFFICES NoneOpen(g) /\ OneOpen(g)
  BY DEF g
<1> QED  BY <1>1, OffersCancelled

LEMMA GivesBackLeadsWell ==
    ASSUME Agrees, NEW o \in Orders, NEW r \in Riders, NEW e, NEW g,
           GivesBack(e, o, r) \in Seq(Statement),
           e.o = o, e.do \in {"respond", "expire"}, NoneOpen(g), OneOpen(g),
           Eff(o, Row(o), e) = RowOf(delivery[o].status, delivery[o].rider, order[o], g),
           delivery[o].status \in Active => delivery[o].rider = r
    PROVE  LeadsWell(GivesBack(e, o, r))
<1> DEFINE p == GivesBack(e, o, r)
<1>1. Result(o, Row(o), p) = RowOf("CANCELLED", NoRider, "READY_FOR_PICKUP", g)
  BY GivesBackResult
<1>2. Good("CANCELLED", NoRider, "READY_FOR_PICKUP", g)
  BY DEF Good, Active
<1>3. Len(p) <= 7 /\ OnlyOn(p, o) /\ OccupiesNobody(p) /\ Frees(p, r)
  BY GivesBackParts
<1>4. \A q \in Riders : delivery[o].rider = q /\ delivery[o].status \in Active => Frees(p, q)
  BY <1>3
<1> HIDE DEF p
<1>5. p \in Seq(Statement)
  BY DEF p
<1>6. LeadsWell(p)
  BY <1>1, <1>2, <1>3, <1>4, <1>5, Begins
<1> QED  BY <1>6 DEF p

LEMMA AcceptLeadsWell ==
    ASSUME Agrees, NEW o \in Orders, NEW r \in Riders, Accepts(o, r) \in Seq(Statement),
           offers[o] \in Seq(Offer), delivery[o].rider = r, delivery[o].status = "ASSIGNED"
    PROVE  LeadsWell(Accepts(o, r))
<1> DEFINE p == Accepts(o, r)
           g == Respond(offers[o], r, "ACCEPTED")
<1>1. Row(o) = RowOf("ASSIGNED", r, order[o], offers[o]) /\ Good("ASSIGNED", r, order[o], offers[o])
  BY NowGood
<1>2. Result(o, Row(o), p) = RowOf("ACCEPTED", r, order[o], g)
  BY <1>1, AcceptsResult
<1>3. NoneOpen(g) /\ OneOpen(g) /\ TakenBy(g, r)
  BY <1>1, OfferAnswered DEF Good
<1>4. Len(p) <= 7 /\ OnlyOn(p, o) /\ \A q : Occupies(p, q) => q = r
  BY AcceptsParts
<1> HIDE DEF p, g
<1>5. Good("ACCEPTED", r, order[o], g)
  BY <1>1, <1>3, RiderAssumption DEF Good, Active
<1>6. "ACCEPTED" \in Active
  BY DEF Active
<1>7. p \in Seq(Statement)
  BY DEF p
<1>8. /\ \A q \in Riders : delivery[o].rider = q /\ delivery[o].status \in Active => r = q
      /\ \A q \in Riders : Occupies(p, q) => r = q
  BY <1>4
<1>9. LeadsWell(p)
  BY <1>2, <1>4, <1>5, <1>6, <1>7, <1>8, Begins
<1> QED  BY <1>9 DEF p

(* A delivery under way moves to another status that is under way. *)
LEMMA MovesOnLeadsWell ==
    ASSUME Agrees, NEW o \in Orders, NEW r \in Riders, NEW p \in Seq(Statement),
           delivery[o].rider = r, NEW st \in Active, NEW os, Good(st, r, os, offers[o]),
           Len(p) <= 7, OnlyOn(p, o), OccupiesNobody(p),
           Result(o, Row(o), p) = RowOf(st, r, os, offers[o])
    PROVE  LeadsWell(p)
<1>1. \A q \in Riders : delivery[o].rider = q /\ delivery[o].status \in Active
                           => (r = q /\ st \in Active) \/ Frees(p, q)
  OBVIOUS
<1> QED  BY <1>1, Begins

LEMMA ArriveLeadsWell ==
    ASSUME Agrees, NEW o \in Orders, NEW r \in Riders, NEW to, NEW p \in Seq(Statement),
           p = <<DoTo("advance", o, to)>>, delivery[o].rider = r,
           \/ delivery[o].status = "ACCEPTED" /\ to = "ARRIVED_AT_STORE"
           \/ delivery[o].status = "PICKED_UP" /\ to = "ARRIVED_AT_CUSTOMER"
    PROVE  LeadsWell(p)
<1>1. /\ Row(o) = RowOf(delivery[o].status, r, order[o], offers[o]) /\ r # NoRider
      /\ Good(delivery[o].status, r, order[o], offers[o])
  BY NowGood, RiderAssumption
<1>2. Result(o, Row(o), p) = RowOf(to, r, order[o], offers[o])
  BY <1>1, ResultOfOne, EffAdvance
<1>3. Good(to, r, order[o], offers[o])
  BY <1>1 DEF Good, Active
<1>4. Len(p) <= 7 /\ OnlyOn(p, o) /\ OccupiesNobody(p)
  BY DEF OnlyOn, OccupiesNobody, DoTo, Do
<1>5. to \in Active
  BY DEF Active
<1> QED  BY <1>2, <1>3, <1>4, <1>5, MovesOnLeadsWell

LEMMA PickUpLeadsWell ==
    ASSUME Agrees, NEW o \in Orders, NEW r \in Riders, NEW p \in Seq(Statement),
           p = PickUp(o) \/ p = VerifiesAndPicksUp(o),
           delivery[o].rider = r, delivery[o].status = "ARRIVED_AT_STORE"
    PROVE  LeadsWell(p)
<1>1. /\ Row(o) = RowOf("ARRIVED_AT_STORE", r, order[o], offers[o]) /\ r # NoRider
      /\ Good("ARRIVED_AT_STORE", r, order[o], offers[o])
  BY NowGood, RiderAssumption
<1>2. Result(o, Row(o), p) = RowOf("PICKED_UP", r, "PICKED_UP", offers[o])
  BY <1>1, PickUpResult, VerifiesAndPicksUpResult
<1>3. Good("PICKED_UP", r, "PICKED_UP", offers[o])
  BY <1>1 DEF Good, Active
<1>4. Len(p) <= 7 /\ OnlyOn(p, o) /\ OccupiesNobody(p)
  BY PickUpParts, VerifiesAndPicksUpParts
<1>5. "PICKED_UP" \in Active
  BY DEF Active
<1> QED  BY <1>2, <1>3, <1>4, <1>5, MovesOnLeadsWell

(* A delivery ends, and its rider is set free. *)
LEMMA EndsLeadsWell ==
    ASSUME Agrees, NEW o \in Orders, NEW p \in Seq(Statement),
           NEW st, NEW dr, NEW os, NEW f, Good(st, dr, os, f),
           Len(p) <= 7, OnlyOn(p, o), OccupiesNobody(p),
           delivery[o].status \in Active => Frees(p, delivery[o].rider),
           Result(o, Row(o), p) = RowOf(st, dr, os, f)
    PROVE  LeadsWell(p)
<1>1. \A q \in Riders : delivery[o].rider = q /\ delivery[o].status \in Active
                           => (dr = q /\ st \in Active) \/ Frees(p, q)
  OBVIOUS
<1> QED  BY <1>1, Begins

LEMMA CompleteLeadsWell ==
    ASSUME Agrees, NEW o \in Orders, NEW r \in Riders, NEW p \in Seq(Statement),
           p = Complete(o, r) \/ p = VerifiesAndCompletes(o, r),
           delivery[o].rider = r, delivery[o].status = "ARRIVED_AT_CUSTOMER"
    PROVE  LeadsWell(p)
<1>1. /\ Row(o) = RowOf("ARRIVED_AT_CUSTOMER", r, order[o], offers[o])
      /\ Good("ARRIVED_AT_CUSTOMER", r, order[o], offers[o])
  BY NowGood
<1>2. Result(o, Row(o), p) = RowOf("DELIVERED", r, "DELIVERED", offers[o])
  BY <1>1, CompleteResult, VerifiesAndCompletesResult
<1>3. Good("DELIVERED", r, "DELIVERED", offers[o])
  BY <1>1 DEF Good, Active
<1>4. Len(p) <= 7 /\ OnlyOn(p, o) /\ OccupiesNobody(p) /\ Frees(p, r)
  BY CompleteParts, VerifiesAndCompletesParts
<1> QED  BY <1>2, <1>3, <1>4, EndsLeadsWell

LEMMA FailLeadsWell ==
    ASSUME Agrees, NEW o \in Orders, NEW r \in Riders, NEW p \in Seq(Statement),
           p = <<Do("fail", o, r, "FAILED")>>, delivery[o].rider = r
    PROVE  LeadsWell(p)
<1>1. /\ Row(o) = RowOf(delivery[o].status, r, order[o], offers[o]) /\ r # NoRider
      /\ Good(delivery[o].status, r, order[o], offers[o])
  BY NowGood, RiderAssumption
<1>2. Result(o, Row(o), p) = RowOf("FAILED", r, "DELIVERY_FAILED", offers[o])
  BY <1>1, ResultOfOne, EffFail
<1>3. Good("FAILED", r, "DELIVERY_FAILED", offers[o])
  BY <1>1 DEF Good, Active
<1>4. Len(p) <= 7 /\ OnlyOn(p, o) /\ OccupiesNobody(p)
  BY DEF OnlyOn, OccupiesNobody, Do
<1>5. Frees(p, r)
  BY DEF Frees, FreesAt, Do
<1> QED  BY <1>2, <1>3, <1>4, <1>5, EndsLeadsWell

LEMMA CancelLeadsWell ==
    ASSUME Agrees, NEW o \in Orders, NEW p \in Seq(Statement),
           p = <<DoTo("order", o, "CANCELLED_BY_ADMIN")>>,
           order[o] \in {"READY_FOR_PICKUP", "RIDER_ASSIGNED"}
    PROVE  LeadsWell(p)
<1>1. /\ Row(o) = RowOf(delivery[o].status, delivery[o].rider, order[o], offers[o])
      /\ Good(delivery[o].status, delivery[o].rider, order[o], offers[o])
  BY NowGood
<1>2. Result(o, Row(o), p)
        = RowOf(delivery[o].status, delivery[o].rider, "CANCELLED_BY_ADMIN", offers[o])
  BY <1>1, ResultOfOne, EffOrder
<1>3. Good(delivery[o].status, delivery[o].rider, "CANCELLED_BY_ADMIN", offers[o])
  BY <1>1 DEF Good, Active
<1>4. Len(p) <= 7 /\ OnlyOn(p, o) /\ OccupiesNobody(p)
  BY DEF OnlyOn, OccupiesNobody, DoTo, Do
<1> QED  BY <1>2, <1>3, <1>4, Begins

LEMMA UnassignLeadsWell ==
    ASSUME Agrees, NEW o \in Orders, NEW p \in Seq(Statement),
           p = LetGo(o, NoRider) \o Releases(o),
           offers[o] \in Seq(Offer), delivery[o].status \in DeliveryStatus,
           delivery[o].status \notin {"NONE", "PICKED_UP", "ARRIVED_AT_CUSTOMER", "DELIVERED"}
    PROVE  LeadsWell(p)
<1>1. /\ Row(o) = RowOf(delivery[o].status, delivery[o].rider, order[o], offers[o])
      /\ Good(delivery[o].status, delivery[o].rider, order[o], offers[o])
  BY NowGood
<1>2. CASE delivery[o].rider = NoRider
  <2>1. p = Releases(o)
    BY <1>2 DEF LetGo, Releases
  <2>2. Result(o, Row(o), p) = RowOf("CANCELLED", NoRider, "READY_FOR_PICKUP", offers[o])
    BY <1>1, <2>1, ReleasesResult
  <2>3. delivery[o].status \notin Active /\ NoneOpen(offers[o]) /\ OneOpen(offers[o])
    BY <1>1, <1>2 DEF Good, Active, DeliveryStatus
  <2>4. Good("CANCELLED", NoRider, "READY_FOR_PICKUP", offers[o])
    BY <2>3 DEF Good, Active
  <2>5. Len(p) <= 7 /\ OnlyOn(p, o) /\ OccupiesNobody(p)
    BY <2>1, ReleasesParts
  <2> QED  BY <2>2, <2>3, <2>4, <2>5, EndsLeadsWell
<1>3. CASE delivery[o].rider # NoRider
  <2>0. PICK r : r = delivery[o].rider
    OBVIOUS
  <2>1. p = LetsGoAndReleases(o, r)
    BY <1>3, <2>0, TwoAndTwo DEF LetGo, Releases, LetsGoAndReleases
  <2>2. PICK g : g = Respond(offers[o], NoRider, "CANCELLED")
    OBVIOUS
  <2>3. Result(o, Row(o), p) = RowOf("CANCELLED", NoRider, "READY_FOR_PICKUP", g)
    BY <1>1, <2>1, <2>2, LetsGoAndReleasesResult
  <2>4. NoneOpen(g) /\ OneOpen(g)
    BY <2>2, CancelledOffers
  <2>5. Good("CANCELLED", NoRider, "READY_FOR_PICKUP", g)
    BY <2>4 DEF Good, Active
  <2>6. Len(p) <= 7 /\ OnlyOn(p, o) /\ OccupiesNobody(p) /\ Frees(p, r)
    BY <2>1, LetsGoAndReleasesParts
  <2> QED  BY <2>0, <2>3, <2>5, <2>6, EndsLeadsWell
<1> QED  BY <1>2, <1>3

LEMMA ReassignLeadsWell ==
    ASSUME Agrees, NEW o \in Orders, NEW r \in Riders, NEW p \in Seq(Statement),
           p = LetGo(o, delivery[o].rider) \o <<DoFor("eligible", o, r), DoFor("bind", o, r)>>
                 \o FinishAssignment(o, r),
           offers[o] \in Seq(Offer),
           delivery[o].status \in {"ASSIGNED", "ACCEPTED", "ARRIVED_AT_STORE"}
    PROVE  LeadsWell(p)
<1>0. PICK w : w = delivery[o].rider
  OBVIOUS
<1>1. /\ Row(o) = RowOf(delivery[o].status, w, order[o], offers[o])
      /\ Good(delivery[o].status, w, order[o], offers[o]) /\ w # NoRider
  BY <1>0, NowGood DEF Good, Active
<1>2. p = Moves(o, w, r)
  BY <1>0, <1>1, TwoTwoAndThree DEF LetGo, FinishAssignment, Moves
<1>3. PICK g : g = Respond(offers[o], w, "CANCELLED")
  OBVIOUS
<1>4. PICK h : h = Append(g, [rider |-> r, status |-> "OFFERED"])
  OBVIOUS
<1>5. Result(o, Row(o), p) = RowOf("ASSIGNED", r, "RIDER_ASSIGNED", h)
  <2>1. Result(o, RowOf(delivery[o].status, w, order[o], offers[o]), Moves(o, w, r))
          = RowOf("ASSIGNED", r, "RIDER_ASSIGNED",
                  Append(Respond(offers[o], w, "CANCELLED"), [rider |-> r, status |-> "OFFERED"]))
    BY MovesResult
  <2> QED  BY <1>1, <1>2, <1>3, <1>4, <2>1
<1>6. NoneOpen(g) /\ g \in Seq(Offer)
  <2>1. NoneOpen(offers[o]) \/ (OneOpen(offers[o]) /\ OpenFor(offers[o], w))
    BY <1>1 DEF Good
  <2>2. g \in Seq(Offer)
    BY <1>3, RespondTypes DEF OfferStatus
  <2> QED  BY <1>3, <2>1, <2>2, CancelledOffers
<1>7. Good("ASSIGNED", r, "RIDER_ASSIGNED", h)
  <2>1. OneOpen(h) /\ OpenFor(h, r)
    BY <1>4, <1>6, OfferMade
  <2> QED  BY <2>1, RiderAssumption DEF Good, Active
<1>8. Len(p) <= 7 /\ OnlyOn(p, o) /\ Frees(p, w) /\ \A q : Occupies(p, q) => q = r
  BY <1>2, MovesParts
<1>9. /\ \A q \in Riders : delivery[o].rider = q /\ delivery[o].status \in Active => Frees(p, q)
      /\ \A q \in Riders : Occupies(p, q) => r = q
      /\ "ASSIGNED" \in Active
  BY <1>0, <1>8 DEF Active
<1> QED  BY <1>5, <1>7, <1>8, <1>9, Begins

LEMMA AssignLeadsWell ==
    ASSUME Agrees, NEW o \in Orders, NEW r \in Riders
    PROVE  /\ \A p \in Seq(Statement) : p = <<DoFor("assignable", o, r)>> => LeadsWell(p)
           /\ \A p \in Seq(Statement) :
                  p = <<DoFor("eligible", o, r), DoFor("assignable", o, r)>> => LeadsWell(p)
<1>1. /\ Row(o) = RowOf(delivery[o].status, delivery[o].rider, order[o], offers[o])
      /\ Good(delivery[o].status, delivery[o].rider, order[o], offers[o])
  BY NowGood
<1>2. ASSUME NEW p \in Seq(Statement), Result(o, Row(o), p) = Row(o), Len(p) <= 7, OnlyOn(p, o),
             OccupiesNobody(p)
      PROVE  LeadsWell(p)
  BY <1>1, <1>2, Begins
<1>3. ASSUME NEW p \in Seq(Statement), p = <<DoFor("assignable", o, r)>> PROVE LeadsWell(p)
  <2>1. Result(o, Row(o), p) = Row(o)
    BY <1>1, <1>3, ResultOfOne, EffNothing
  <2>2. Len(p) <= 7 /\ OnlyOn(p, o) /\ OccupiesNobody(p)
    BY <1>3 DEF OnlyOn, OccupiesNobody, DoFor, Do
  <2> QED  BY <1>2, <2>1, <2>2
<1>4. ASSUME NEW p \in Seq(Statement), p = <<DoFor("eligible", o, r), DoFor("assignable", o, r)>>
      PROVE  LeadsWell(p)
  <2>1. Result(o, Row(o), p) = Row(o)
    BY <1>1, <1>4, ResultOfTwo, EffNothing
  <2>2. Len(p) = 2 /\ p[1] = DoFor("eligible", o, r) /\ p[2] = DoFor("assignable", o, r)
    BY <1>4
  <2>3. \A i \in 1..Len(p) : i \in {1, 2}
    BY <2>2
  <2>4. Len(p) <= 7 /\ OnlyOn(p, o) /\ OccupiesNobody(p)
    BY <2>2, <2>3 DEF OnlyOn, OccupiesNobody, DoFor, Do
  <2> QED  BY <1>2, <2>1, <2>4
<1> QED  BY <1>3, <1>4

LEMMA RiderDispatches ==
    ASSUME DispatchInv, NEW r \in Riders, NEW o \in Orders, RiderRequest(r, o)
    PROVE  DispatchInv'
<1>0. r \in Actors /\ IInv' /\ offers[o] \in Seq(Offer)
  BY RiderPreserves, RowTypes DEF Actors, DispatchInv
<1>1. ASSUME NEW p, Start(r, p), Agrees /\ p \in Seq(Statement) => LeadsWell(p)
      PROVE  DispatchInv'
  BY <1>0, <1>1, DispatchStart
<1>a. CASE AcceptDelivery(r, o)
  <2>1. Start(r, Accepts(o, r)) /\ delivery[o].rider = r /\ delivery[o].status = "ASSIGNED"
    BY <1>a DEF AcceptDelivery, Accepts
  <2> QED  BY <1>0, <1>1, <2>1, AcceptLeadsWell
<1>b. CASE RejectOffer(r, o)
  <2> DEFINE e == Do("respond", o, r, "REJECTED")
             g == Respond(offers[o], r, "REJECTED")
  <2>1. Start(r, GivesBack(e, o, r)) /\ delivery[o].rider = r /\ delivery[o].status = "ASSIGNED"
    BY <1>b DEF RejectOffer, GivesBack
  <2>2. ASSUME Agrees PROVE NoneOpen(g) /\ OneOpen(g)
    <3>1. Good("ASSIGNED", r, order[o], offers[o])
      BY <2>1, <2>2, NowGood
    <3> QED  BY <1>0, <3>1, OfferAnswered DEF Good
  <2>3. Eff(o, Row(o), e) = RowOf(delivery[o].status, delivery[o].rider, order[o], g)
    BY EffRespond DEF Row
  <2>4. e.o = o /\ e.do \in {"respond", "expire"}
    BY DEF Do
  <2> HIDE DEF e, g
  <2> QED  BY <1>1, <2>1, <2>2, <2>3, <2>4, GivesBackLeadsWell
<1>c. CASE Arrive(r, o)
  <2>1. delivery[o].rider = r
    BY <1>c DEF Arrive
  <2>2. PICK to : /\ Start(r, <<DoTo("advance", o, to)>>)
                  /\ \/ delivery[o].status = "ACCEPTED" /\ to = "ARRIVED_AT_STORE"
                     \/ delivery[o].status = "PICKED_UP" /\ to = "ARRIVED_AT_CUSTOMER"
    BY <1>c DEF Arrive
  <2>3. Agrees /\ <<DoTo("advance", o, to)>> \in Seq(Statement)
          => LeadsWell(<<DoTo("advance", o, to)>>)
    BY <2>1, <2>2, ArriveLeadsWell
  <2> QED  BY <1>1, <2>2, <2>3
<1>d. ASSUME NEW p, Start(r, p), p = PickUp(o) \/ p = VerifiesAndPicksUp(o),
             delivery[o].rider = r, delivery[o].status = "ARRIVED_AT_STORE"
      PROVE  DispatchInv'
  BY <1>1, <1>d, PickUpLeadsWell
<1>e. ASSUME NEW p, Start(r, p), p = Complete(o, r) \/ p = VerifiesAndCompletes(o, r),
             delivery[o].rider = r, delivery[o].status = "ARRIVED_AT_CUSTOMER"
      PROVE  DispatchInv'
  BY <1>1, <1>e, CompleteLeadsWell
<1>f. CASE VerifyPickup(r, o)
  <2>1. delivery[o].rider = r /\ delivery[o].status = "ARRIVED_AT_STORE"
    BY <1>f DEF VerifyPickup
  <2>2. CASE delivery[o].pickupVerified
    <3>1. <<>> \o PickUp(o) = PickUp(o)
      BY DEF PickUp
    <3>2. Start(r, PickUp(o))
      BY <1>f, <2>2, <3>1 DEF VerifyPickup
    <3> QED  BY <1>d, <2>1, <3>2
  <2>3. CASE ~delivery[o].pickupVerified
    <3>1. <<DoTo("verify", o, "PICKED_UP")>> \o PickUp(o) = VerifiesAndPicksUp(o)
      BY TwoParts DEF PickUp, VerifiesAndPicksUp
    <3>2. Start(r, VerifiesAndPicksUp(o))
      BY <1>f, <2>3, <3>1 DEF VerifyPickup
    <3> QED  BY <1>d, <2>1, <3>2
  <2> QED  BY <2>2, <2>3
<1>g. CASE PickedUp(r, o)
  BY <1>d, <1>g DEF PickedUp
<1>h. CASE VerifyDelivery(r, o)
  <2>1. delivery[o].rider = r /\ delivery[o].status = "ARRIVED_AT_CUSTOMER"
    BY <1>h DEF VerifyDelivery
  <2>2. CASE delivery[o].deliveryVerified
    <3>1. <<>> \o Complete(o, r) = Complete(o, r)
      BY DEF Complete
    <3>2. Start(r, Complete(o, r))
      BY <1>h, <2>2, <3>1 DEF VerifyDelivery
    <3> QED  BY <1>e, <2>1, <3>2
  <2>3. CASE ~delivery[o].deliveryVerified
    <3>1. <<DoTo("verify", o, "DELIVERED")>> \o Complete(o, r) = VerifiesAndCompletes(o, r)
      BY OneAndThree DEF Complete, VerifiesAndCompletes
    <3>2. Start(r, VerifiesAndCompletes(o, r))
      BY <1>h, <2>3, <3>1 DEF VerifyDelivery
    <3> QED  BY <1>e, <2>1, <3>2
  <2> QED  BY <2>2, <2>3
<1>i. CASE MarkDelivered(r, o)
  BY <1>e, <1>i DEF MarkDelivered
<1>j. CASE MarkFailed(r, o)
  <2>1. PICK p : p = <<Do("fail", o, r, "FAILED")>>
    OBVIOUS
  <2>2. Start(r, p) /\ delivery[o].rider = r
    BY <1>j, <2>1 DEF MarkFailed
  <2>3. Agrees /\ p \in Seq(Statement) => LeadsWell(p)
    BY <2>1, <2>2, FailLeadsWell
  <2> QED  BY <1>1, <2>2, <2>3
<1> QED
  BY <1>a, <1>b, <1>c, <1>f, <1>g, <1>h, <1>i, <1>j DEF RiderRequest

LEMMA AdminDispatches ==
    ASSUME DispatchInv, NEW a \in Admins, NEW o \in Orders, AdminRequest(a, o)
    PROVE  DispatchInv'
<1>0. a \in Actors /\ IInv' /\ offers[o] \in Seq(Offer) /\ delivery[o].status \in DeliveryStatus
  BY AdminPreserves, RowTypes DEF Actors, DispatchInv, Delivery
<1>1. ASSUME NEW p, Start(a, p), Agrees /\ p \in Seq(Statement) => LeadsWell(p)
      PROVE  DispatchInv'
  BY <1>0, <1>1, DispatchStart
<1>2. ASSUME NEW r \in Riders, Assign(a, o, r) PROVE DispatchInv'
  BY <1>1, <1>2, AssignLeadsWell DEF Assign
<1>3. ASSUME NEW r \in Riders, Reassign(a, o, r) PROVE DispatchInv'
  <2>1. PICK p : p = LetGo(o, delivery[o].rider) \o <<DoFor("eligible", o, r), DoFor("bind", o, r)>>
                       \o FinishAssignment(o, r)
    OBVIOUS
  <2>2. Start(a, p) /\ delivery[o].status \in {"ASSIGNED", "ACCEPTED", "ARRIVED_AT_STORE"}
    BY <1>3, <2>1 DEF Reassign
  <2> QED  BY <1>0, <1>1, <2>1, <2>2, ReassignLeadsWell
<1>4. CASE Unassign(a, o)
  <2>1. PICK p : p = LetGo(o, NoRider) \o Releases(o)
    OBVIOUS
  <2>2. /\ Start(a, p)
        /\ delivery[o].status \notin {"NONE", "PICKED_UP", "ARRIVED_AT_CUSTOMER", "DELIVERED"}
    BY <1>4, <2>1 DEF Unassign, Releases
  <2> QED  BY <1>0, <1>1, <2>1, <2>2, UnassignLeadsWell
<1>5. CASE CancelByAdmin(a, o)
  <2>1. PICK p : p = <<DoTo("order", o, "CANCELLED_BY_ADMIN")>>
    OBVIOUS
  <2>2. Start(a, p) /\ order[o] \in {"READY_FOR_PICKUP", "RIDER_ASSIGNED"}
    BY <1>5, <2>1 DEF CancelByAdmin
  <2> QED  BY <1>1, <2>1, <2>2, CancelLeadsWell
<1> QED  BY <1>2, <1>3, <1>4, <1>5 DEF AdminRequest

LEMMA CronDispatches ==
    ASSUME DispatchInv, NEW a \in Crons, CronTick(a)
    PROVE  DispatchInv'
<1>0. a \in Actors /\ IInv'
  BY CronPreserves DEF Actors, DispatchInv
<1>1. PICK o \in Orders : \E n \in 1..Len(offers[o]) : ProcessPendingOffers(a, o, n)
  BY DEF CronTick
<1>2. PICK n \in 1..Len(offers[o]) : ProcessPendingOffers(a, o, n)
  BY <1>1
<1>3. PICK f \in Seq(Offer) : f = offers[o]
  BY RowTypes DEF DispatchInv
<1>4. PICK r \in Riders : r = f[n].rider
  <2>1. f[n] \in Offer
    BY <1>3
  <2> QED  BY <2>1 DEF Offer
<1> DEFINE e == [DoTo("expire", o, "EXPIRED") EXCEPT !.n = n]
           g == [f EXCEPT ![n].status = "EXPIRED"]
<1>5. Start(a, GivesBack(e, o, r)) /\ f[n].status = "OFFERED"
  BY <1>2, <1>3, <1>4 DEF ProcessPendingOffers, GivesBack
<1>6. Eff(o, Row(o), e) = RowOf(delivery[o].status, delivery[o].rider, order[o], g)
  BY <1>3, EffExpire DEF Row
<1>7. e.o = o /\ e.do \in {"respond", "expire"}
  BY DEF DoTo, Do
<1>8. ASSUME Agrees
      PROVE  /\ NoneOpen(g) /\ OneOpen(g)
             /\ delivery[o].status \in Active => delivery[o].rider = r
  <2>1. Good(delivery[o].status, delivery[o].rider, order[o], f)
    BY <1>3, <1>8, NowGood
  <2>2. NoneOpen(g) /\ OneOpen(g)
    BY <1>3, <1>5, <2>1, OfferExpired DEF Good
  <2>3. ~NoneOpen(f)
    BY <1>3, <1>5 DEF NoneOpen
  <2>4. delivery[o].status \in Active => OneOpen(f) /\ OpenFor(f, delivery[o].rider)
    BY <2>1, <2>3 DEF Good, Active
  <2>5. delivery[o].status \in Active => delivery[o].rider = r
    BY <1>3, <1>4, <1>5, <2>4 DEF OneOpen, OpenFor
  <2> QED  BY <2>2, <2>5
<1> HIDE DEF e, g
<1>9. ASSUME Agrees, GivesBack(e, o, r) \in Seq(Statement) PROVE LeadsWell(GivesBack(e, o, r))
  BY <1>6, <1>7, <1>8, <1>9, GivesBackLeadsWell
<1> QED  BY <1>0, <1>5, <1>9, DispatchStart

LEMMA AutoAssignDispatches ==
    ASSUME DispatchInv, NEW a \in Workers, NEW o \in Orders, AutoAssign(a, o)
    PROVE  DispatchInv'
<1>0. a \in Actors /\ IInv'
  BY AutoAssignPreserves DEF Actors, DispatchInv
<1>1. CASE Start(a, <<>>)
  BY <1>0, <1>1, DispatchStart, Between
<1>2. ASSUME NEW r \in Riders, Start(a, <<DoFor("eligible", o, r), DoFor("assignable", o, r)>>)
      PROVE  DispatchInv'
  <2>1. PICK p : p = <<DoFor("eligible", o, r), DoFor("assignable", o, r)>>
    OBVIOUS
  <2>2. Agrees /\ p \in Seq(Statement) => LeadsWell(p)
    BY <2>1, AssignLeadsWell
  <2> QED  BY <1>0, <1>2, <2>1, <2>2, DispatchStart
<1> QED  BY <1>1, <1>2 DEF AutoAssign

LEMMA InitDispatchInv == Init => DispatchInv
<1> SUFFICES ASSUME Init PROVE DispatchInv
  OBVIOUS
<1>1. OneHandler /\ \A a \in Actors : Idle(a)
  BY DEF Init, OneHandler, Idle
<1>2. Agrees
  <2>1. \A o \in Orders : /\ delivery[o].status = "NONE" /\ delivery[o].rider = NoRider
                          /\ order[o] = "READY_FOR_PICKUP" /\ offers[o] = <<>>
    BY DEF Init
  <2>2. NoneOpen(<<>>) /\ OneOpen(<<>>)
    BY DEF NoneOpen, OneOpen
  <2>3. Good("NONE", NoRider, "READY_FOR_PICKUP", <<>>)
    BY <2>2 DEF Good, Active
  <2>4. \A r \in Riders : rider[r] \notin Busy
    BY DEF Init, Busy
  <2> QED  BY <2>1, <2>3, <2>4 DEF Agrees
<1> QED  BY <1>1, <1>2, Between, InitIInv DEF DispatchInv

LEMMA NextDispatchInv == DispatchInv /\ [Next]_vars => DispatchInv'
<1> SUFFICES ASSUME DispatchInv, [Next]_vars PROVE DispatchInv'
  OBVIOUS
<1>0. IInv'
  BY NextIInv DEF DispatchInv
<1>1. ASSUME UNCHANGED <<order, delivery, offers, job, calm>>,
             \A r \in Riders : rider'[r] \in Busy => rider[r] \in Busy
      PROVE  DispatchInv'
  <2>1. (OneHandler => OneHandler') /\ (Quiet' => Quiet)
    BY <1>1 DEF OneHandler, Quiet, Idle
  <2>2. \A p : \A r \in Riders : BoundAfter(p, r)' <=> BoundAfter(p, r)
    BY <1>1 DEF BoundAfter, Row
  <2>3. \A p : LeadsWell(p) => LeadsWell(p)'
    BY <1>1, <2>2 DEF LeadsWell, Row
  <2>4. \A a \in Actors : /\ Idle(a)' => Idle(a)
                          /\ LeadsWell(job[a]) => LeadsWell(job[a])'
    BY <1>1, <2>3 DEF Idle
  <2> QED  BY <1>0, <1>1, <2>1, <2>3, <2>4 DEF DispatchInv, Idle
<1>2. CASE UNCHANGED vars
  BY <1>1, <1>2 DEF vars
<1>3. ASSUME NEW r \in Riders, UpdateStatus(r) PROVE DispatchInv'
  <2>1. UNCHANGED <<order, delivery, offers, job, calm>>
    BY <1>3 DEF UpdateStatus
  <2>2. rider \in [Riders -> RiderStatus]
    BY DEF DispatchInv, IInv, TypeOK
  <2>3. \A q \in Riders : rider'[q] \in Busy => rider[q] \in Busy
    BY <1>3, <2>2 DEF UpdateStatus, Busy
  <2> QED  BY <1>1, <2>1, <2>3
<1>4. ASSUME NEW a \in Actors, Crash(a) PROVE DispatchInv'
  BY <1>0, <1>4 DEF Crash, DispatchInv
<1>5. ASSUME NEW a \in Actors, Execute(a) PROVE DispatchInv'
  BY <1>5, DispatchExecute, CheckAssignableDispatch
<1> QED
  BY <1>2, <1>3, <1>4, <1>5, RiderDispatches, AdminDispatches, CronDispatches,
     AutoAssignDispatches DEF Next

LEMMA GoodRowsAgree ==
    ASSUME IInv, Agrees, NEW o \in Orders
    PROVE  OfferAgrees(o) /\ OrderAgrees(o)
<1>1. Good(delivery[o].status, delivery[o].rider, order[o], offers[o])
  BY DEF Agrees
<1>2. OfferAgrees(o)
  <2>1. CASE delivery[o].status = "ASSIGNED"
    <3>1. OneOpen(offers[o]) /\ OpenFor(offers[o], delivery[o].rider)
      BY <1>1, <2>1 DEF Good
    <3>2. PICK n \in 1..Len(offers[o]) : /\ offers[o][n].status = "OFFERED"
                                         /\ offers[o][n].rider = delivery[o].rider
      BY <3>1 DEF OpenFor
    <3>3. OffersIn(o, "OFFERED") = {n}
      BY <3>1, <3>2 DEF OffersIn, OneOpen
    <3> QED  BY <2>1, <3>2, <3>3 DEF OfferAgrees
  <2>2. CASE delivery[o].status # "ASSIGNED"
    <3>1. delivery[o].status # "FAILED" => OffersIn(o, "OFFERED") = {}
      BY <1>1, <2>2 DEF Good, NoneOpen, OffersIn
    <3>2. delivery[o].status \in Active =>
            \E n \in OffersIn(o, "ACCEPTED") : offers[o][n].rider = delivery[o].rider
      BY <1>1, <2>2 DEF Good, TakenBy, OffersIn
    <3> QED  BY <2>2, <3>1, <3>2 DEF OfferAgrees
  <2> QED  BY <2>1, <2>2
<1>3. OrderAgrees(o)
  BY <1>1 DEF Good, OrderAgrees
<1> QED  BY <1>2, <1>3

(* Between handlers that do not overlap or end half-way, the orders, the   *)
(* deliveries, the offers and the riders' statuses agree: one open offer   *)
(* for a delivery on offer, made to its rider; none that is forgotten; the *)
(* order where its delivery is; and nobody BUSY without a delivery.        *)
THEOREM DispatchAlwaysAgrees == Spec => []DispatchAgrees
<1>1. DispatchInv => DispatchAgrees
  <2> SUFFICES ASSUME DispatchInv, calm, Quiet
               PROVE  /\ \A o \in Orders : OfferAgrees(o) /\ OrderAgrees(o)
                      /\ \A r \in Riders : rider[r] \in {"BUSY", "ON_DELIVERY"}
                                              => \E o \in Orders : Bound(o, r)
    BY DEF DispatchAgrees
  <2>1. IInv /\ Agrees
    BY Between DEF DispatchInv
  <2>2. \A r \in Riders : rider[r] \in {"BUSY", "ON_DELIVERY"} => \E o \in Orders : Bound(o, r)
    BY <2>1 DEF Agrees, Busy, Bound
  <2> QED  BY <2>1, <2>2, GoodRowsAgree
<1> QED  BY <1>1, InitDispatchInv, NextDispatchInv, PTL DEF Spec

=============================================================================

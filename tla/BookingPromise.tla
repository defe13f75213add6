--------------------------- MODULE BookingPromise ---------------------------
(***************************************************************************)
(* What the booking service promises about the rooms of a room type,       *)
(* without saying how it counts them.  Every booking goes through one      *)
(* life; rooms are taken by a booking that begins and given back by one    *)
(* that ends, never by anything else; and what is taken fits what the      *)
(* hotel has, although the hotel may change that at any time.              *)
(* BookingInventory is shown to keep the promise.                          *)
(***************************************************************************)
EXTENDS Integers

CONSTANTS
  Bookings,   \* the bookings there may be
  Days        \* the nights rooms are sold for

VARIABLES
  life,       \* where each booking is in its life
  taken,      \* rooms taken on each night, on hold or reserved
  capacity    \* rooms the hotel has on each night

promiseVars == <<life, taken, capacity>>

\* Not made yet, waiting for payment, paid or guaranteed, in the house, canceled,
\* and gone: checked out or expired.
Lives == {"NONE", "WAITING", "BOOKED", "STAYING", "CANCELED", "GONE"}

Fits == \A d \in Days : taken[d] <= capacity[d]

\* What the steps do to the rooms.  The hotel may change its capacity meanwhile.
Fitted == capacity' \in [Days -> Nat] /\ taken' \in [Days -> Nat] /\ Fits'
Takes == \A d \in Days : taken[d] <= taken'[d]
GivesBack == \A d \in Days : taken'[d] <= taken[d]
Keeps == UNCHANGED taken

Becomes(b, l) == life' = [life EXCEPT ![b] = l]

Begin(b) ==
  /\ life[b] = "NONE"
  /\ \E l \in {"WAITING", "BOOKED", "STAYING"} : Becomes(b, l)
  /\ Takes

Pay(b) == life[b] = "WAITING" /\ Becomes(b, "BOOKED") /\ Keeps

Arrive(b) == life[b] = "BOOKED" /\ Becomes(b, "STAYING") /\ Keeps

Cancel(b) ==
  /\ life[b] \in {"WAITING", "BOOKED"}
  /\ Becomes(b, "CANCELED")
  /\ GivesBack

Leave(b) == life[b] = "STAYING" /\ Becomes(b, "GONE") /\ GivesBack

\* A canceled booking that was paid for may be restored.
Restore(b) == life[b] = "CANCELED" /\ Becomes(b, "BOOKED") /\ Takes

\* Any number of waiting bookings expire together.
Expire ==
  \E S \in SUBSET {b \in Bookings : life[b] = "WAITING"} :
    /\ life' = [b \in Bookings |-> IF b \in S THEN "GONE" ELSE life[b]]
    /\ GivesBack

\* The hotel changes what it has and takes no room from a booking.
Resize == UNCHANGED life /\ Keeps

PromiseInit ==
  /\ life = [b \in Bookings |-> "NONE"]
  /\ taken = [d \in Days |-> 0]
  /\ capacity \in [Days -> Nat]

PromiseNext ==
  /\ Fitted
  /\ \/ \E b \in Bookings :
          Begin(b) \/ Pay(b) \/ Arrive(b) \/ Cancel(b) \/ Leave(b) \/ Restore(b)
     \/ Expire
     \/ Resize

Promise == PromiseInit /\ [][PromiseNext]_promiseVars

-----------------------------------------------------------------------------
(* What is left of the promise where stays are corrected, counters rebuilt *)
(* or modes switched, so that a step may take rooms on one night and give  *)
(* others back on the next: lives still go in order, and what is taken     *)
(* still fits.                                                             *)

\* The turns a life may take.
Turns ==
  {<<"NONE", "WAITING">>, <<"NONE", "BOOKED">>, <<"NONE", "STAYING">>,
   <<"WAITING", "BOOKED">>, <<"WAITING", "CANCELED">>, <<"WAITING", "GONE">>,
   <<"BOOKED", "STAYING">>, <<"BOOKED", "CANCELED">>, <<"STAYING", "GONE">>,
   <<"CANCELED", "BOOKED">>}

Turning == {b \in Bookings : life'[b] # life[b]}

\* One booking turns at a time, unless they expire together.
Orderly ==
  /\ \A b \in Turning : <<life[b], life'[b]>> \in Turns
  /\ \A b, c \in Turning :
       b = c \/ (life[b] = "WAITING" /\ life'[b] = "GONE"
                  /\ life[c] = "WAITING" /\ life'[c] = "GONE")

Outline == PromiseInit /\ [][Fitted /\ Orderly]_promiseVars
=============================================================================

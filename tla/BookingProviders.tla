-------------------------- MODULE BookingProviders --------------------------
(***************************************************************************)
(* The booking providers (packages/api/src/booking/providers): the one     *)
(* that drives Nemo's API in three calls, search, book and ticket, and the *)
(* one that makes its answers up.  A request to Nemo may be carried out    *)
(* and its answer still be lost: 30 seconds are all it is given.           *)
(***************************************************************************)
EXTENDS Naturals

CONSTANT Order    \* calls of createBooking, and the reservation each may make

VARIABLES
  provider,     \* "mock", "nemo", or "unset": Nemo without its credentials
  call,         \* where createBooking has got to, or what it answered
  reservation,  \* at Nemo
  unheard,      \* history: book or ticket was carried out and its answer lost
  cancel        \* cancelBooking of the answered order

providerVars == <<provider, call, reservation, unheard, cancel>>

ProvidersInit ==
  /\ provider \in {"mock", "nemo", "unset"}
  /\ call = [o \in Order |-> "idle"] /\ reservation = [o \in Order |-> "none"]
  /\ unheard = [o \in Order |-> FALSE] /\ cancel = [o \in Order |-> "idle"]

Answer(o, to) == call' = [call EXCEPT ![o] = to]

\* The mock flips a coin, and nothing is reserved anywhere.
MockCreate(o) ==
  /\ provider = "mock" /\ call[o] = "idle"
  /\ \E to \in {"confirmed", "failed"} : Answer(o, to)
  /\ UNCHANGED <<provider, reservation, unheard, cancel>>

NemoCreate(o) ==
  /\ provider # "mock" /\ call[o] = "idle"
  /\ Answer(o, IF provider = "unset" THEN "failed" ELSE "search")
  /\ UNCHANGED <<provider, reservation, unheard, cancel>>

\* An offer one of whose segments is the airline's and has the number in its own;
\* none, or a request that throws, ends the call.
FindMatchingFlight(o) ==
  /\ call[o] = "search"
  /\ \E to \in {"book", "failed"} : Answer(o, to)
  /\ UNCHANGED <<provider, reservation, unheard, cancel>>

\* A request that changes the reservation: carried out and answered, carried out and
\* not heard of, or not carried out.  Whatever throws ends the call as failed, and
\* what has been reserved by then stays.  (The code reads no verdict from the answer's
\* body: any 2xx is taken for carried out, and so it is here.)
Request(o, at, made, to) ==
  /\ call[o] = at
  /\ \/ Answer(o, to) /\ reservation' = [reservation EXCEPT ![o] = made]
        /\ UNCHANGED unheard
     \/ Answer(o, "failed") /\ reservation' = [reservation EXCEPT ![o] = made]
        /\ unheard' = [unheard EXCEPT ![o] = TRUE]
     \/ Answer(o, "failed") /\ UNCHANGED <<reservation, unheard>>
  /\ UNCHANGED <<provider, cancel>>

Book(o) == Request(o, "book", "booked", "ticket")

\* As Ticket, of a call that takes the booking for the whole.
TicketForgiven(o) ==
  /\ call[o] = "ticket" /\ Answer(o, "confirmed")
  /\ \/ reservation' = [reservation EXCEPT ![o] = "ticketed"]
     \/ UNCHANGED reservation
  /\ UNCHANGED <<provider, unheard, cancel>>

Ticket(o) == Request(o, "ticket", "ticketed", "confirmed")

\* cancelBooking of a confirmed order; a second one of a cancelled reservation is
\* an error of Nemo's, and may follow a first whose answer was lost.
CancelBooking(o) ==
  /\ call[o] = "confirmed" /\ cancel[o] # "done"
  /\ IF provider = "mock"
     THEN cancel' = [cancel EXCEPT ![o] = "done"] /\ UNCHANGED reservation
     ELSE \/ /\ reservation[o] = "ticketed"
             /\ reservation' = [reservation EXCEPT ![o] = "cancelled"]
             /\ \E to \in {"done", "failed"} : cancel' = [cancel EXCEPT ![o] = to]
          \/ cancel' = [cancel EXCEPT ![o] = "failed"] /\ UNCHANGED reservation
  /\ UNCHANGED <<provider, call, unheard>>

ProvidersNext ==
  \E o \in Order :
    \/ MockCreate(o) \/ NemoCreate(o) \/ FindMatchingFlight(o)
    \/ Book(o) \/ Ticket(o) \/ CancelBooking(o)

ProvidersSpec == ProvidersInit /\ [][ProvidersNext]_providerVars

-----------------------------------------------------------------------------
(* Properties                                                              *)

\* What Nemo's provider answers is what Nemo has: a confirmed order is ticketed
\* until it is cancelled, a cancellation told as done is one, and a failed order
\* has a ticket only if Nemo's answer to the ticketing was lost.
AnswerMatches ==
  provider = "nemo" => \A o \in Order :
    /\ call[o] = "confirmed" => reservation[o] \in {"ticketed", "cancelled"}
    /\ cancel[o] = "done" => reservation[o] = "cancelled"
    /\ call[o] = "failed" /\ reservation[o] = "ticketed" => unheard[o]
    /\ unheard[o] => call[o] = "failed"
=============================================================================

----------------------------- MODULE SearchPage -----------------------------
(***************************************************************************)
(* The two airport fields of the search form (components/SearchForm.tsx):  *)
(* an airport is a code, which is searched for, and a label, which is      *)
(* seen; each field has a list of suggestions, worked out when the field   *)
(* was last typed in or entered, which closes 200 ms after the field is    *)
(* left.  The date and the passengers concern neither field and are left   *)
(* out.                                                                    *)
(***************************************************************************)
EXTENDS Naturals, FiniteSets

CONSTANTS
  Airport,
  Nothing           \* no code, no label

ASSUME SearchPageAssumption == Nothing \notin Airport

Fields == {"origin", "destination"}
OtherField == [x \in Fields |-> CHOOSE y \in Fields : y # x]

\* A label is an airport's, or a text: typed by hand, or none.
Label == Airport \cup {"typed", Nothing}

VARIABLES
  compact,      \* the form above the results, which has no swap button
  code, label,  \* of the two fields
  suggested,    \* the list under each field, {} when closed
  searched      \* history: codes of the last search, with the labels then shown

pageFormVars == <<compact, code, label, suggested, searched>>

SearchPageInit ==
  /\ compact = FALSE /\ searched = {}
  /\ code = [x \in Fields |-> Nothing] /\ label = [x \in Fields |-> Nothing]
  /\ suggested = [x \in Fields |-> {}]

Set(x, c, l) == code' = [code EXCEPT ![x] = c] /\ label' = [label EXCEPT ![x] = l]
Suggest(x, S) == suggested' = [suggested EXCEPT ![x] = S]

\* What the text matches, but never the airport of the other field.
FilterAirports(x) == {S \ {code[OtherField[x]]} : S \in SUBSET Airport}

\* As Type, keeping the code of the airport selected before.
TypeOver(x) ==
  /\ Set(x, code[x], "typed") /\ (\E S \in FilterAirports(x) : Suggest(x, S))
  /\ UNCHANGED <<compact, searched>>

\* The code is gone until an airport is selected from the list.
Type(x) ==
  /\ Set(x, Nothing, "typed") /\ (\E S \in FilterAirports(x) : Suggest(x, S))
  /\ UNCHANGED <<compact, searched>>

Focus(x) ==
  /\ \E S \in FilterAirports(x) : Suggest(x, S)
  /\ UNCHANGED <<compact, code, label, searched>>

Select(x, a) ==
  /\ a \in suggested[x] /\ Set(x, a, a) /\ Suggest(x, {})
  /\ UNCHANGED <<compact, searched>>

\* The timer of a field that was left, even if it has the focus again.
Blurred(x) ==
  /\ suggested[x] # {} /\ Suggest(x, {})
  /\ UNCHANGED <<compact, code, label, searched>>

SwapAirports ==
  /\ ~compact
  /\ code' = [x \in Fields |-> code[OtherField[x]]]
  /\ label' = [x \in Fields |-> label[OtherField[x]]]
  /\ UNCHANGED <<compact, suggested, searched>>

\* The first search leads from the home page to the results, whose form starts from
\* the codes in the address and labels them anew; a later one leaves that form as it is.
HandleSubmit ==
  /\ \A x \in Fields : code[x] # Nothing
  /\ searched' = {[codes |-> code, labels |-> label]} /\ compact' = TRUE
  /\ label' = IF compact THEN label ELSE code
  /\ suggested' = IF compact THEN suggested ELSE [x \in Fields |-> {}]
  /\ UNCHANGED code

SearchPageNext ==
  \/ \E x \in Fields : Type(x) \/ Focus(x) \/ Blurred(x) \/ \E a \in Airport : Select(x, a)
  \/ SwapAirports \/ HandleSubmit

SearchPageSpec == SearchPageInit /\ [][SearchPageNext]_pageFormVars

-----------------------------------------------------------------------------
(* Properties                                                              *)

\* No search is for an airport other than the one its field showed, or for a text that
\* was typed and never selected: codes and labels go together through typing,
\* selecting from lists worked out earlier, swapping, and from one page to the next.
SubmitsWhatItShows ==
  \A s \in searched : \A x \in Fields : s.codes[x] \in Airport /\ s.labels[x] = s.codes[x]
=============================================================================

------------------------------ MODULE Interner ------------------------------
(***************************************************************************)
(* struct StringInterner and its Table (include/AxleUtil/strings.h,        *)
(* src/strings.cpp): every string exists once, and its address stands for  *)
(* it.  The table repeats the probing of hash.h by hand, without ever      *)
(* removing anything.  A key is the text of a string, several of which may *)
(* have the same hash; internText is the text at each address.             *)
(***************************************************************************)
EXTENDS Probing

CONSTANT
  EmptyText    \* the text of length 0

ASSUME InternerAssumption == EmptyText \notin Keys /\ EMPTY \notin Nat

VARIABLES
  internSlots,   \* Table::data, with Table::size as its size: addresses or EMPTY
  internFull,    \* Table::num_full
  internText,    \* the strings allocated, by address
  internGiven    \* the address each text was first given

internVars == <<internSlots, internFull, internText, internGiven>>

Addresses == 1..Len(internText)
EmptyAddress == 0      \* &empty_string

InternTypeOK ==
  /\ \E n \in 0..Cardinality(DOMAIN internSlots) :
       internSlots \in [0..Doubled(FirstCapacity)[n] - 1 -> Addresses \union {EMPTY}]
  /\ internText \in Seq(Keys) /\ internFull = Len(internText)
  /\ \A t \in DOMAIN internGiven : internGiven[t] \in Addresses \union {EmptyAddress}

InternInit ==
  /\ internSlots = FreshSlots(FirstCapacity)
  /\ internFull = 0
  /\ internText = <<>>
  /\ internGiven = [t \in {} |-> EmptyAddress]

\* Table::find goes on from the slot of the hash to the string itself or to an empty
\* slot; the strings it passes may have the same hash.
FindText(slots, text) ==
  LET ends == {i \in 0..Capacity(slots) - 1 :
                 \/ slots[NthSlot(slots, text, i)] = EMPTY
                 \/ internText[slots[NthSlot(slots, text, i)]] = text}
  IN NthSlot(slots, text, Min(ends))

\* Table::find_empty, with the hash of text.
FindEmpty(slots, text) ==
  NthSlot(slots, text,
          Min({i \in 0..Capacity(slots) - 1 : slots[NthSlot(slots, text, i)] = EMPTY}))

\* Mutant: the addresses keep their slots.
ResizedInPlace(slots, full, texts) ==
  IF NeedsResize(Capacity(slots), full, 0)
    THEN [i \in 0..2 * Capacity(slots) - 1 |-> IF i \in DOMAIN slots THEN slots[i] ELSE EMPTY]
    ELSE slots

\* The addresses of the first n slots in a larger table.
InternMoved(slots, texts, capacity) ==
  LET moved[n \in 0..Capacity(slots)] ==
        IF n = 0 THEN FreshSlots(capacity)
        ELSE IF slots[n - 1] # EMPTY
          THEN [moved[n - 1] EXCEPT ![FindEmpty(moved[n - 1], texts[slots[n - 1]])] = slots[n - 1]]
        ELSE moved[n - 1]
  IN moved

\* Table::try_resize, after an address has been added: its limit is that of the hash set.
Resized(slots, full, texts) ==
  IF NeedsResize(Capacity(slots), full, 0)
    THEN InternMoved(slots, texts, Extended(Capacity(slots), full, 0))[Capacity(slots)]
    ELSE slots

\* A text of length 0 is not looked up.
Find(text) ==
  IF text = EmptyText THEN EmptyAddress ELSE internSlots[FindText(internSlots, text)]

\* The caller is given a for text, of which it keeps the first.
Gives(text, a) ==
  internGiven' = [t \in DOMAIN internGiven \union {text} |->
                    IF t \in DOMAIN internGiven THEN internGiven[t] ELSE a]

Intern(text) ==
  LET a == Len(internText) + 1
      full == internFull + 1
      texts == Append(internText, text)
      slots == [internSlots EXCEPT ![FindText(internSlots, text)] = a]
  IN IF Find(text) = EMPTY
       THEN /\ internText' = texts
            /\ internFull' = full
            /\ internSlots' = Resized(slots, full, texts)
            /\ Gives(text, a)
       ELSE /\ Gives(text, Find(text))
            /\ UNCHANGED <<internSlots, internFull, internText>>

InternNext == \E text \in Keys \union {EmptyText} : Intern(text)

\* Two strings are equal exactly if their addresses are: each text keeps the address it
\* was first given, through collisions, equal hashes and every move into a larger table,
\* and no two texts share one.
InternedOnce ==
  /\ \A t \in DOMAIN internGiven : Find(t) = internGiven[t]
  /\ \A t \in Keys \ DOMAIN internGiven : Find(t) = EMPTY
  /\ \A t, u \in DOMAIN internGiven : internGiven[t] = internGiven[u] => t = u
=============================================================================

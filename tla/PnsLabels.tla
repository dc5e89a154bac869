------------------------------- MODULE PnsLabels -------------------------------
(***************************************************************************)
(* From the text of a name to its node.  The registrar hashes labels with  *)
(* Label (traits.rs); records, reservations at genesis, the runtime API    *)
(* and DNS parse names with parse_name_to_node (pns-types).  The two were  *)
(* written separately and have to agree.                                   *)
(*                                                                         *)
(* A text is a sequence of characters.  Hashing is taken to be injective:  *)
(* a node is the sequence of the labels it is hashed from, the base node   *)
(* is the empty one.  An Option is a set with at most one element.         *)
(***************************************************************************)
EXTENDS Naturals, Sequences, FiniteSets

CONSTANTS
  Alphanumeric,  \* characters a label may have
  ToLower,       \* ToLower[c], for these and other characters
  Texts,         \* texts callers come with
  GenesisNames,  \* sets of texts that may be configured as reserved_names
  MaxLen,        \* LABEL_MAX_LEN
  MaxHeld,       \* bound on the number of names held
  MaxBanned      \* bound on the number of texts reserved by calls

Chars == DOMAIN ToLower

\* The dot separates labels and is in none of them; lower case keeps the dot
\* and the alphanumeric characters apart from each other and from the rest.
ASSUME LabelsAssumption ==
  /\ Alphanumeric \subseteq Chars \ {"."}
  /\ "." \in Chars
  /\ \A c \in Chars : /\ ToLower[c] = "." <=> c = "."
                      /\ ToLower[c] \in Alphanumeric <=> c \in Alphanumeric
  /\ Texts \subseteq Seq(Chars)
  /\ \A g \in GenesisNames : g \subseteq Seq(Chars)
  /\ MaxLen \in Nat \ {0}

MinLen == 1
MinRegistrableLen == 1
BaseNode == <<>>

\* to_ascii_lowercase
Lower(t) == [i \in DOMAIN t |-> ToLower[t[i]]]

EncodeWithNode(node, label) == Append(node, label)

-----------------------------------------------------------------------------
(* The registrar's way.                                                    *)

CheckLabel(t) ==
  Len(t) \in MinLen..MaxLen /\ \A i \in DOMAIN t : t[i] \in Alphanumeric

\* Label::new and Label::new_with_len
LabelNew(t) == IF CheckLabel(t) THEN {Lower(t)} ELSE {}

IsRegistrable(len) == len >= MinRegistrableLen

-----------------------------------------------------------------------------
(* The way of everybody else.                                              *)

ValidateLabel(t) ==
  Len(t) \in MinLen..MaxLen /\ \A i \in DOMAIN t : t[i] \in Alphanumeric

\* Mutant of HashLabel: the text is hashed as it is spelled.
HashAsSpelled(t) == IF ValidateLabel(t) THEN {t} ELSE {}

HashLabel(t) == IF ValidateLabel(t) THEN {Lower(t)} ELSE {}

\* name.iter().position(|&b| b == b'.')
FirstDot(t) == {i \in DOMAIN t : t[i] = "." /\ \A j \in 1..(i - 1) : t[j] # "."}

\* Mutant of ParseNameToNode: sub and domain change places.
ParseReversed(t) ==
  LET dot == CHOOSE i \in FirstDot(t) : TRUE
  IN  IF FirstDot(t) = {} THEN {EncodeWithNode(BaseNode, l) : l \in HashLabel(t)}
      ELSE {EncodeWithNode(EncodeWithNode(BaseNode, d), s) :
              d \in HashLabel(SubSeq(t, 1, dot - 1)),
              s \in HashLabel(SubSeq(t, dot + 1, Len(t)))}

\* parse_name_to_node splits at the first dot; a second one is an illegal
\* character of the domain's label.
ParseNameToNode(t) ==
  LET dot == CHOOSE i \in FirstDot(t) : TRUE
  IN  IF FirstDot(t) = {} THEN {EncodeWithNode(BaseNode, l) : l \in HashLabel(t)}
      ELSE {EncodeWithNode(EncodeWithNode(BaseNode, d), s) :
              d \in HashLabel(SubSeq(t, dot + 1, Len(t))),
              s \in HashLabel(SubSeq(t, 1, dot - 1))}

-----------------------------------------------------------------------------
(* Names given and reserved.                                               *)

VARIABLES
  held,     \* names and subnames: the node, and the text it was asked for with
  reserved, \* ReservedList
  banned    \* history: the texts that have been reserved

labelVars == <<held, reserved, banned>>

\* Genesis parses reserved_names and skips what is not a name.
LabelsInit ==
  /\ held = {}
  /\ banned \in GenesisNames
  /\ reserved = UNION {ParseNameToNode(t) : t \in banned}

AddReserved(t) ==
  /\ Cardinality(banned) < MaxBanned
  /\ \E l \in LabelNew(t) :
       /\ reserved' = reserved \cup {EncodeWithNode(BaseNode, l)}
       /\ banned' = banned \cup {t}
       /\ UNCHANGED held

RemoveReserved(t) ==
  \E l \in LabelNew(t) :
    /\ reserved' = reserved \ {EncodeWithNode(BaseNode, l)}
    /\ banned' = {u \in banned : Lower(u) # Lower(t)}
    /\ UNCHANGED held

\* A name that is held is not given again: no lease ends here.
Hold(node, text) ==
  /\ \A h \in held : h.node # node
  /\ Cardinality(held) < MaxHeld
  /\ held' = held \cup {[node |-> node, text |-> text]}
  /\ UNCHANGED <<reserved, banned>>

Register(t) ==
  \E l \in LabelNew(t) :
    /\ IsRegistrable(Len(l))
    /\ EncodeWithNode(BaseNode, l) \notin reserved
    /\ Hold(EncodeWithNode(BaseNode, l), t)

\* offer_subdomain, under a canonical name.
OfferSubdomain(h, t) ==
  /\ Len(h.node) = 1
  /\ \E l \in LabelNew(t) : Hold(EncodeWithNode(h.node, l), t \o <<".">> \o h.text)

LabelsNext ==
  \/ \E t \in Texts : AddReserved(t) \/ RemoveReserved(t) \/ Register(t)
  \/ \E h \in held, t \in Texts : OfferSubdomain(h, t)

LabelsSpec == LabelsInit /\ [][LabelsNext]_labelVars

-----------------------------------------------------------------------------
(* Properties.                                                             *)

\* What was registered or offered through Label is found through
\* parse_name_to_node by every spelling of its text, upper case or lower,
\* and by no other text.
HeldNamesResolve ==
  \A h \in held, t \in Texts \cup {g.text : g \in held} :
    h.node \in ParseNameToNode(t) <=> Lower(t) = Lower(h.text)

\* No spelling of a name that is reserved, by text at genesis or by a call,
\* is registered until it is unreserved.
ReservedInEverySpelling ==
  [][\A h \in held' \ held :
       Len(h.node) = 1 => \A t \in banned : Lower(t) # Lower(h.text)]_labelVars

=============================================================================

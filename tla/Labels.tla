------------------------------- MODULE Labels -------------------------------
(***************************************************************************)
(* Labels and label selectors (labels.py, selectors.py).                   *)
(*                                                                         *)
(* A key is the sequence of its parts, so that the reserved prefix is a    *)
(* part put in front.  A token's labels are a function from keys to        *)
(* values; an event's own are a sequence of [key, value] in the order the  *)
(* event wrote them, which is the order merge_labels goes through them.    *)
(***************************************************************************)
EXTENDS Integers, Sequences

Reserved == <<"client">>    \* CLIENT_PREFIX

Prefixed(key) == Reserved \o key

Keys(reported) == {reported[i].key : i \in DOMAIN reported}

(* Slip: the token's own key is what the client's label is kept under. *)
Target_Plain(trusted, key) == key

(* Where the label under this key goes. *)
Target(trusted, key) == IF key \in DOMAIN trusted THEN Prefixed(key) ELSE key

(* The labels written to this key, by their place in the event. *)
Writes(trusted, reported, key) ==
  {i \in DOMAIN reported : Target(trusted, reported[i].key) = key}

(* merge_labels: the last label written to a key is the one it keeps. *)
MergeLabels(trusted, reported) ==
  [key \in DOMAIN trusted
             \cup {Target(trusted, k) : k \in Keys(reported)} |->
     LET writes == Writes(trusted, reported, key)
     IN  IF writes = {} THEN trusted[key]
         ELSE reported[CHOOSE i \in writes : \A j \in writes : j <= i].value]

-----------------------------------------------------------------------------
(* Selectors: a term is [key, operator, values]; = and != have one value. *)

Has(labels, term) ==
  /\ term.key \in DOMAIN labels
  /\ labels[term.key] \in term.values

(* Term.matches: a label that is not there equals nothing and is in nothing, *)
(* so != and notin hold of it. *)
TermMatches(labels, term) ==
  IF term.operator \in {"=", "in"} THEN Has(labels, term)
                                   ELSE ~Has(labels, term)

Matches(labels, terms) == \A term \in terms : TermMatches(labels, term)

-----------------------------------------------------------------------------
(* What the labels an event is stored with owe to those it was given.      *)

(* Of two labels of an event, the one under k goes to the key of the one    *)
(* under l: k is the token's, l is not, and l is k with the prefix.         *)
MovesOnto(trusted, k, l) ==
  /\ k \in DOMAIN trusted
  /\ l \notin DOMAIN trusted
  /\ Prefixed(k) = l

(* A token's label stands, unless its key is another's with the prefix in  *)
(* front and the client sent a label under that other: then it gives way to *)
(* the client's.  A client's label is kept, where Target puts it, unless    *)
(* that is where a later label of the event goes as well, one of the two    *)
(* being under a key of the token's and the other under that key with the   *)
(* prefix: then it gives way to the later.  Nothing else is lost, and where *)
(* no key begins with the prefix nothing is.  merge_labels.                 *)
Kept(trusted, reported, merged) ==
  /\ \A k \in DOMAIN trusted :
       \/ merged[k] = trusted[k]
       \/ \E i \in DOMAIN reported :
            /\ reported[i].key \in DOMAIN trusted
            /\ Prefixed(reported[i].key) = k
            /\ merged[k] = reported[i].value
  /\ \A i \in DOMAIN reported :
       LET mine == reported[i].key
       IN  \/ merged[Target(trusted, mine)] = reported[i].value
           \/ \E j \in DOMAIN reported :
                /\ j > i
                /\ \/ MovesOnto(trusted, mine, reported[j].key)
                   \/ MovesOnto(trusted, reported[j].key, mine)
                /\ merged[Target(trusted, mine)] = reported[j].value

(* What the documents say of them: the token's labels stand, and each of    *)
(* the client's is there, under its own key or with the prefix in front.    *)
NoneLost(trusted, reported, merged) ==
  /\ \A k \in DOMAIN trusted : merged[k] = trusted[k]
  /\ \A i \in DOMAIN reported :
       \E k \in {reported[i].key, Prefixed(reported[i].key)} \cap DOMAIN merged :
         merged[k] = reported[i].value
=============================================================================

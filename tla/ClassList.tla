----------------------------- MODULE ClassList ------------------------------
(***************************************************************************)
(* js/classlist_polyfill.js of CA3/P1/Bibi/2048: what classList does in a  *)
(* browser without it.  The list is made anew from className whenever it   *)
(* is asked for.  A class name is a value; within has the pairs <<t, u>>   *)
(* where the text of t occurs in the text of u, which is how contains      *)
(* looks for a class.                                                      *)
(***************************************************************************)
EXTENDS Integers, SequencesExt

NoName == ""   \* what splitting an empty className gives

(* The constructor: className trimmed and split. *)
DOMTokenList(className) ==
    LET names[n \in 0 .. Len(className)] ==
            IF n = 0 THEN <<>>
            ELSE IF className[n] = NoName THEN names[n - 1]
            ELSE Append(names[n - 1], className[n])
    IN  IF names[Len(className)] = <<>> THEN <<NoName>> ELSE names[Len(className)]

contains(within, list, token) == \E i \in 1 .. Len(list) : <<token, list[i]>> \in within

(* Altered: a class is added whether it is there or not. *)
addAlways(within, list, token) == Append(list, token)

add(within, list, token) == IF contains(within, list, token) THEN list ELSE Append(list, token)

(* The first of them; past the end nothing is spliced out. *)
remove(within, list, token) ==
    LET at == {i \in 1 .. Len(list) : list[i] = token}
    IN  IF contains(within, list, token) /\ at # {}
        THEN RemoveAt(list, CHOOSE i \in at : \A j \in at : i <= j) ELSE list

toggle(within, list, token) ==
    IF contains(within, list, token) THEN remove(within, list, token) ELSE add(within, list, token)

-----------------------------------------------------------------------------
(* What classList promises: a set of classes. *)
Names(list) == ToSet(list) \ {NoName}

(* On an element none of whose other classes has the token in its name, the
   polyfill does to the set of classes what classList does, and no class
   is there twice. *)
Apart(within, list, token) == \A u \in Names(list) \ {token} : <<token, u>> \notin within
LikeNative(within, className, token) ==
    LET list == DOMTokenList(className)
    IN  IsInjective(list) /\ Apart(within, list, token) =>
            /\ contains(within, list, token) <=> token \in Names(list)
            /\ Names(add(within, list, token)) = Names(list) \cup {token}
            /\ Names(remove(within, list, token)) = Names(list) \ {token}
            /\ Names(toggle(within, list, token)) =
                   IF token \in Names(list) THEN Names(list) \ {token} ELSE Names(list) \cup {token}
            /\ \A after \in {add(within, list, token), remove(within, list, token), toggle(within, list, token)} :
                   IsInjective(after)

(* Some elements, and which names of their classes occur in others. *)
SomeTokens == {"p", "q", "r"}
SomeWithin == {{<<t, t>> : t \in SomeTokens} \cup other :
                  other \in SUBSET {<<"p", "q">>, <<"q", "r">>, <<"p", "r">>}}
SomeClassNames == UNION {[1 .. n -> SomeTokens \cup {NoName}] : n \in 0 .. 3}
ManyElements == \A within \in SomeWithin, className \in SomeClassNames, token \in SomeTokens :
                    LikeNative(within, className, token)
=============================================================================

-------------------------------- MODULE Text ---------------------------------
(***************************************************************************)
(* The way of a text from the line to the store: the arguments Query finds *)
(* in a line are the C strings a handler makes an sds string of, appends   *)
(* to one, or makes room for.  One string at a time is followed, from the  *)
(* call that makes it to the one that frees it, through any calls of the   *)
(* library, those no command makes (sdsclear) included.                    *)
(***************************************************************************)
EXTENDS Query, Sds

CONSTANTS
    MaxText,        \* bound: length of a string
    MinFree         \* bound: how far a wrong free is followed below 0

ASSUME MaxTextAssumption == MaxText \in Nat /\ MinFree \in Int

allvars == <<qvars, vars>>

Argument == {argv[a] : a \in 1..(argc - 1)}

TextInit == QInit /\ Init

\* setCommand, getCommand and the others make strings of their arguments.
Handle ==
    /\ pc = "handler"
    /\ \E c \in Argument : Call(c)
    /\ Len(text') <= MaxText
    /\ str' # NULL => str'.free >= MinFree
    /\ UNCHANGED qvars

TextNext ==
    \/ Receive /\ UNCHANGED vars
    \/ Parse /\ UNCHANGED vars
    \/ str = NULL /\ Answered /\ UNCHANGED vars
    \/ Handle

TextSpec == TextInit /\ [][TextNext]_allvars
=============================================================================

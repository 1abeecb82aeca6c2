----------------------------- MODULE RTPHashTable -----------------------------
(***************************************************************************)
(* The library's hash table without keys, which holds the transmitters'     *)
(* destinations and multicast groups: the code of RTPKeyHashTable written   *)
(* out a second time, with an element that is its own key.  Its methods do  *)
(* to the pointers what the methods of RTPKeyHashTable do.  Destinations    *)
(* shows that what compares equal there is one element with one hash index. *)
(***************************************************************************)
CONSTANTS
  Elements,  (* the elements the callers use                               *)
  hashsize,  (* the others as in RTPKeyHashTable                           *)
  GetIndex,
  Addr,
  Null,
  Unset

VARIABLES
  table, firsthashelem, lasthashelem, curhashelem,
  element,   (* per hash element: the element it holds                     *)
  hashindex, hashprev, hashnext, listprev, listnext, live, status,
  curset, earlier

Table == INSTANCE RTPKeyHashTable WITH Keys <- Elements, key <- element

GotoFirstElement     == Table!GotoFirstElement
GotoLastElement      == Table!GotoLastElement
GotoNextElement      == Table!GotoNextElement
GotoPreviousElement  == Table!GotoPreviousElement
GotoElement(e)       == Table!GotoElement(e)
HasElement(e)        == Table!HasElement(e)
DeleteCurrentElement == Table!DeleteCurrentElement
DeleteElement(e)     == Table!DeleteElement(e)
AddElement(e)        == Table!AddElement(e)
Clear                == Table!Clear

Init == Table!Init

Next ==
  \/ GotoFirstElement
  \/ GotoLastElement
  \/ GotoNextElement
  \/ GotoPreviousElement
  \/ DeleteCurrentElement
  \/ Clear
  \/ \E e \in Elements :
       \/ GotoElement(e)
       \/ HasElement(e)
       \/ DeleteElement(e)
       \/ AddElement(e)
=============================================================================

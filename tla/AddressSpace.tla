----------------------------- MODULE AddressSpace -----------------------------
(***************************************************************************)
(* What a virtual memory manager promises: an address space relates pages  *)
(* to frames, a page to one frame at most; a step adds or removes one page *)
(* or one huge page, and no step changes where any other page leads.  VMM  *)
(* implements it with four-level page tables.                              *)
(***************************************************************************)
CONSTANT HugePageOf(_)   \* the pages of the huge page around a page

VARIABLE space           \* pairs <<page, frame>>

PagesOf(S) == {m[1] : m \in S}

\* What a step touches: one page, or all the pages of one huge page.
OneUnit(P) == \A p \in P : P = {p} \/ P = HugePageOf(p)

Functional == \A m, n \in space : m[1] = n[1] => m = n

Init == space = {}

\* The address space that a bootloader built is loaded as it stands.
Load == space = {} /\ Functional'

\* A page that leads somewhere keeps its frame until it is removed.
Add ==
    /\ space \subseteq space'
    /\ OneUnit(PagesOf(space' \ space))
    /\ \A m \in space' \ space : m[1] \notin PagesOf(space)

Remove ==
    /\ space' \subseteq space
    /\ OneUnit(PagesOf(space \ space'))

Next == Load \/ Add \/ Remove

Spec == Init /\ [][Next]_space

===============================================================================

-------------------------------- MODULE MCVMM --------------------------------
(***************************************************************************)
(* Memory of 24 frames in huge pages of four, two frames below the 1 MiB   *)
(* mark, and three device frames far above.                                *)
(***************************************************************************)
EXTENDS VMM

Region(base, length, type) == [base |-> base, length |-> length, type |-> type]

\* What a frame may hold when it is first used: words that look present.
Garbage(S) == [w \in S \X {0, 1} |-> [phys |-> 2, huge |-> FALSE, cached |-> TRUE]]

\* The loader's image in a huge page of its own; enough frames for the tables
\* of the boot and not quite enough for everything the kernel may ask for.
Apart ==
    [map |-> << Region(0, 2, "Usable"), Region(2, 2, "Reserved"),
                Region(4, 16, "Usable"), Region(20, 3, "Reserved") >>,
     kernelFrames |-> 2, imageFirst |-> 20, imageLast |-> 21,
     free |-> 5 .. 19, garbage |-> Garbage(5 .. 19)]

\* A kernel past the first huge page, entries out of order, usable and reserved
\* memory in one huge page.
Mixed ==
    [map |-> << Region(8, 12, "Usable"), Region(2, 3, "Reserved"), Region(5, 1, "Usable"),
                Region(6, 2, "Reserved"), Region(0, 2, "Usable"), Region(20, 4, "Reserved") >>,
     kernelFrames |-> 3, imageFirst |-> 20, imageLast |-> 20,
     free |-> {5} \cup 9 .. 19, garbage |-> Garbage(9 .. 19)]

MCMachines == {Apart, Mixed}

\* The loader's image in the middle of usable memory.
Shared ==
    [map |-> << Region(0, 2, "Usable"), Region(2, 2, "Reserved"), Region(4, 13, "Usable"),
                Region(17, 2, "Reserved"), Region(19, 5, "Usable") >>,
     kernelFrames |-> 2, imageFirst |-> 17, imageLast |-> 18,
     free |-> (5 .. 16) \cup (19 .. 23), garbage |-> Garbage({})]

MCShared == {Shared}

\* The two machines are as the theorems about the VMM want them, the third is not.
ASSUME MachinesFit ==
    \A m \in MCMachines : SizesAgree(m) /\ MemorySuffices(m) /\ LowMemoryUsable(m)
ASSUME SharedClashes ==
    ~SizesAgree(Shared) /\ MemorySuffices(Shared)

MCHeapPages == {<< 4, 0, 0, 0 >>, << 4, 0, 0, 1 >>}

MCDevicePages == {<< 40, 41 >>}

MCCachedPages == {V(0, 0), V(0, 5)} \cup MCHeapPages \cup {V(2, 40)}

===============================================================================

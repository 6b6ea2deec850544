-------------------------------- MODULE MCPMM --------------------------------
(***************************************************************************)
(* Machines of up to fourteen frames: two bytes to a frame, a 1 MiB mark   *)
(* at two frames, five bits to a bitmap byte, so that the image and the    *)
(* bitmap end in the middle of frames.  Entries are whole frames, as the   *)
(* firmware reports them.                                                  *)
(***************************************************************************)
EXTENDS PMM

Region(base, length, type) == [base |-> base, length |-> length, type |-> type]

\* One large region past the kernel and the loader's image.
Plain == [map |-> << Region(0, 4, "Usable"), Region(4, 4, "Reserved"),
                     Region(8, 4, "Reserved"), Region(12, 12, "Usable") >>,
          kernelSize |-> 4, imageBase |-> 8, imageSize |-> 3]

\* Entries out of address order, the first too small for the bitmap, the image
\* between usable regions.
Holed == [map |-> << Region(6, 2, "Usable"), Region(0, 4, "Usable"),
                     Region(4, 2, "Reserved"), Region(22, 6, "Usable"),
                     Region(8, 4, "Usable"), Region(12, 10, "Reserved") >>,
          kernelSize |-> 2, imageBase |-> 12, imageSize |-> 5]

\* The loader's image right before the region that takes the bitmap.
Tight == [map |-> << Region(0, 4, "Usable"), Region(4, 2, "Reserved"),
                     Region(6, 2, "Reserved"), Region(8, 10, "Usable") >>,
          kernelSize |-> 2, imageBase |-> 6, imageSize |-> 1]

\* No memory past the kernel: the bitmap has nowhere to go.
Tiny == [map |-> << Region(0, 4, "Usable"), Region(4, 4, "Reserved") >>,
         kernelSize |-> 2, imageBase |-> 6, imageSize |-> 2]

MCMachines == {Plain, Holed, Tight, Tiny}

===============================================================================

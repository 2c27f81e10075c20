--------------------------------- MODULE Loader --------------------------------
(***************************************************************************)
(* The UEFI loader (MikanLoaderPkg/Main.c): it saves the memory map, picks *)
(* a graphics mode, loads kernel.elf, leaves the boot services and jumps   *)
(* into the kernel.                                                        *)
(*                                                                         *)
(* Memory is a function from addresses to cells; a file is a sequence of   *)
(* cells, numbered from 1, and a cell of the file is represented by its    *)
(* number.  The firmware runs concurrently: its timer and its drivers      *)
(* allocate at any moment before the exit, and each change of the memory   *)
(* map makes the key of an earlier map useless.                            *)
(***************************************************************************)
EXTENDS Integers, Sequences, FiniteSets, FiniteSetsExt

CONSTANTS
  PageSize,     \* cells of a page
  Memory,       \* the number of cells of memory
  FileSize,     \* the number of cells of kernel.elf
  EntryOffset,  \* where e_entry is in the ELF header, in cells
  MaxHandles,   \* graphics devices
  MaxModes,     \* modes of a graphics device
  MaxFaults,    \* how many services fail
  MaxChanges    \* how often the firmware changes the memory map by itself

ASSUME LoaderAssumption ==
  /\ {PageSize, Memory, FileSize, MaxHandles, MaxModes} \subseteq Nat \ {0}
  /\ EntryOffset \in 0 .. FileSize - 1
  /\ {MaxFaults, MaxChanges} \subseteq Nat

Zero == 0
Fw == -1     \* what the firmware or nobody has in a cell
None == -2

Addresses == 0 .. Memory - 1
PageOf(a) == a \div PageSize
Pages == {PageOf(a) : a \in Addresses}

(***************************************************************************)
(* kernel.elf.  The first PT_LOAD segment holds the ELF header: the linker *)
(* puts it at the lowest address, which is page aligned (--image-base).    *)
(***************************************************************************)
SegmentCells(s) == s.vaddr .. s.vaddr + s.memsz - 1

Segments(offsets) ==
  {s \in [load : {TRUE}, offset : offsets, vaddr : Addresses,
          filesz : 0 .. FileSize, memsz : 1 .. Memory] :
     /\ s.filesz <= s.memsz
     /\ s.offset + s.filesz <= FileSize
     /\ SegmentCells(s) \subseteq Addresses}

\* A header that describes something else, such as PT_GNU_STACK.
Others == [load : {FALSE}, offset : {0}, vaddr : {0}, filesz : {0}, memsz : {Memory}]

\* Program headers: the first segment, and another one behind it in memory or of
\* another type, in either order.
Images ==
  LET First == {f \in Segments({0}) : f.filesz > EntryOffset /\ f.vaddr % PageSize = 0}
      Behind(f) ==
        Others \cup {s \in Segments(1 .. FileSize) : f.vaddr + f.memsz <= s.vaddr}
  IN  UNION {UNION {{<<f, s>>, <<s, f>>} : s \in Behind(f)} : f \in First}

\* Graphics modes: whether QueryMode reports one with 1024 x 768 pixels, and the
\* pixel format, where RGB also stands for BGR.  A mode that can only be used by
\* block transfer has no frame buffer.
Mode == [fits : BOOLEAN, format : {"RGB", "BitMask", "BltOnly"}]
SeqsUpTo(S, n) == UNION {[1 .. m -> S] : m \in 1 .. n}
Handles == SeqsUpTo(SeqsUpTo(Mode, MaxModes), MaxHandles)

VARIABLES
  pc,
  phdr,         \* the program headers of kernel.elf, once it is read
  handles,      \* gop_handles: the graphics devices, each a sequence of modes
  gop,          \* <<handle, mode>>, or <<>> before OpenGOP
  owned,        \* pages the loader has allocated for the kernel
  mem,
  buffer,       \* kernel_buffer: "none", "filled" or "freed"
  entry_addr,
  key_current,  \* memmap.map_key is the key of the current memory map
  boot_services,
  faults, changes,
  late          \* the map changed between the second reading and the second exit
vars == <<pc, phdr, handles, gop, owned, mem, buffer, entry_addr,
          key_current, boot_services, faults, changes, late>>
image == <<phdr, owned, mem, buffer, entry_addr>>

Init ==
  /\ pc = "memmap"
  /\ phdr = <<>>
  /\ handles \in Handles
  /\ gop = <<>>
  /\ owned = {}
  /\ mem = [a \in Addresses |-> Fw]
  /\ buffer = "none"
  /\ entry_addr = None
  /\ key_current = FALSE
  /\ boot_services = TRUE
  /\ faults = 0 /\ changes = 0
  /\ late = FALSE

\* A service of the firmware fails.
Fault == faults < MaxFaults /\ faults' = faults + 1

\* The firmware allocates or frees memory on its own account.
FirmwareChangesMap ==
  /\ boot_services /\ changes < MaxChanges
  /\ pc \notin {"halt", "undefined"}
  /\ changes' = changes + 1
  /\ key_current' = FALSE
  /\ late' = (late \/ pc = "exit2")
  /\ UNCHANGED <<pc, handles, gop, image, boot_services, faults>>

\* GetMemoryMap: the map and its key, or an error if the buffer is too small, which
\* leaves map_key alone.
GetMemoryMap(ok) ==
  \/ ok /\ key_current' = TRUE /\ UNCHANGED faults
  \/ ~ok /\ Fault /\ UNCHANGED key_current

\* The first reading, whose result is not checked.
ReadMemoryMap ==
  /\ pc = "memmap"
  /\ \E ok \in BOOLEAN : GetMemoryMap(ok)
  /\ pc' = "save"
  /\ UNCHANGED <<handles, gop, image, boot_services, changes, late>>

\* OpenRootDir and the file memmap; nothing is checked, and a file that could not
\* be opened is used.  Opening and writing files allocates.
SaveMemoryMap ==
  /\ pc = "save"
  /\ \/ pc' = "gop" /\ UNCHANGED faults
     \/ pc' = "undefined" /\ Fault
  /\ key_current' = FALSE
  /\ UNCHANGED <<handles, gop, image, boot_services, changes, late>>

\* The first mode that QueryMode reports with 1024 x 768 pixels, or the first of all.
TargetMode(modes) ==
  LET fit == {j \in DOMAIN modes : modes[j].fits}
  IN  IF fit = {} THEN 1 ELSE Min(fit)

\* The handle OpenGOP looks at next.
NextHandle == IF gop = <<>> THEN 1 ELSE gop[1] + 1

HasFrameBuffer(mode) == mode.format # "BltOnly"

\* One turn of the loop of OpenGOP: open the device, set a mode, and stop at the
\* first device with a frame buffer; gop keeps the last one otherwise.  At the end
\* the array of handles is freed.
OpenGOP ==
  /\ pc = "gop"
  /\ \/ /\ LET modes == handles[NextHandle]
               mode  == modes[TargetMode(modes)]
               done  == HasFrameBuffer(mode) \/ NextHandle = Len(handles)
           IN  /\ gop' = <<NextHandle, mode>>
               /\ pc' = IF done THEN "read" ELSE "gop"
               /\ handles' = IF done THEN <<>> ELSE handles
        /\ UNCHANGED faults
     \/ /\ Fault
        /\ pc' = "halt"
        /\ UNCHANGED <<gop, handles>>
  /\ key_current' = FALSE
  /\ UNCHANGED <<image, boot_services, changes, late>>

\* Open, GetInfo, AllocatePool and Read of kernel.elf; the first two are not checked.
ReadKernel ==
  /\ pc = "read"
  /\ \/ pc' = "load" /\ buffer' = "filled" /\ phdr' \in Images /\ UNCHANGED faults
     \/ pc' \in {"halt", "undefined"} /\ Fault /\ UNCHANGED <<buffer, phdr>>
  /\ key_current' = FALSE
  /\ UNCHANGED <<handles, gop, owned, mem, entry_addr, boot_services, changes, late>>

LoadSegments == {phdr[i] : i \in {j \in DOMAIN phdr : phdr[j].load}}

\* A mutated CalcLoadAddressRange: the bytes in the file instead of those in memory.
CalcLoadAddressRange_FileSize ==
  [first |-> Min({s.vaddr : s \in LoadSegments}),
   last  |-> Max({s.vaddr + s.filesz : s \in LoadSegments})]

\* The range of addresses the segments need.
CalcLoadAddressRange ==
  [first |-> Min({s.vaddr : s \in LoadSegments}),
   last  |-> Max({s.vaddr + s.memsz : s \in LoadSegments})]

\* The pages that AllocatePages is asked for.
KernelPages ==
  LET r == CalcLoadAddressRange
      n == (r.last - r.first + PageSize - 1) \div PageSize
  IN  PageOf(r.first) .. PageOf(r.first) + n - 1

\* AllocatePages at the address of the kernel, which fails if it is in use.
AllocatePages ==
  /\ pc = "load"
  /\ \/ owned' = KernelPages /\ pc' = "copy" /\ UNCHANGED faults
     \/ Fault /\ pc' = "halt" /\ UNCHANGED owned
  /\ key_current' = FALSE
  /\ UNCHANGED <<handles, gop, phdr, mem, buffer, entry_addr, boot_services, changes, late>>

\* A mutated CopyLoadSegments: the rest of a segment is not cleared.
CopyLoadSegments_NoBss(m) ==
  [a \in Addresses |->
     LET here == {s \in LoadSegments : a \in SegmentCells(s)}
     IN  IF here = {} THEN m[a]
         ELSE LET s == CHOOSE s \in here : TRUE
              IN  IF a < s.vaddr + s.filesz THEN s.offset + (a - s.vaddr) + 1 ELSE m[a]]

\* Memory after each segment was copied to its place and its rest cleared.  Segments
\* do not overlap, so that their order does not matter.
CopyLoadSegments(m) ==
  [a \in Addresses |->
     LET here == {s \in LoadSegments : a \in SegmentCells(s)}
     IN  IF here = {} THEN m[a]
         ELSE LET s == CHOOSE s \in here : TRUE
              IN  IF a < s.vaddr + s.filesz THEN s.offset + (a - s.vaddr) + 1 ELSE Zero]

\* CopyLoadSegments, FreePool, and the entry point read from the loaded image.
LoadKernel ==
  /\ pc = "copy"
  /\ mem' = CopyLoadSegments(mem)
  /\ \/ /\ buffer' = "freed"
        /\ entry_addr' = mem'[CalcLoadAddressRange.first + EntryOffset]
        /\ pc' = "config"
        /\ UNCHANGED faults
     \/ /\ Fault
        /\ pc' = "halt"
        /\ UNCHANGED <<buffer, entry_addr>>
  /\ key_current' = FALSE
  /\ UNCHANGED <<handles, gop, phdr, owned, boot_services, changes, late>>

\* The configuration for the kernel needs a pixel format it knows.
MakeConfig ==
  /\ pc = "config"
  /\ pc' = IF gop[2].format = "RGB" THEN "exit1" ELSE "halt"
  /\ UNCHANGED <<handles, gop, image, key_current, boot_services, faults, changes, late>>

\* ExitBootServices succeeds exactly with the key of the current map.
ExitBootServices(here, failed) ==
  /\ pc = here
  /\ boot_services' = ~key_current
  /\ pc' = IF key_current THEN "kernel" ELSE failed
  /\ UNCHANGED <<handles, gop, image, key_current, faults, changes, late>>

FirstExit == ExitBootServices("exit1", "memmap2")
SecondExit == ExitBootServices("exit2", "halt")

\* A mutated ReadMemoryMapAgain: the map is not read before the retry.
ReadMemoryMapAgain_Skipped ==
  /\ pc = "memmap2"
  /\ pc' = "exit2"
  /\ UNCHANGED <<handles, gop, image, key_current, boot_services, faults, changes, late>>

\* The map is read again, this time checked.
ReadMemoryMapAgain ==
  /\ pc = "memmap2"
  /\ \E ok \in BOOLEAN :
       /\ GetMemoryMap(ok)
       /\ pc' = IF ok THEN "exit2" ELSE "halt"
  /\ UNCHANGED <<handles, gop, image, boot_services, changes, late>>

UefiMain ==
  \/ ReadMemoryMap \/ SaveMemoryMap \/ OpenGOP \/ ReadKernel \/ AllocatePages
  \/ LoadKernel \/ MakeConfig \/ FirstExit \/ ReadMemoryMapAgain \/ SecondExit

Next == UefiMain \/ FirmwareChangesMap

Spec == Init /\ [][Next]_vars

--------------------------------------------------------------------------------
\* CopyLoadSegments writes only to pages that AllocatePages has given (Main.c:379,
\* 294): the range is computed from the sizes in memory, rounded up to pages.
NoStrayWrite == \A a \in Addresses : PageOf(a) \notin owned => mem[a] = Fw

\* What the kernel relies on when it is entered (Main.c:440): the boot services are
\* over; each segment is in place with its rest zero; the entry point, which is read
\* from the loaded image after the file buffer was freed, is e_entry of the file;
\* and there is a frame buffer in a format the kernel knows.
EnteredReady ==
  pc = "kernel" =>
    /\ ~boot_services
    /\ \A s \in LoadSegments, i \in 0 .. Memory - 1 :
         i < s.memsz => mem[s.vaddr + i] = IF i < s.filesz THEN s.offset + i + 1 ELSE Zero
    /\ entry_addr = EntryOffset + 1
    /\ gop[2].format = "RGB"

\* The retry of ExitBootServices is all the loader needs (Main.c:423-433): it gives
\* up only if a service failed, the pixel format is one the kernel does not know, or
\* the firmware changed the map again right before the second attempt.
HaltJustified ==
  pc = "halt" =>
    \/ faults > 0
    \/ gop[2].format # "RGB"
    \/ late
================================================================================

------------------------------ MODULE Loader_proofs -----------------------------
(***************************************************************************)
(* The loader, for every kernel image, every sequence of graphics modes    *)
(* and however the firmware changes the memory map meanwhile.              *)
(*                                                                         *)
(* The invariant says which image the loader has and where it got with it  *)
(* (Image), what the services of the firmware stand at (Services), and     *)
(* that a stale key in front of the second exit was made stale since the   *)
(* map was read again (Retry).                                             *)
(***************************************************************************)
EXTENDS Loader, TLAPS

(* The least and the greatest of one or two numbers.                       *)
LEMMA MinMaxOne ==
    ASSUME NEW x \in Int
    PROVE  Min({x}) = x /\ Max({x}) = x
  BY DEF Min, Max

(* The least and the greatest of two numbers.                              *)
LEMMA MinMaxTwo ==
    ASSUME NEW x \in Int, NEW y \in Int, x <= y
    PROVE  Min({x, y}) = x /\ Max({x, y}) = y
<1>1. Min({x, y}) = x
  BY DEF Min
<1>2. Max({x, y}) = y
  BY DEF Max
<1> QED
  BY <1>1, <1>2

-----------------------------------------------------------------------------
(* The fields of a segment, and where it is.                               *)
LEMMA SegmentTypes ==
    ASSUME NEW O, O \subseteq Nat, NEW s \in Segments(O)
    PROVE  /\ s.load = TRUE
           /\ s.offset \in O /\ s.offset \in Nat /\ s.vaddr \in Nat /\ s.filesz \in Nat
           /\ s.memsz \in Nat \ {0}
           /\ s.filesz <= s.memsz
           /\ s.vaddr + s.memsz <= Memory
<1>1. /\ s \in [load : {TRUE}, offset : O, vaddr : Addresses, filesz : 0 .. FileSize,
                memsz : 1 .. Memory]
      /\ s.filesz <= s.memsz
      /\ SegmentCells(s) \subseteq Addresses
  BY DEF Segments
<1>2. /\ s.load = TRUE /\ s.offset \in O /\ s.vaddr \in 0 .. Memory - 1
      /\ s.filesz \in 0 .. FileSize /\ s.memsz \in 1 .. Memory
  BY <1>1 DEF Addresses
<1>3. Memory \in Nat /\ FileSize \in Nat
  BY LoaderAssumption
<1>4. s.vaddr + s.memsz - 1 \in SegmentCells(s)
  BY <1>2, <1>3 DEF SegmentCells
<1>5. s.vaddr + s.memsz - 1 \in 0 .. Memory - 1
  BY <1>1, <1>4 DEF Addresses
<1>6. s.offset \in Nat
  BY <1>2
<1>7. s.vaddr \in Nat /\ s.filesz \in Nat /\ s.memsz \in Nat \ {0} /\ s.vaddr + s.memsz <= Memory
  BY <1>2, <1>3, <1>5
<1> QED
  BY <1>1, <1>2, <1>6, <1>7

(* The first segment of an image and what else is loaded.                  *)
Shape(f, S) ==
    /\ LoadSegments = S
    /\ f \in Segments({0}) /\ f.filesz > EntryOffset /\ f.vaddr % PageSize = 0
    /\ \/ S = {f}
       \/ \E s \in Segments(1 .. FileSize) : S = {f, s} /\ f.vaddr + f.memsz <= s.vaddr

(* Every image has the shape the proofs work with.                         *)
LEMMA ImageShape == phdr \in Images => \E f, S : Shape(f, S)
<1> SUFFICES ASSUME phdr \in Images PROVE \E f, S : Shape(f, S)
  OBVIOUS
<1>1. PICK f \in Segments({0}), s \in Segments(1 .. FileSize) \cup Others :
        /\ f.filesz > EntryOffset /\ f.vaddr % PageSize = 0
        /\ s \notin Others => f.vaddr + f.memsz <= s.vaddr
        /\ phdr = <<f, s>> \/ phdr = <<s, f>>
  <2> DEFINE First == {f \in Segments({0}) : f.filesz > EntryOffset /\ f.vaddr % PageSize = 0}
             Behind(f) ==
               Others \cup {s \in Segments(1 .. FileSize) : f.vaddr + f.memsz <= s.vaddr}
  <2>1. phdr \in UNION {UNION {{<<f, s>>, <<s, f>>} : s \in Behind(f)} : f \in First}
    BY DEF Images
  <2> HIDE DEF First, Behind
  <2>2. \E f \in First : phdr \in UNION {{<<f, s>>, <<s, f>>} : s \in Behind(f)}
    BY <2>1, Zenon
  <2>3. PICK f \in First : \E s \in Behind(f) : phdr \in {<<f, s>>, <<s, f>>}
    BY <2>2, Zenon
  <2>4. PICK s \in Behind(f) : phdr = <<f, s>> \/ phdr = <<s, f>>
    BY <2>3, Zenon
  <2>5. f \in Segments({0}) /\ f.filesz > EntryOffset /\ f.vaddr % PageSize = 0
    BY <2>3 DEF First
  <2>6. s \in Segments(1 .. FileSize) \cup Others /\ (s \in Others \/ f.vaddr + f.memsz <= s.vaddr)
    BY <2>4 DEF Behind
  <2> QED
    BY <2>4, <2>5, <2>6
<1>2. f.load = TRUE
  BY DEF Segments
<1>3. LoadSegments = {x \in {f, s} : x.load}
  BY <1>1 DEF LoadSegments
<1>4. CASE s \in Segments(1 .. FileSize)
  <2>1. s.load = TRUE
    BY <1>4 DEF Segments
  <2>2. LoadSegments = {f, s}
    BY <1>2, <1>3, <2>1
  <2>3. s \notin Others
    BY <2>1 DEF Others
  <2> QED
    BY <1>1, <1>4, <2>2, <2>3 DEF Shape
<1>5. CASE s \in Others
  <2>1. s.load = FALSE
    BY <1>5 DEF Others
  <2>2. LoadSegments = {f}
    BY <1>2, <1>3, <2>1
  <2> QED
    BY <1>1, <2>2 DEF Shape
<1> QED
  BY <1>1, <1>4, <1>5

(* A range that begins at a page, with the segment of the ELF header, and  *)
(* holds every segment.                                                    *)
HoldsSegments(first, last) ==
    /\ first \in Nat /\ last \in Nat /\ first < last /\ last <= Memory
    /\ first % PageSize = 0
    /\ \A s \in LoadSegments : SegmentCells(s) \subseteq first .. last - 1
    /\ \E f \in LoadSegments :
         f.vaddr = first /\ f.offset = 0 /\ f.filesz \in Nat /\ EntryOffset < f.filesz

(* The range begins with the first segment and holds every segment.        *)
LEMMA RangeHolds ==
    ASSUME phdr \in Images
    PROVE  HoldsSegments(CalcLoadAddressRange.first, CalcLoadAddressRange.last)
<1>1. PICK f, S : Shape(f, S)
  BY ImageShape
<1>2. /\ f.vaddr \in Nat /\ f.memsz \in Nat \ {0} /\ f.vaddr + f.memsz <= Memory
      /\ f.vaddr % PageSize = 0 /\ LoadSegments = S /\ f \in LoadSegments
      /\ f.offset = 0 /\ f.filesz \in Nat /\ EntryOffset < f.filesz
  <2>1. f \in Segments({0}) /\ {0} \subseteq Nat
    BY <1>1 DEF Shape
  <2>2. /\ f.vaddr \in Nat /\ f.memsz \in Nat \ {0} /\ f.vaddr + f.memsz <= Memory
        /\ f.offset \in {0} /\ f.filesz \in Nat
    BY <2>1, SegmentTypes
  <2> QED
    BY <1>1, <2>2, LoaderAssumption DEF Shape
<1>3. CASE S = {f}
  <2>1. /\ {s.vaddr : s \in LoadSegments} = {f.vaddr}
        /\ {s.vaddr + s.memsz : s \in LoadSegments} = {f.vaddr + f.memsz}
    BY <1>2, <1>3
  <2>2. /\ CalcLoadAddressRange.first = f.vaddr
        /\ CalcLoadAddressRange.last = f.vaddr + f.memsz
    <3>1. f.vaddr \in Int /\ f.vaddr + f.memsz \in Int
      BY <1>2
    <3>2. Min({f.vaddr}) = f.vaddr /\ Max({f.vaddr + f.memsz}) = f.vaddr + f.memsz
      BY <3>1, MinMaxOne, Zenon
    <3> QED
      BY <2>1, <3>2 DEF CalcLoadAddressRange
  <2> QED
    BY <1>2, <1>3, <2>2, LoaderAssumption DEF SegmentCells, HoldsSegments
<1>4. ASSUME NEW g \in Segments(1 .. FileSize), S = {f, g}, f.vaddr + f.memsz <= g.vaddr
      PROVE  HoldsSegments(CalcLoadAddressRange.first, CalcLoadAddressRange.last)
  <2>0. g.vaddr \in Nat /\ g.memsz \in Nat \ {0} /\ g.vaddr + g.memsz <= Memory
    <3>1. 1 .. FileSize \subseteq Nat
      OBVIOUS
    <3> QED
      BY <3>1, SegmentTypes
  <2>1. /\ {s.vaddr : s \in LoadSegments} = {f.vaddr, g.vaddr}
        /\ {s.vaddr + s.memsz : s \in LoadSegments} = {f.vaddr + f.memsz, g.vaddr + g.memsz}
    BY <1>2, <1>4
  <2>2. CalcLoadAddressRange.first = f.vaddr
    <3>1. Min({f.vaddr, g.vaddr}) = f.vaddr
      BY <1>2, <1>4, <2>0, MinMaxTwo
    <3> QED
      BY <2>1, <3>1 DEF CalcLoadAddressRange
  <2>3. CalcLoadAddressRange.last = g.vaddr + g.memsz
    <3>1. Max({f.vaddr + f.memsz, g.vaddr + g.memsz}) = g.vaddr + g.memsz
      <4>1. /\ f.vaddr + f.memsz \in Int /\ g.vaddr + g.memsz \in Int
            /\ f.vaddr + f.memsz <= g.vaddr + g.memsz
        BY <1>2, <1>4, <2>0
      <4> QED
        BY <4>1, MinMaxTwo, Zenon
    <3> QED
      BY <2>1, <3>1 DEF CalcLoadAddressRange
  <2>4. /\ SegmentCells(f) \subseteq f.vaddr .. (g.vaddr + g.memsz) - 1
        /\ SegmentCells(g) \subseteq f.vaddr .. (g.vaddr + g.memsz) - 1
    <3>1. /\ f.vaddr \in Nat /\ f.memsz \in Nat \ {0} /\ f.vaddr + f.memsz <= g.vaddr
          /\ g.vaddr \in Nat /\ g.memsz \in Nat \ {0}
      BY <1>2, <1>4, <2>0
    <3>2. SegmentCells(f) \subseteq f.vaddr .. (g.vaddr + g.memsz) - 1
      BY <3>1, SMTT(30) DEF SegmentCells
    <3>3. SegmentCells(g) \subseteq f.vaddr .. (g.vaddr + g.memsz) - 1
      BY <3>1, SMTT(30) DEF SegmentCells
    <3> QED
      BY <3>2, <3>3
  <2>5. \A s \in LoadSegments : SegmentCells(s) \subseteq f.vaddr .. (g.vaddr + g.memsz) - 1
    BY <1>2, <1>4, <2>4
  <2>6. /\ f.vaddr \in Nat /\ g.vaddr + g.memsz \in Nat /\ f.vaddr < g.vaddr + g.memsz
        /\ g.vaddr + g.memsz <= Memory /\ f.vaddr % PageSize = 0
    BY <1>2, <1>4, <2>0
  <2>7. HoldsSegments(f.vaddr, g.vaddr + g.memsz)
    BY <1>2, <2>5, <2>6 DEF HoldsSegments
  <2> QED
    BY <2>2, <2>3, <2>7
<1> QED
  BY <1>1, <1>3, <1>4 DEF Shape

(* A number below L, in units of P, is below L rounded up to units of P.   *)
LEMMA UnitsBelow ==
    ASSUME NEW P \in Nat \ {0}, NEW L \in Nat, NEW d \in Nat, d < L
    PROVE  d \div P < (L + P - 1) \div P
<1> DEFINE k == d \div P
           n == (L + P - 1) \div P
<1>1. k \in Nat /\ k * P <= d
  OBVIOUS
<1>2. n \in Nat /\ n * P >= L
  OBVIOUS
<1> HIDE DEF k, n
<1>3. k * P < n * P
  BY <1>1, <1>2
<1>4. ASSUME k >= n PROVE FALSE
  <2>1. PICK e \in Nat : k = n + e
    BY <1>1, <1>2, <1>4
  <2>2. k * P = n * P + e * P /\ e * P \in Nat
    BY <1>2, <2>1
  <2> QED
    BY <1>2, <1>3, <2>2
<1> QED
  BY <1>1, <1>2, <1>4 DEF k, n

(* Division with a multiple of the divisor.                                *)
LEMMA DivShift ==
    ASSUME NEW P \in Nat \ {0}, NEW b \in Nat, b % P = 0, NEW d \in Nat
    PROVE  (b + d) \div P = b \div P + d \div P
<1>1. PICK q \in Nat : b = q * P
  <2>1. b = (b \div P) * P + (b % P) /\ b \div P \in Nat
    OBVIOUS
  <2> QED
    BY <2>1
<1>2. PICK k \in Nat, m \in 0 .. P - 1 : d = k * P + m
  <2>1. d = (d \div P) * P + (d % P) /\ d \div P \in Nat /\ d % P \in 0 .. P - 1
    OBVIOUS
  <2> QED
    BY <2>1
<1>3. b + d = (q + k) * P + m
  BY <1>1, <1>2
<1>4. \A j \in Nat : (j * P + m) \div P = j
  BY <1>2
<1>5. b \div P = q
  BY <1>1
<1> QED
  BY <1>2, <1>3, <1>4, <1>5

(* AllocatePages is asked for every page that a segment touches.           *)
LEMMA PagesHold ==
    ASSUME phdr \in Images, NEW s \in LoadSegments, NEW a \in SegmentCells(s)
    PROVE  PageOf(a) \in KernelPages
<1> DEFINE r == CalcLoadAddressRange
           L == r.last - r.first
           n == (L + PageSize - 1) \div PageSize
<1>1. /\ r.first \in Nat /\ r.last \in Nat /\ r.first < r.last
      /\ r.first % PageSize = 0 /\ a \in r.first .. r.last - 1
  BY RangeHolds DEF HoldsSegments
<1>2. PageSize \in Nat \ {0}
  BY LoaderAssumption
<1>3. KernelPages = (r.first \div PageSize) .. (r.first \div PageSize) + n - 1
  BY DEF KernelPages, PageOf
<1> HIDE DEF r
<1> DEFINE d == a - r.first
<1>4. d \in Nat /\ a = r.first + d /\ d < L
  BY <1>1
<1> HIDE DEF d
<1>5. L \in Nat
  BY <1>1
<1>6. d \div PageSize < n
  <2> HIDE DEF L
  <2> QED
    BY <1>2, <1>4, <1>5, UnitsBelow
<1>7. a \div PageSize = r.first \div PageSize + d \div PageSize
  BY <1>1, <1>2, <1>4, DivShift
<1>8. n \in Int /\ d \div PageSize \in Nat /\ r.first \div PageSize \in Nat
  BY <1>1, <1>2, <1>4, <1>5
<1> HIDE DEF n
<1> QED
  BY <1>3, <1>6, <1>7, <1>8 DEF PageOf

-----------------------------------------------------------------------------
(* Memory with nothing of the kernel in it.                                *)
Blank == [a \in Addresses |-> Fw]

(* A cell of a segment belongs to that segment only.                       *)
LEMMA SegmentsDisjoint ==
    ASSUME phdr \in Images, NEW s \in LoadSegments, NEW t \in LoadSegments,
           NEW a \in SegmentCells(s), a \in SegmentCells(t)
    PROVE  s = t
<1>1. PICK f, S : Shape(f, S)
  BY ImageShape
<1>2. s = t \/ \E g \in Segments(1 .. FileSize) : {s, t} = {f, g} /\ f.vaddr + f.memsz <= g.vaddr
  BY <1>1 DEF Shape
<1>3. ASSUME NEW g \in Segments(1 .. FileSize), {s, t} = {f, g}, f.vaddr + f.memsz <= g.vaddr
      PROVE  FALSE
  <2>1. a \in SegmentCells(f) /\ a \in SegmentCells(g)
    BY <1>3
  <2>2. {0} \subseteq Nat /\ 1 .. FileSize \subseteq Nat /\ f \in Segments({0})
    BY <1>1 DEF Shape
  <2>3. /\ f.vaddr \in Nat /\ f.memsz \in Nat /\ g.vaddr \in Nat /\ g.memsz \in Nat
    BY <2>2, SegmentTypes
  <2> QED
    BY <1>3, <2>1, <2>3 DEF SegmentCells
<1> QED
  BY <1>2, <1>3

(* What CopyLoadSegments leaves in a cell of a segment.                    *)
LEMMA CopiedCell ==
    ASSUME phdr \in Images, NEW m, NEW s \in LoadSegments, NEW a \in Addresses,
           a \in SegmentCells(s)
    PROVE  CopyLoadSegments(m)[a] =
             IF a < s.vaddr + s.filesz THEN s.offset + (a - s.vaddr) + 1 ELSE Zero
<1> DEFINE here == {t \in LoadSegments : a \in SegmentCells(t)}
<1>1. here = {s}
  BY SegmentsDisjoint
<1>2. (CHOOSE t \in here : TRUE) = s
  BY <1>1
<1>3. CopyLoadSegments(m)[a] =
        IF here = {} THEN m[a]
        ELSE LET t == CHOOSE t \in here : TRUE
             IN  IF a < t.vaddr + t.filesz THEN t.offset + (a - t.vaddr) + 1 ELSE Zero
  BY DEF CopyLoadSegments
<1> HIDE DEF here
<1> QED
  BY <1>1, <1>2, <1>3

(* ... and in one of no segment.                                           *)
LEMMA UntouchedCell ==
    ASSUME NEW m, NEW a \in Addresses, \A s \in LoadSegments : a \notin SegmentCells(s)
    PROVE  CopyLoadSegments(m)[a] = m[a]
  BY DEF CopyLoadSegments

(* The entry point that is read from memory is that of the file.           *)
LEMMA EntryCell ==
    ASSUME phdr \in Images, NEW m
    PROVE  CopyLoadSegments(m)[CalcLoadAddressRange.first + EntryOffset] = EntryOffset + 1
<1> DEFINE a == CalcLoadAddressRange.first + EntryOffset
<1>1. PICK f \in LoadSegments :
        /\ f.vaddr = CalcLoadAddressRange.first /\ f.offset = 0 /\ f.vaddr \in Nat
        /\ f.filesz \in Nat /\ EntryOffset < f.filesz
  BY RangeHolds DEF HoldsSegments
<1>2. EntryOffset \in Nat
  BY LoaderAssumption
<1>3. f.memsz \in Nat /\ f.filesz <= f.memsz /\ f.vaddr + f.memsz <= Memory
  <2>1. PICK h, S : Shape(h, S)
    BY ImageShape
  <2>2. f \in Segments({0}) \/ f \in Segments(1 .. FileSize)
    BY <2>1 DEF Shape
  <2>3. {0} \subseteq Nat /\ 1 .. FileSize \subseteq Nat
    OBVIOUS
  <2> QED
    BY <2>2, <2>3, SegmentTypes
<1>4. a = f.vaddr + EntryOffset /\ a \in Addresses /\ a \in SegmentCells(f)
  BY <1>1, <1>2, <1>3, LoaderAssumption DEF Addresses, SegmentCells
<1> HIDE DEF a
<1>5. CopyLoadSegments(m)[a] =
        IF a < f.vaddr + f.filesz THEN f.offset + (a - f.vaddr) + 1 ELSE Zero
  BY <1>4, CopiedCell
<1>6. CopyLoadSegments(m)[a] = EntryOffset + 1
  BY <1>1, <1>2, <1>4, <1>5
<1> QED
  BY <1>6 DEF a

-----------------------------------------------------------------------------
(* Places of UefiMain, up to the copy and after it.                        *)
Before == {"memmap", "save", "gop", "read", "load", "copy"}
After == {"config", "exit1", "memmap2", "exit2", "kernel"}

(* The kernel's image is where its program headers say.                    *)
Loaded == phdr \in Images /\ owned = KernelPages /\ mem = CopyLoadSegments(Blank)

Image ==
    /\ mem = Blank \/ Loaded
    /\ pc \in Before => mem = Blank
    /\ pc \in {"load", "copy"} => phdr \in Images
    /\ pc = "copy" => owned = KernelPages
    /\ pc \in After => Loaded /\ entry_addr = EntryOffset + 1

Services ==
    /\ pc \in Before \cup After \cup {"halt", "undefined"}
    /\ faults \in Nat
    /\ pc = "kernel" => ~boot_services
    /\ pc \in After \ {"config"} => gop[2].format = "RGB"

(* A key read by the retry is current unless the map changed since.        *)
Retry ==
    /\ pc = "exit2" => key_current \/ late
    /\ pc = "halt" => faults > 0 \/ gop[2].format # "RGB" \/ late

Inv == Image /\ Services /\ Retry

(* What is computed from the program headers alone.                        *)
LEMMA SameHeaders ==
    ASSUME UNCHANGED <<phdr, owned, mem>>
    PROVE  Loaded' = Loaded /\ KernelPages' = KernelPages /\ Blank' = Blank
  BY DEF Loaded, KernelPages, CalcLoadAddressRange, CopyLoadSegments, LoadSegments, Blank

(* The invariant holds initially.                                          *)
LEMMA InitInv == Init => Inv
  BY DEF Init, Inv, Image, Services, Retry, Blank, Before, After

(* Counting a fault.                                                       *)
LEMMA FaultCounts == faults \in Nat /\ Fault => faults' \in Nat /\ faults' > 0
  BY DEF Fault

(* The steps of the loader that leave the image alone.                     *)
LEMMA ServiceSteps ==
    Inv /\ (\/ ReadMemoryMap \/ SaveMemoryMap \/ OpenGOP \/ MakeConfig \/ FirstExit
            \/ ReadMemoryMapAgain \/ SecondExit \/ FirmwareChangesMap) => Inv'
<1> SUFFICES ASSUME Inv,
                    \/ ReadMemoryMap \/ SaveMemoryMap \/ OpenGOP \/ MakeConfig \/ FirstExit
                    \/ ReadMemoryMapAgain \/ SecondExit \/ FirmwareChangesMap
             PROVE  Inv'
  OBVIOUS
<1>1. UNCHANGED <<phdr, owned, mem, buffer, entry_addr>>
  BY DEF ReadMemoryMap, SaveMemoryMap, OpenGOP, MakeConfig, FirstExit, ReadMemoryMapAgain,
         SecondExit, FirmwareChangesMap, ExitBootServices, image
<1>2. Loaded' = Loaded /\ KernelPages' = KernelPages /\ Blank' = Blank
  BY <1>1, SameHeaders
<1>3. \/ pc' = pc
      \/ pc \in {"memmap", "save", "gop"} /\ pc' \in {"save", "gop", "read", "halt", "undefined"}
      \/ pc \in After /\ pc' \in After \cup {"halt"}
  BY DEF ReadMemoryMap, SaveMemoryMap, OpenGOP, MakeConfig, FirstExit, ReadMemoryMapAgain,
         SecondExit, FirmwareChangesMap, ExitBootServices, After
<1>4. Image'
  BY <1>1, <1>2, <1>3 DEF Inv, Image, Before, After
<1>5. Services' /\ Retry'
  <2> USE DEF Inv, Services, Retry, Before, After
  <2>1. CASE ReadMemoryMap
    BY <2>1, FaultCounts DEF ReadMemoryMap, GetMemoryMap
  <2>2. CASE SaveMemoryMap
    BY <2>2, FaultCounts DEF SaveMemoryMap
  <2>3. CASE OpenGOP
    BY <2>3, FaultCounts DEF OpenGOP
  <2>4. CASE MakeConfig
    BY <2>4 DEF MakeConfig
  <2>5. CASE FirstExit
    BY <2>5 DEF FirstExit, ExitBootServices
  <2>6. CASE ReadMemoryMapAgain
    BY <2>6, FaultCounts DEF ReadMemoryMapAgain, GetMemoryMap
  <2>7. CASE SecondExit
    BY <2>7 DEF SecondExit, ExitBootServices
  <2>8. CASE FirmwareChangesMap
    BY <2>8 DEF FirmwareChangesMap
  <2> QED
    BY <2>1, <2>2, <2>3, <2>4, <2>5, <2>6, <2>7, <2>8
<1> QED
  BY <1>4, <1>5 DEF Inv

(* The steps that read, allocate and copy.                                 *)
LEMMA ImageSteps == Inv /\ (ReadKernel \/ AllocatePages \/ LoadKernel) => Inv'
<1> SUFFICES ASSUME Inv, ReadKernel \/ AllocatePages \/ LoadKernel PROVE Inv'
  OBVIOUS
<1>1. CASE ReadKernel
  <2>1. pc = "read" /\ mem = Blank /\ mem' = Blank /\ pc' \in {"load", "halt", "undefined"}
    BY <1>1 DEF ReadKernel, Inv, Image, Before, Blank
  <2>2. Image'
    BY <1>1, <2>1 DEF ReadKernel, Image, Before, After
  <2>3. Services' /\ Retry'
    BY <1>1, FaultCounts DEF ReadKernel, Inv, Services, Retry, Before, After
  <2> QED
    BY <2>2, <2>3 DEF Inv
<1>2. CASE AllocatePages
  <2>1. /\ pc = "load" /\ mem = Blank /\ mem' = Blank /\ phdr' = phdr /\ phdr \in Images
        /\ (owned' = KernelPages /\ pc' = "copy") \/ pc' = "halt"
    BY <1>2 DEF AllocatePages, Inv, Image, Before, Blank
  <2>2. KernelPages' = KernelPages
    BY <2>1 DEF KernelPages, CalcLoadAddressRange, LoadSegments
  <2>3. Image'
    BY <2>1, <2>2 DEF Image, Before, After
  <2>4. Services' /\ Retry'
    BY <1>2, FaultCounts DEF AllocatePages, Inv, Services, Retry, Before, After
  <2> QED
    BY <2>3, <2>4 DEF Inv
<1>3. CASE LoadKernel
  <2>1. /\ pc = "copy" /\ mem = Blank /\ phdr \in Images /\ owned = KernelPages
        /\ UNCHANGED <<phdr, owned>> /\ mem' = CopyLoadSegments(Blank)
    BY <1>3 DEF LoadKernel, Inv, Image, Before
  <2>2. Loaded'
    BY <2>1 DEF Loaded, KernelPages, CalcLoadAddressRange, CopyLoadSegments, LoadSegments, Blank
  <2>3. mem'[CalcLoadAddressRange.first + EntryOffset] = EntryOffset + 1
    BY <2>1, EntryCell
  <2>4. pc' = "halt" \/ (pc' = "config" /\ entry_addr' = EntryOffset + 1)
    BY <1>3, <2>3 DEF LoadKernel
  <2>5. Image'
    BY <2>2, <2>4 DEF Image, Before, After
  <2>6. Services' /\ Retry'
    BY <1>3, FaultCounts DEF LoadKernel, Inv, Services, Retry, Before, After
  <2> QED
    BY <2>5, <2>6 DEF Inv
<1> QED
  BY <1>1, <1>2, <1>3

(* Every step keeps the invariant.                                         *)
LEMMA NextInv == Inv /\ [Next]_vars => Inv'
<1>1. Inv /\ UNCHANGED vars => Inv'
  <2> SUFFICES ASSUME Inv, UNCHANGED vars PROVE Inv'
    OBVIOUS
  <2>1. Loaded' = Loaded /\ KernelPages' = KernelPages /\ Blank' = Blank
    BY SameHeaders DEF vars
  <2> QED
    BY <2>1 DEF vars, Inv, Image, Services, Retry
<1> QED
  BY <1>1, ServiceSteps, ImageSteps DEF Next, UefiMain

(* Every reachable state satisfies the invariant.                          *)
LEMMA InvHolds == Spec => []Inv
  BY InitInv, NextInv, PTL DEF Spec

-----------------------------------------------------------------------------
(* CopyLoadSegments writes nothing outside of the pages that AllocatePages *)
(* has given.                                                              *)
THEOREM WritesStay == Spec => []NoStrayWrite
<1>1. Inv => NoStrayWrite
  <2> SUFFICES ASSUME Inv, NEW a \in Addresses, PageOf(a) \notin owned PROVE mem[a] = Fw
    BY DEF NoStrayWrite
  <2>1. CASE mem = Blank
    BY <2>1 DEF Blank
  <2>2. CASE Loaded
    <3>1. \A s \in LoadSegments : a \notin SegmentCells(s)
      BY <2>2, PagesHold DEF Loaded
    <3>2. mem[a] = Blank[a]
      BY <2>2, <3>1, UntouchedCell DEF Loaded
    <3> QED
      BY <3>2 DEF Blank
  <2> QED
    BY <2>1, <2>2 DEF Inv, Image
<1> QED
  BY <1>1, InvHolds, PTL

(* UefiMain enters the kernel with all that it relies on: the segments in  *)
(* place, the right entry point, a frame buffer, no boot services.         *)
THEOREM KernelReady == Spec => []EnteredReady
<1>1. Inv => EnteredReady
  <2> SUFFICES ASSUME Inv, pc = "kernel" PROVE EnteredReady
    BY DEF EnteredReady
  <2>1. /\ ~boot_services /\ entry_addr = EntryOffset + 1 /\ gop[2].format = "RGB"
        /\ phdr \in Images /\ mem = CopyLoadSegments(Blank)
    BY DEF Inv, Image, Services, After, Loaded
  <2>2. ASSUME NEW s \in LoadSegments, NEW i \in 0 .. Memory - 1, i < s.memsz
        PROVE  mem[s.vaddr + i] = IF i < s.filesz THEN s.offset + i + 1 ELSE Zero
    <3>1. PICK h, S : Shape(h, S)
      BY <2>1, ImageShape
    <3>2. s \in Segments({0}) \/ s \in Segments(1 .. FileSize)
      BY <3>1 DEF Shape
    <3>3. {0} \subseteq Nat /\ 1 .. FileSize \subseteq Nat
      OBVIOUS
    <3>4. /\ s.vaddr \in Nat /\ s.filesz \in Nat /\ s.memsz \in Nat /\ s.offset \in Nat
          /\ s.vaddr + s.memsz <= Memory
      BY <3>2, <3>3, SegmentTypes
    <3> DEFINE a == s.vaddr + i
    <3>5. Memory \in Nat /\ i \in Nat
      BY <2>2, LoaderAssumption
    <3>6. a \in Addresses /\ a \in SegmentCells(s)
      BY <2>2, <3>4, <3>5 DEF Addresses, SegmentCells
    <3>7. a - s.vaddr = i /\ (a < s.vaddr + s.filesz <=> i < s.filesz)
      BY <3>4, <3>5
    <3> HIDE DEF a
    <3>8. mem[a] = IF a < s.vaddr + s.filesz THEN s.offset + (a - s.vaddr) + 1 ELSE Zero
      BY <2>1, <3>6, CopiedCell
    <3>9. mem[a] = IF i < s.filesz THEN s.offset + i + 1 ELSE Zero
      BY <3>7, <3>8
    <3> QED
      BY <3>9 DEF a
  <2> QED
    BY <2>1, <2>2 DEF EnteredReady
<1> QED
  BY <1>1, InvHolds, PTL

(* UefiMain halts only if a service failed, the pixel format is unknown or *)
(* the memory map changed right before the second ExitBootServices.        *)
THEOREM HaltsWithReason == Spec => []HaltJustified
<1>1. Inv => HaltJustified
  BY DEF Inv, Retry, HaltJustified
<1> QED
  BY <1>1, InvHolds, PTL

================================================================================

------------------------------- MODULE RawDisk -------------------------------
(***************************************************************************)
(* The raw disk of step 1, byte by byte: the drive of                      *)
(* src/src/virtual_drive.h with the geometry it is launched with and the   *)
(* file it maps, which outlives it, and the shell of src/src/raw_shell.h,  *)
(* which turns cylinder and sector into an address and has one buffer for  *)
(* all that it reads and writes.                                           *)
(*                                                                         *)
(* The messages between them are DiskLink's matter: here a request and its *)
(* answer are one step.  Numbers are unsigned and Width bits wide.         *)
(***************************************************************************)
EXTENDS Integers, Sequences

CONSTANTS
    Width,       \* bits of a number (64)
    FileLimit,   \* external: the longest file the operating system makes
    Letters,     \* bytes a user types
    MaxTyped     \* bound: the longest data a "W" carries

ASSUME WidthAssumption == Width \in Nat \ {0}
ASSUME LimitAssumption == FileLimit \in Nat /\ FileLimit < 2 ^ Width
ASSUME TypedAssumption == MaxTyped \in Nat
ASSUME LettersAssumption == Letters \subseteq 1 .. 255

VARIABLES
    drive,   \* the process of the drive: "off" or "up"
    geom,    \* cylinders_, sectors_per_cylinder_, bytes_per_sector_ of the drive, or
             \* of the last one
    file,    \* the bytes of the file, which the drive maps from the first on
    head,    \* prev_cylinder_no
    shell,   \* the process of the shell: "off" or "ready"
    desc,    \* the same three numbers in the shell
    buf,     \* buf_
    at,      \* history: cylinder and sector of the last R or W, and which it was
    told     \* history: what every sector was last written with

vars == <<drive, geom, file, head, shell, desc, buf, at, told>>

-----------------------------------------------------------------------------
Numbers == 0 .. 2 ^ Width - 1
Wrap(n) == n % 2 ^ Width

\* power_of_2: the exponent, or -1
PowerOf2(n) == IF \E k \in 0 .. Width - 1 : n = 2 ^ k THEN CHOOSE k \in 0 .. Width - 1 : n = 2 ^ k ELSE -1

Size(g) == Wrap(Wrap(g.bytes * g.sectors) * g.cylinders)

\* A slip of the constructor: the size is not compared with what it was made of.
AcceptsWrapped(g) == PowerOf2(g.bytes) # -1 /\ PowerOf2(g.sectors) # -1

\* What main and the constructor let pass
Accepts(g) ==
    /\ g.cylinders # 0 /\ g.sectors # 0
    /\ PowerOf2(g.bytes) # -1 /\ PowerOf2(g.sectors) # -1
    /\ (Size(g) \div g.bytes) \div g.sectors = g.cylinders

Geometries == [cylinders : Numbers, sectors : Numbers, bytes : Numbers]
NoGeometry == [cylinders |-> 0, sectors |-> 0, bytes |-> 0]

Zeros(n) == [i \in 1 .. n |-> 0]

\* A slip of open: O_TRUNC.
MappedTruncated(f, n) == Zeros(n)

\* The file when a drive of n bytes has opened it: lseek to the last byte and write
\* a zero there, which makes a shorter file longer.
Mapped(f, n) == [i \in 1 .. (IF n > Len(f) THEN n ELSE Len(f)) |->
                    IF i = n \/ i > Len(f) THEN 0 ELSE f[i]]

\* f with the bytes d from offset o on
Overwritten(f, o, d) == [i \in DOMAIN f |-> IF i - o \in DOMAIN d THEN d[i - o] ELSE f[i]]

\* Slips of the shell: a sector that is not there is taken; cylinders are multiplied.
ValidOneMore(c, s) == c < desc.cylinders /\ s <= desc.sectors
AddrCrossed(c, s) == Wrap(c + s * desc.cylinders)

\* The check and the address of the shell
Valid(c, s) == c < desc.cylinders /\ s < desc.sectors
Addr(c, s) == Wrap(c * desc.sectors + s)

\* file_data_ + addr * bytes_per_sector_; the address is not looked at.
Offset(addr) == Wrap(addr * geom.bytes)

\* A slip of the constructor: the shift is of the size of a sector.
CylinderNoBytes(addr) == addr \div 2 ^ PowerOf2(geom.bytes)

\* addr >> sector_addr_bits_
CylinderNo(addr) == addr \div 2 ^ PowerOf2(geom.sectors)

\* Slip of "W": buf_ is not cleared first.
FilledOver(data) == Overwritten(buf, 0, SubSeq(data, 1, IF Len(data) < desc.bytes THEN Len(data) ELSE desc.bytes))

\* buf_ after memset and memcpy of what fits in a sector
Filled(data) == Overwritten(Zeros(desc.bytes + 1), 0,
                            SubSeq(data, 1, IF Len(data) < desc.bytes THEN Len(data) ELSE desc.bytes))

Typed == UNION {[1 .. n -> Letters] : n \in 0 .. MaxTyped}

\* Reference: the bytes of sector s of cylinder c, where an array has them
Cells(g) == (0 .. g.cylinders - 1) \X (0 .. g.sectors - 1)
Cell(f, g, c, s) == [i \in 1 .. g.bytes |-> f[(c * g.sectors + s) * g.bytes + i]]
Contents(f, g) == [k \in Cells(g) |-> Cell(f, g, k[1], k[2])]

\* Reference: data as a sector has it, cut or filled up with zeros
Padded(g, data) == [i \in 1 .. g.bytes |-> IF i <= Len(data) THEN data[i] ELSE 0]

NoAccess == <<"none", 0, 0>>

-----------------------------------------------------------------------------
Init ==
    /\ drive = "off"
    /\ geom = NoGeometry
    /\ file = << >>
    /\ head = 0
    /\ shell = "off"
    /\ desc = NoGeometry
    /\ buf = << >>
    /\ at = NoAccess
    /\ told = << >>

\* The constructor, with any arguments, up to the byte that it writes to the file.
\* One that refuses or fails before that changes nothing.
Opened ==
    /\ drive = "off"
    /\ \E g \in Geometries :
          /\ Accepts(g) /\ Size(g) <= FileLimit
          /\ geom' = g
          /\ file' = Mapped(file, Size(g))
          /\ told' = Contents(file', g)
    /\ head' = 0
    /\ UNCHANGED <<shell, desc, buf, at>>

Launch ==
    /\ Opened
    /\ drive' = "up"

\* mmap fails, or the process ends before it serves anybody: the byte is written.
LaunchFails ==
    /\ Opened
    /\ UNCHANGED drive

\* A shell is started: GET_DESC, and a buffer with one byte more than a sector.
Connect ==
    /\ drive = "up" /\ shell = "off"
    /\ shell' = "ready"
    /\ desc' = geom
    /\ buf' = Zeros(geom.bytes + 1)
    /\ UNCHANGED <<drive, geom, file, head, at, told>>

\* "R c s": "No", or the sector
R(c, s) ==
    /\ shell = "ready"
    /\ Valid(c, s)
    /\ buf' = Overwritten(buf, 0, SubSeq(file, Offset(Addr(c, s)) + 1, Offset(Addr(c, s)) + geom.bytes))
    /\ head' = CylinderNo(Addr(c, s))
    /\ at' = <<"R", c, s>>
    /\ UNCHANGED <<drive, geom, file, shell, desc, told>>

\* "W c s data": "No", or the sector is written.
W(c, s) ==
    /\ shell = "ready"
    /\ Valid(c, s)
    /\ \E data \in Typed :
          /\ buf' = Filled(data)
          /\ file' = Overwritten(file, Offset(Addr(c, s)), SubSeq(buf', 1, geom.bytes))
          /\ told' = [told EXCEPT ![<<c, s>>] = Padded(geom, data)]
    /\ head' = CylinderNo(Addr(c, s))
    /\ at' = <<"W", c, s>>
    /\ UNCHANGED <<drive, geom, shell, desc>>

\* The shell is over.
Leave ==
    /\ shell' = "off"
    /\ desc' = NoGeometry
    /\ buf' = << >>
    /\ at' = NoAccess

Killed ==
    /\ shell = "ready"
    /\ Leave
    /\ UNCHANGED <<drive, geom, file, head, told>>

\* "E" shuts the drive down, and a kill ends it too; the mapping is shared, so the
\* file has all that was written.
E ==
    /\ drive = "up"
    /\ drive' = "off"
    /\ Leave
    /\ head' = 0
    /\ UNCHANGED <<geom, file, told>>

Next == Launch \/ LaunchFails \/ Connect \/ Killed \/ E \/ \E c, s \in Numbers : R(c, s) \/ W(c, s)

Spec == Init /\ [][Next]_vars

-----------------------------------------------------------------------------
\* Every variable has its type; a drive that is up has all the bytes its three
\* numbers make, in numbers that did not wrap around, and its shell knows them.
TypeOK ==
    /\ drive \in {"off", "up"} /\ shell \in {"off", "ready"}
    /\ geom \in Geometries
    /\ file \in Seq({0} \cup Letters)
    /\ head \in Numbers
    /\ buf \in Seq({0} \cup Letters)
    /\ drive = "up" => /\ geom.cylinders * geom.sectors * geom.bytes \in 1 .. Len(file)
                       /\ DOMAIN told = Cells(geom)
    /\ shell = "ready" => drive = "up" /\ desc = geom /\ Len(buf) = desc.bytes + 1

\* The drive checks no address: none that the shell sends leads out of the mapping,
\* and no two sectors have a byte in common.
WithinMapping ==
    LET Asked == {k \in Numbers \X Numbers : Valid(k[1], k[2])}
        From(k) == Offset(Addr(k[1], k[2]))
    IN  shell = "ready" =>
           /\ \A k \in Asked : From(k) + geom.bytes <= Size(geom)
           /\ \A k, l \in Asked : From(k) < From(l) + geom.bytes /\ From(l) < From(k) + geom.bytes => k = l

\* Every sector holds what was last written to it, zeros behind it, whatever else
\* was read and written through the same buffer; and what an R shows is that.
ReadsBack ==
    /\ drive = "up" => Contents(file, geom) = told
    /\ at[1] = "R" => SubSeq(buf, 1, desc.bytes) = told[<<at[2], at[3]>>]

\* The head is at the cylinder that was asked for last.
HeadAtCylinder == at # NoAccess => head = at[2]

\* The same arguments on a file that such a drive has left, whether the launch then
\* succeeds or fails: nothing is lost but, perhaps, the last byte.
KeepsAllButOne ==
    [][(Launch \/ LaunchFails) /\ geom' = geom =>
          \A i \in DOMAIN file : file'[i] = file[i] \/ (i = Size(geom) /\ file'[i] = 0)]_vars

-----------------------------------------------------------------------------
(* The inductive invariant behind WithinMapping, ReadsBack and HeadAtCylinder *)

\* A drive that is up has let its geometry pass, and what was accessed last is a
\* sector of it, by the shell that is still there.
AccessOK ==
    /\ drive = "up" => Accepts(geom) /\ Size(geom) <= FileLimit
    /\ at # NoAccess => /\ shell = "ready"
                        /\ \E m \in {"R", "W"}, k \in Cells(geom) : at = <<m, k[1], k[2]>>

RawInv == TypeOK /\ AccessOK /\ ReadsBack /\ HeadAtCylinder

-----------------------------------------------------------------------------
(* The claim the code does not keep: the property of a run that fails *)

\* "We can also relaunch the disk and the file system to test if the data is
\* persistent": a drive launched again as it was has the sectors it had.
KeepsEverything == [][Launch /\ geom' = geom => told' = told]_vars
=============================================================================

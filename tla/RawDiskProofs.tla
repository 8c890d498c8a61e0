---------------------------- MODULE RawDiskProofs ----------------------------
(***************************************************************************)
(* The raw disk, for every width of numbers, geometry and data: no address *)
(* wraps around, leaves the mapping or meets another, and every sector     *)
(* reads back as it was written.                                           *)
(***************************************************************************)
EXTENDS RawDisk, SequenceTheorems, FiniteSetTheorems, TLAPS

-----------------------------------------------------------------------------
(* Lemmas about numbers *)

\* 2 ^ w counts the subsets of 1 .. w, of which there is one at least.
LEMMA PowerIs ==
    ASSUME NEW w \in Nat
    PROVE  2 ^ w \in Nat \ {0}
<1>1. IsFiniteSet(1 .. w) /\ Cardinality(1 .. w) = w
  BY FS_Interval
<1>2. IsFiniteSet(SUBSET (1 .. w)) /\ Cardinality(SUBSET (1 .. w)) = 2 ^ w
  BY <1>1, FS_SUBSET
<1>3. SUBSET (1 .. w) # {}
  OBVIOUS
<1> QED BY <1>2, <1>3, FS_CardinalityType, FS_EmptySet

\* A number that has Width bits is what it was; any other becomes smaller.
LEMMA WrapIs ==
    /\ Numbers \subseteq Nat /\ 0 \in Numbers
    /\ \A n \in Nat : /\ Wrap(n) \in Numbers /\ Wrap(n) <= n
                      /\ n < 2 ^ Width => Wrap(n) = n /\ n \in Numbers
<1>1. 2 ^ Width \in Nat \ {0}
  BY PowerIs, WidthAssumption
<1>2. PICK m : m = 2 ^ Width
  OBVIOUS
<1>3. ASSUME NEW n \in Nat
      PROVE  /\ n % m \in 0 .. m - 1 /\ n % m <= n
             /\ n < m => n % m = n /\ n \in 0 .. m - 1
  BY <1>1, <1>2
<1> QED BY <1>1, <1>2, <1>3 DEF Numbers, Wrap

LEMMA Products ==
    ASSUME NEW a \in Nat, NEW b \in Nat
    PROVE  /\ a * b \in Nat /\ a * b = b * a
           /\ \A n \in Nat : a < n => a * b + b <= n * b
           /\ b # 0 => a <= a * b
           /\ a # 0 /\ b # 0 => a * b # 0
<1>1. a * b \in Nat /\ a * b = b * a
  OBVIOUS
<1>2. ASSUME NEW n \in Nat, a < n PROVE a * b + b <= n * b
  <2>1. PICK e \in Nat : n = a + 1 + e
    <3>1. n - a - 1 \in Nat /\ n = a + 1 + (n - a - 1)
      BY <1>2
    <3> QED BY <3>1
  <2>2. n * b = a * b + b + e * b /\ e * b \in Nat
    BY <2>1
  <2> QED BY <1>1, <2>2
<1>3. b # 0 => a <= a * b
  <2> SUFFICES ASSUME b # 0 PROVE a <= a * b
    OBVIOUS
  <2>1. PICK e \in Nat : b = e + 1
    <3>1. b - 1 \in Nat /\ b = (b - 1) + 1
      OBVIOUS
    <3> QED BY <3>1
  <2>2. a * b = a * e + a /\ a * e \in Nat
    BY <2>1
  <2> QED BY <2>2
<1>4. a # 0 /\ b # 0 => a * b # 0
  BY <1>1, <1>3
<1> QED BY <1>1, <1>2, <1>3, <1>4

\* The sector s of cylinder c is within the sectors of n cylinders, and the cylinder
\* is found from it again.
LEMMA Places ==
    ASSUME NEW w \in Nat \ {0}, NEW c \in Nat, NEW s \in Nat, s < w
    PROVE  /\ c * w + s \in Nat
           /\ \A n \in Nat : c < n => c * w + s < n * w
           /\ (c * w + s) \div w = c
           /\ \A d, t \in Nat : t < w /\ d * w + t = c * w + s => d = c /\ t = s
<1>1. c * w + s \in Nat
  BY Products
<1>2. ASSUME NEW n \in Nat, c < n PROVE c * w + s < n * w
  <2>1. c * w + w <= n * w
    BY <1>2, Products
  <2>2. c * w \in Nat /\ n * w \in Nat
    BY Products
  <2> QED BY <2>1, <2>2
<1>3. ASSUME NEW d \in Nat, NEW t \in Nat, t < w, d * w + t = c * w + s PROVE d = c /\ t = s
  <2>1. c * w \in Nat /\ d * w \in Nat
    BY Products
  <2>2. ~(d < c)
    <3> SUFFICES ASSUME d < c PROVE FALSE
      OBVIOUS
    <3>1. d * w + w <= c * w
      BY Products
    <3> QED BY <1>3, <2>1, <3>1
  <2>3. ~(c < d)
    <3> SUFFICES ASSUME c < d PROVE FALSE
      OBVIOUS
    <3>1. c * w + w <= d * w
      BY Products
    <3> QED BY <1>3, <2>1, <3>1
  <2> QED BY <1>3, <2>1, <2>2, <2>3
<1>4. (c * w + s) \div w = c
  <2>1. PICK p : p = c * w + s
    OBVIOUS
  <2>2. p \in Nat
    BY <1>1, <2>1
  <2>3. p \div w \in Nat /\ p % w \in 0 .. w - 1 /\ p = w * (p \div w) + (p % w)
    BY <2>2
  <2>4. PICK d : d = p \div w
    OBVIOUS
  <2>5. PICK t : t = p % w
    OBVIOUS
  <2>6. d \in Nat /\ t \in Nat /\ t < w /\ p = w * d + t
    BY <2>3, <2>4, <2>5
  <2>7. w * d = d * w
    BY <2>6, Products
  <2> QED BY <1>3, <2>1, <2>4, <2>6, <2>7
<1> QED BY <1>1, <1>2, <1>3, <1>4

\* What division leaves is not more than there was.
LEMMA Divided ==
    ASSUME NEW n \in Nat, NEW a \in Nat \ {0}, NEW b \in Nat \ {0}
    PROVE  (n \div a) \div b \in Nat /\ ((n \div a) \div b) * b * a <= n
<1>1. PICK p : p = n \div a
  OBVIOUS
<1>2. p \in Nat /\ n % a \in Nat /\ n = a * p + (n % a)
  BY <1>1
<1>3. PICK q : q = p \div b
  OBVIOUS
<1>4. q \in Nat /\ p % b \in Nat /\ p = b * q + (p % b)
  BY <1>2, <1>3
<1>5. q * b \in Nat /\ q * b <= p
  BY <1>4, Products
<1>6. q * b * a <= p * a
  <2>1. CASE q * b = p
    BY <1>2, <2>1, Products
  <2>2. CASE q * b < p
    <3>1. PICK r : r = q * b
      OBVIOUS
    <3>2. r \in Nat /\ r * a + a <= p * a
      BY <1>2, <1>5, <2>2, <3>1, Products
    <3>3. r * a \in Nat /\ p * a \in Nat
      BY <1>2, <3>2, Products
    <3> QED BY <3>1, <3>2, <3>3
  <2> QED BY <1>2, <1>5, <2>1, <2>2
<1>7. p * a <= n
  BY <1>2, Products
<1>8. q * b * a \in Nat /\ p * a \in Nat
  BY <1>2, <1>5, Products
<1>9. (n \div a) \div b = q
  BY <1>1, <1>3
<1>10. PICK x : x = q * b * a
  OBVIOUS
<1>11. PICK y : y = p * a
  OBVIOUS
<1>12. x <= n
  BY <1>6, <1>7, <1>8, <1>10, <1>11
<1> QED BY <1>4, <1>9, <1>10, <1>12

-----------------------------------------------------------------------------
(* The geometry and the addresses *)

\* What a geometry that the constructor lets pass comes to
Fits(g) ==
    /\ g.cylinders \in Nat \ {0} /\ g.sectors \in Nat \ {0} /\ g.bytes \in Nat \ {0}
    /\ Size(g) = g.cylinders * g.sectors * g.bytes
    /\ Size(g) \in Nat \ {0} /\ Size(g) < 2 ^ Width
    /\ 2 ^ PowerOf2(g.sectors) = g.sectors

LEMMA PowerOf2Is ==
    ASSUME NEW n, PowerOf2(n) # -1
    PROVE  PowerOf2(n) \in Nat /\ n = 2 ^ PowerOf2(n)
<1>1. \E k \in 0 .. Width - 1 : n = 2 ^ k
  BY DEF PowerOf2
<1>2. PowerOf2(n) = CHOOSE k \in 0 .. Width - 1 : n = 2 ^ k
  BY <1>1 DEF PowerOf2
<1>3. PowerOf2(n) \in 0 .. Width - 1 /\ n = 2 ^ PowerOf2(n)
  BY <1>1, <1>2
<1> QED BY <1>3, WidthAssumption

\* The three numbers of a drive that was launched make its size without wrapping around.
LEMMA AcceptedFits ==
    ASSUME NEW g \in Geometries, Accepts(g), Size(g) <= FileLimit
    PROVE  Fits(g)
<1>1. PICK c \in Nat, s \in Nat, b \in Nat : c = g.cylinders /\ s = g.sectors /\ b = g.bytes
  BY WrapIs DEF Geometries
<1>2. c # 0 /\ s # 0 /\ PowerOf2(b) # -1 /\ PowerOf2(s) # -1 /\ (Size(g) \div b) \div s = c
  BY <1>1 DEF Accepts
<1>3. b # 0 /\ 2 ^ PowerOf2(s) = s
  BY <1>2, PowerOf2Is, PowerIs
<1>4. PICK n : n = Size(g)
  OBVIOUS
<1>5. n = Wrap(Wrap(b * s) * c)
  BY <1>1, <1>4 DEF Size
<1>6. PICK u : u = Wrap(b * s)
  OBVIOUS
<1>7. b * s \in Nat /\ u \in Nat /\ u <= b * s
  BY <1>6, Products, WrapIs
<1>8. u * c \in Nat /\ n \in Nat /\ n <= u * c
  BY <1>5, <1>6, <1>7, Products, WrapIs
<1>9. c * s * b <= n /\ c * s \in Nat
  BY <1>2, <1>3, <1>4, <1>8, Divided, Products
<1>10. PICK x : x = c * s * b
  OBVIOUS
<1>11. x \in Nat /\ x # 0 /\ x = (b * s) * c
  <2>1. c * s \in Nat /\ c * s # 0
    BY <1>2, Products
  <2> QED BY <1>2, <1>3, <1>10, <2>1, Products
<1>12. u * c <= x
  <2>1. CASE u = b * s
    BY <1>8, <1>11, <2>1
  <2>2. CASE u < b * s
    <3>1. u * c + c <= (b * s) * c
      BY <1>7, <2>2, Products
    <3> QED BY <1>8, <1>11, <3>1
  <2> QED BY <1>7, <2>1, <2>2
<1>13. n = x
  BY <1>8, <1>9, <1>10, <1>11, <1>12
<1>14. n < 2 ^ Width
  BY <1>4, <1>8, LimitAssumption, PowerIs, WidthAssumption
<1> QED BY <1>1, <1>2, <1>3, <1>4, <1>8, <1>10, <1>11, <1>13, <1>14 DEF Fits

\* Where the drive looks for sector s of cylinder c
Start(c, s) == (c * geom.sectors + s) * geom.bytes

LEMMA Starts ==
    ASSUME Fits(geom), NEW k \in Cells(geom)
    PROVE  /\ k = <<k[1], k[2]>> /\ k[1] \in Nat /\ k[2] \in Nat
           /\ k[1] * geom.sectors + k[2] \in Nat
           /\ Start(k[1], k[2]) \in Nat
           /\ Start(k[1], k[2]) + geom.bytes <= Size(geom)
           /\ \A l \in Cells(geom) : k # l =>
                 \/ Start(k[1], k[2]) + geom.bytes <= Start(l[1], l[2])
                 \/ Start(l[1], l[2]) + geom.bytes <= Start(k[1], k[2])
<1>1. PICK n \in Nat \ {0}, w \in Nat \ {0}, b \in Nat \ {0} :
          n = geom.cylinders /\ w = geom.sectors /\ b = geom.bytes
  BY DEF Fits
<1>2. \A l \in Cells(geom) : l = <<l[1], l[2]>> /\ l[1] \in 0 .. n - 1 /\ l[2] \in 0 .. w - 1
  BY <1>1 DEF Cells
<1>3. \A l \in Cells(geom) : /\ l[1] * w + l[2] \in Nat /\ l[1] * w + l[2] < n * w
                             /\ (l[1] * w + l[2]) * b \in Nat
  <2> SUFFICES ASSUME NEW l \in Cells(geom)
               PROVE  l[1] * w + l[2] \in Nat /\ l[1] * w + l[2] < n * w /\ (l[1] * w + l[2]) * b \in Nat
    OBVIOUS
  <2>1. l[1] \in Nat /\ l[2] \in Nat /\ l[1] < n /\ l[2] < w
    BY <1>2
  <2>2. l[1] * w + l[2] \in Nat /\ l[1] * w + l[2] < n * w
    <3>1. PICK c \in Nat : c = l[1] /\ c < n
      BY <2>1
    <3>2. PICK s \in Nat : s = l[2] /\ s < w
      BY <2>1
    <3>3. c * w + s \in Nat /\ c * w + s < n * w
      BY <3>1, <3>2, Places
    <3> QED BY <3>1, <3>2, <3>3
  <2> QED BY <2>2, Products
<1>4. (k[1] * w + k[2]) * b + b <= (n * w) * b /\ n * w \in Nat
  BY <1>3, Products
<1>5. ASSUME NEW l \in Cells(geom), k # l
      PROVE  \/ (k[1] * w + k[2]) * b + b <= (l[1] * w + l[2]) * b
             \/ (l[1] * w + l[2]) * b + b <= (k[1] * w + k[2]) * b
  <2>1. k[1] * w + k[2] # l[1] * w + l[2]
    <3>1. k[1] # l[1] \/ k[2] # l[2]
      BY <1>2, <1>5
    <3>2. k[1] \in Nat /\ k[2] \in Nat /\ k[2] < w /\ l[1] \in Nat /\ l[2] \in Nat /\ l[2] < w
      BY <1>2
    <3>3. \A d, t \in Nat : t < w /\ d * w + t = l[1] * w + l[2] => d = l[1] /\ t = l[2]
      <4>1. PICK c \in Nat : c = l[1]
        BY <3>2
      <4>2. PICK s \in Nat : s = l[2] /\ s < w
        BY <3>2
      <4>3. \A d, t \in Nat : t < w /\ d * w + t = c * w + s => d = c /\ t = s
        BY <4>2, Places
      <4> QED BY <4>1, <4>2, <4>3
    <3> QED BY <3>1, <3>2, <3>3
  <2>2. PICK x \in Nat : x = k[1] * w + k[2]
    BY <1>3
  <2>3. PICK y \in Nat : y = l[1] * w + l[2]
    BY <1>3
  <2>4. x * b + b <= y * b \/ y * b + b <= x * b
    <3>1. CASE x < y
      BY <3>1, Products
    <3>2. CASE y < x
      BY <3>2, Products
    <3> QED BY <2>1, <2>2, <2>3, <3>1, <3>2
  <2> QED BY <2>2, <2>3, <2>4
<1>6. \A l \in Cells(geom) : Start(l[1], l[2]) = (l[1] * w + l[2]) * b
  BY <1>1 DEF Start
<1>7. Size(geom) = (n * w) * b
  BY <1>1 DEF Fits
<1> QED BY <1>1, <1>2, <1>3, <1>4, <1>5, <1>6, <1>7

\* What the shell sends is the sector's number, the drive finds its bytes and its
\* cylinder, and nothing on the way wraps around.
LEMMA AddressIs ==
    ASSUME Fits(geom), desc = geom, NEW c \in Numbers, NEW s \in Numbers, Valid(c, s)
    PROVE  /\ <<c, s>> \in Cells(geom)
           /\ Offset(Addr(c, s)) = Start(c, s)
           /\ CylinderNo(Addr(c, s)) = c
<1>1. PICK n \in Nat \ {0}, w \in Nat \ {0}, b \in Nat \ {0} :
          n = geom.cylinders /\ w = geom.sectors /\ b = geom.bytes
  BY DEF Fits
<1>2. c \in Nat /\ s \in Nat /\ c < n /\ s < w
  BY <1>1, WrapIs DEF Valid
<1>3. PICK k : k = <<c, s>>
  OBVIOUS
<1>4. k \in Cells(geom) /\ k[1] = c /\ k[2] = s
  BY <1>1, <1>2, <1>3 DEF Cells
<1>5. PICK x : x = c * w + s
  OBVIOUS
<1>6. x \in Nat /\ x \div w = c
  BY <1>2, <1>5, Places
<1>7. PICK y : y = x * b
  OBVIOUS
<1>8. Start(c, s) = y
  BY <1>1, <1>5, <1>7 DEF Start
<1>9. y \in Nat /\ y + b <= Size(geom)
  BY <1>1, <1>4, <1>8, Starts
<1>10. x <= y /\ y < 2 ^ Width /\ x < 2 ^ Width
  <2>1. x <= y
    BY <1>6, <1>7, Products
  <2>2. 2 ^ Width \in Nat /\ Size(geom) \in Nat /\ Size(geom) < 2 ^ Width
    BY PowerIs, WidthAssumption DEF Fits
  <2> QED BY <1>6, <1>9, <2>1, <2>2
<1>11. Addr(c, s) = x
  <2>1. Addr(c, s) = Wrap(x)
    BY <1>1, <1>5 DEF Addr
  <2> QED BY <1>6, <1>10, <2>1, WrapIs
<1>12. Offset(Addr(c, s)) = y
  <2>1. Offset(Addr(c, s)) = Wrap(y)
    BY <1>1, <1>7, <1>11 DEF Offset
  <2> QED BY <1>9, <1>10, <2>1, WrapIs
<1>13. CylinderNo(Addr(c, s)) = c
  <2>1. 2 ^ PowerOf2(geom.sectors) = w
    BY <1>1 DEF Fits
  <2> QED BY <1>6, <1>11, <2>1 DEF CylinderNo
<1> QED BY <1>3, <1>4, <1>8, <1>12, <1>13

-----------------------------------------------------------------------------
(* The bytes *)

Bytes == {0} \cup Letters

LEMMA OverwrittenIs ==
    ASSUME NEW f \in Seq(Bytes), NEW o \in Int, NEW d \in Seq(Bytes)
    PROVE  /\ Overwritten(f, o, d) \in Seq(Bytes) /\ Len(Overwritten(f, o, d)) = Len(f)
           /\ \A i \in 1 .. Len(f) :
                 Overwritten(f, o, d)[i] = IF i - o \in 1 .. Len(d) THEN d[i - o] ELSE f[i]
<1>1. /\ DOMAIN f = 1 .. Len(f) /\ Len(f) \in Nat /\ \A i \in 1 .. Len(f) : f[i] \in Bytes
      /\ DOMAIN d = 1 .. Len(d) /\ Len(d) \in Nat /\ \A i \in 1 .. Len(d) : d[i] \in Bytes
  BY LenProperties, ElementOfSeq
<1>2. Overwritten(f, o, d) = [i \in 1 .. Len(f) |-> IF i - o \in 1 .. Len(d) THEN d[i - o] ELSE f[i]]
  BY <1>1 DEF Overwritten
<1> QED BY <1>1, <1>2

LEMMA PartIs ==
    ASSUME NEW f \in Seq(Bytes), NEW o \in Nat, NEW n \in Nat, o + n <= Len(f)
    PROVE  /\ SubSeq(f, o + 1, o + n) \in Seq(Bytes) /\ Len(SubSeq(f, o + 1, o + n)) = n
           /\ SubSeq(f, o + 1, o + n) = [i \in 1 .. n |-> f[o + i]]
<1>1. Len(f) \in Nat /\ \A i \in 1 .. Len(f) : f[i] \in Bytes
  BY LenProperties, ElementOfSeq
<1>2. PICK a \in Int : a = o + 1
  OBVIOUS
<1>3. PICK z \in Int : z = o + n
  OBVIOUS
<1>4. \A i \in a .. z : f[i] \in Bytes
  BY <1>1, <1>2, <1>3
<1>5. /\ SubSeq(f, a, z) \in Seq(Bytes)
      /\ Len(SubSeq(f, a, z)) = (IF a <= z THEN z - a + 1 ELSE 0)
      /\ \A i \in 1 .. z - a + 1 : SubSeq(f, a, z)[i] = f[a + i - 1]
  BY <1>4, SubSeqProperties
<1>6. Len(SubSeq(f, a, z)) = n /\ z - a + 1 = n /\ \A i \in 1 .. n : a + i - 1 = o + i
  BY <1>2, <1>3, <1>5
<1>7. DOMAIN SubSeq(f, a, z) = 1 .. n
  BY <1>5, <1>6, LenProperties
<1>8. SubSeq(f, a, z) = [i \in 1 .. n |-> f[o + i]]
  BY <1>5, <1>6, <1>7
<1> QED BY <1>2, <1>3, <1>5, <1>6, <1>8

\* A sector in the bytes of the file
LEMMA CellIs ==
    ASSUME Fits(geom), file \in Seq(Bytes), Size(geom) <= Len(file), NEW k \in Cells(geom)
    PROVE  /\ Cell(file, geom, k[1], k[2]) \in Seq(Bytes)
           /\ Len(Cell(file, geom, k[1], k[2])) = geom.bytes
           /\ Cell(file, geom, k[1], k[2]) = SubSeq(file, Start(k[1], k[2]) + 1, Start(k[1], k[2]) + geom.bytes)
           /\ Cell(file, geom, k[1], k[2]) = [i \in 1 .. geom.bytes |-> file[Start(k[1], k[2]) + i]]
<1>1. Start(k[1], k[2]) \in Nat /\ Start(k[1], k[2]) + geom.bytes <= Size(geom)
  BY Starts
<1>2. geom.bytes \in Nat /\ Size(geom) \in Nat /\ Len(file) \in Nat
  BY LenProperties DEF Fits
<1>3. Cell(file, geom, k[1], k[2]) = [i \in 1 .. geom.bytes |-> file[Start(k[1], k[2]) + i]]
  BY DEF Cell, Start
<1>4. Start(k[1], k[2]) + geom.bytes <= Len(file)
  BY <1>1, <1>2
<1>5. PICK o \in Nat : o = Start(k[1], k[2])
  BY <1>1
<1>6. PICK b \in Nat : b = geom.bytes
  BY <1>2
<1>7. /\ SubSeq(file, o + 1, o + b) \in Seq(Bytes) /\ Len(SubSeq(file, o + 1, o + b)) = b
      /\ SubSeq(file, o + 1, o + b) = [i \in 1 .. b |-> file[o + i]]
  BY <1>4, <1>5, <1>6, PartIs
<1> QED BY <1>3, <1>5, <1>6, <1>7

\* What "W" sends is what was typed, cut or filled up with zeros.
LEMMA FilledIs ==
    ASSUME NEW data \in Typed, desc = geom, geom.bytes \in Nat \ {0}
    PROVE  /\ Filled(data) \in Seq(Bytes) /\ Len(Filled(data)) = geom.bytes + 1
           /\ SubSeq(Filled(data), 1, geom.bytes) = Padded(geom, data)
           /\ Padded(geom, data) \in Seq(Bytes) /\ Len(Padded(geom, data)) = geom.bytes
<1>1. PICK n \in Nat : data \in [1 .. n -> Letters]
  BY TypedAssumption DEF Typed
<1>2. data \in Seq(Bytes) /\ Len(data) = n
  BY <1>1 DEF Bytes
<1>3. PICK b \in Nat \ {0} : b = geom.bytes
  OBVIOUS
<1>4. PICK m \in Nat : m = (IF n < b THEN n ELSE b)
  OBVIOUS
<1>5. PICK d : d = SubSeq(data, 1, m)
  OBVIOUS
<1>6. d \in Seq(Bytes) /\ Len(d) = m /\ \A i \in 1 .. m : d[i] = data[i]
  <2>1. SubSeq(data, 0 + 1, 0 + m) \in Seq(Bytes) /\ Len(SubSeq(data, 0 + 1, 0 + m)) = m
        /\ SubSeq(data, 0 + 1, 0 + m) = [i \in 1 .. m |-> data[0 + i]]
    BY <1>2, <1>4, PartIs
  <2>2. 0 + 1 = 1 /\ 0 + m = m
    OBVIOUS
  <2>3. \A i \in 1 .. m : 0 + i = i
    OBVIOUS
  <2> QED BY <1>5, <2>1, <2>2, <2>3
<1>7. Zeros(b + 1) \in Seq(Bytes) /\ Len(Zeros(b + 1)) = b + 1 /\ \A i \in 1 .. b + 1 : Zeros(b + 1)[i] = 0
  BY DEF Zeros, Bytes
<1>8. Filled(data) = Overwritten(Zeros(b + 1), 0, d)
  BY <1>2, <1>3, <1>4, <1>5 DEF Filled
<1>9. /\ Filled(data) \in Seq(Bytes) /\ Len(Filled(data)) = b + 1
      /\ \A i \in 1 .. b + 1 : Filled(data)[i] = IF i - 0 \in 1 .. m THEN d[i - 0] ELSE Zeros(b + 1)[i]
  BY <1>6, <1>7, <1>8, OverwrittenIs
<1>10. \A i \in 1 .. b : Filled(data)[i] = IF i <= n THEN data[i] ELSE 0
  BY <1>4, <1>6, <1>7, <1>9
<1>11. SubSeq(Filled(data), 1, b) = [i \in 1 .. b |-> Filled(data)[i]]
  <2>1. SubSeq(Filled(data), 0 + 1, 0 + b) = [i \in 1 .. b |-> Filled(data)[0 + i]]
    BY <1>9, PartIs
  <2>2. 0 + 1 = 1 /\ 0 + b = b
    OBVIOUS
  <2>3. \A i \in 1 .. b : 0 + i = i
    OBVIOUS
  <2> QED BY <2>1, <2>2, <2>3
<1>12. Padded(geom, data) = [i \in 1 .. b |-> IF i <= n THEN data[i] ELSE 0]
  BY <1>2, <1>3 DEF Padded
<1>13. Padded(geom, data) \in Seq(Bytes) /\ Len(Padded(geom, data)) = b
  BY <1>1, <1>12 DEF Bytes
<1>14. SubSeq(Filled(data), 1, b) = Padded(geom, data)
  BY <1>10, <1>11, <1>12
<1> QED BY <1>3, <1>9, <1>13, <1>14

-----------------------------------------------------------------------------
(* The steps *)

\* What a state of the invariant gives to those who use it
LEMMA Facts ==
    ASSUME RawInv
    PROVE  /\ file \in Seq(Bytes) /\ buf \in Seq(Bytes)
           /\ drive = "up" => /\ Fits(geom) /\ Size(geom) <= Len(file)
                              /\ told = [k \in Cells(geom) |-> Cell(file, geom, k[1], k[2])]
           /\ shell = "ready" => drive = "up" /\ desc = geom /\ Len(buf) = geom.bytes + 1
<1>1. file \in Seq(Bytes) /\ buf \in Seq(Bytes) /\ geom \in Geometries
      /\ (shell = "ready" => drive = "up" /\ desc = geom /\ Len(buf) = geom.bytes + 1)
  BY DEF RawInv, TypeOK, Bytes
<1>2. ASSUME drive = "up"
      PROVE  /\ Fits(geom) /\ Size(geom) <= Len(file)
             /\ told = [k \in Cells(geom) |-> Cell(file, geom, k[1], k[2])]
  <2>1. Fits(geom)
    BY <1>1, <1>2, AcceptedFits DEF RawInv, AccessOK
  <2>2. geom.cylinders * geom.sectors * geom.bytes \in 1 .. Len(file)
    BY <1>2 DEF RawInv, TypeOK
  <2>3. Size(geom) <= Len(file)
    BY <2>1, <2>2 DEF Fits
  <2>4. told = Contents(file, geom)
    BY <1>2 DEF RawInv, ReadsBack
  <2> QED BY <2>1, <2>3, <2>4 DEF Contents
<1> QED BY <1>1, <1>2

LEMMA InitStep == Init => RawInv
<1> SUFFICES ASSUME Init PROVE RawInv
  OBVIOUS
<1>1. NoGeometry \in Geometries /\ 0 \in Numbers
  BY WrapIs DEF NoGeometry, Geometries
<1>2. << >> \in Seq({0} \cup Letters)
  OBVIOUS
<1>3. TypeOK
  BY <1>1, <1>2 DEF Init, TypeOK
<1>4. at = NoAccess /\ at[1] = "none" /\ drive = "off"
  BY DEF Init, NoAccess
<1> QED BY <1>3, <1>4 DEF RawInv, AccessOK, ReadsBack, HeadAtCylinder

LEMMA LaunchStep ==
    ASSUME RawInv, Launch \/ LaunchFails
    PROVE  RawInv'
<1>1. PICK g \in Geometries : /\ Accepts(g) /\ Size(g) <= FileLimit
                              /\ geom' = g
                              /\ file' = Mapped(file, Size(g))
                              /\ told' = Contents(file', g)
  BY DEF Launch, LaunchFails, Opened
<1>2. drive = "off" /\ drive' \in {"off", "up"} /\ head' = 0 /\ UNCHANGED <<shell, desc, buf, at>>
  BY DEF Launch, LaunchFails, Opened
<1>3. Fits(g)
  BY <1>1, AcceptedFits
<1>4. PICK n \in Nat \ {0} : n = Size(g)
  BY <1>3 DEF Fits
<1>5. file \in Seq(Bytes) /\ Len(file) \in Nat /\ \A i \in 1 .. Len(file) : file[i] \in Bytes
  BY Facts, LenProperties, ElementOfSeq
<1>6. PICK m \in Nat : m = (IF n > Len(file) THEN n ELSE Len(file))
  BY <1>5
<1>7. file' = [i \in 1 .. m |-> IF i = n \/ i > Len(file) THEN 0 ELSE file[i]]
  BY <1>1, <1>4, <1>6 DEF Mapped
<1>8. file' \in Seq(Bytes) /\ Len(file') = m
  BY <1>5, <1>7 DEF Bytes
<1>9. geom'.cylinders * geom'.sectors * geom'.bytes \in 1 .. Len(file')
  BY <1>1, <1>3, <1>4, <1>5, <1>6, <1>8 DEF Fits
<1>10. DOMAIN told' = Cells(geom')
  BY <1>1 DEF Contents
<1>11. shell = "off" /\ at = NoAccess
  BY <1>2 DEF RawInv, TypeOK, AccessOK
<1>12. TypeOK'
  BY <1>1, <1>2, <1>8, <1>9, <1>10, <1>11, WrapIs DEF RawInv, TypeOK, Bytes
<1>13. AccessOK'
  BY <1>1, <1>2, <1>11 DEF AccessOK
<1>14. ReadsBack' /\ HeadAtCylinder'
  BY <1>1, <1>2, <1>11 DEF ReadsBack, HeadAtCylinder, NoAccess, Contents
<1> QED BY <1>12, <1>13, <1>14 DEF RawInv

LEMMA ConnectStep ==
    ASSUME RawInv, Connect
    PROVE  RawInv'
<1>1. /\ drive = "up" /\ shell = "off" /\ shell' = "ready" /\ desc' = geom
      /\ buf' = Zeros(geom.bytes + 1) /\ UNCHANGED <<drive, geom, file, head, at, told>>
  BY DEF Connect
<1>2. geom.bytes \in Nat \ {0}
  BY <1>1, Facts DEF Fits
<1>3. buf' \in Seq(Bytes) /\ Len(buf') = geom.bytes + 1
  BY <1>1, <1>2 DEF Zeros, Bytes
<1>4. at = NoAccess
  BY <1>1 DEF RawInv, AccessOK
<1>5. TypeOK'
  BY <1>1, <1>3 DEF RawInv, TypeOK, Bytes
<1>6. AccessOK'
  BY <1>1, <1>4 DEF RawInv, AccessOK
<1>7. ReadsBack' /\ HeadAtCylinder'
  BY <1>1, <1>4 DEF RawInv, ReadsBack, HeadAtCylinder, NoAccess, Contents, Cell, Cells
<1> QED BY <1>5, <1>6, <1>7 DEF RawInv

\* The shell is over, with the drive or without it.
LEMMA LeaveStep ==
    ASSUME RawInv, Leave, drive' \in {"off", "up"}, drive' = "up" => drive = "up",
           head' \in {0, head}, UNCHANGED <<geom, file, told>>
    PROVE  RawInv'
<1>1. shell' = "off" /\ desc' = NoGeometry /\ buf' = << >> /\ at' = NoAccess
  BY DEF Leave
<1>2. buf' \in Seq({0} \cup Letters)
  BY <1>1
<1>3. TypeOK'
  BY <1>1, <1>2, WrapIs DEF RawInv, TypeOK
<1>4. AccessOK'
  BY <1>1 DEF RawInv, AccessOK
<1>5. ReadsBack' /\ HeadAtCylinder'
  BY <1>1 DEF RawInv, ReadsBack, HeadAtCylinder, NoAccess, Contents, Cell, Cells
<1> QED BY <1>3, <1>4, <1>5 DEF RawInv

LEMMA RStep ==
    ASSUME RawInv, NEW c \in Numbers, NEW s \in Numbers, R(c, s)
    PROVE  RawInv'
<1>1. /\ shell = "ready" /\ Valid(c, s) /\ head' = CylinderNo(Addr(c, s)) /\ at' = <<"R", c, s>>
      /\ buf' = Overwritten(buf, 0, SubSeq(file, Offset(Addr(c, s)) + 1, Offset(Addr(c, s)) + geom.bytes))
      /\ UNCHANGED <<drive, geom, file, shell, desc, told>>
  BY DEF R
<1>2. /\ drive = "up" /\ desc = geom /\ Fits(geom) /\ Size(geom) <= Len(file) /\ Len(buf) = geom.bytes + 1
      /\ file \in Seq(Bytes) /\ buf \in Seq(Bytes)
      /\ told = [k \in Cells(geom) |-> Cell(file, geom, k[1], k[2])]
  BY <1>1, Facts
<1>3. PICK k : k = <<c, s>>
  OBVIOUS
<1>4. k \in Cells(geom) /\ Offset(Addr(c, s)) = Start(c, s) /\ head' = c /\ k[1] = c /\ k[2] = s
  BY <1>1, <1>2, <1>3, AddressIs
<1>5. PICK d : d = Cell(file, geom, c, s)
  OBVIOUS
<1>6. /\ d \in Seq(Bytes) /\ Len(d) = geom.bytes
      /\ d = SubSeq(file, Start(c, s) + 1, Start(c, s) + geom.bytes)
  BY <1>2, <1>4, <1>5, CellIs
<1>7. buf' = Overwritten(buf, 0, d)
  BY <1>1, <1>4, <1>6
<1>8. PICK b \in Nat \ {0} : b = geom.bytes
  BY <1>2 DEF Fits
<1>9. /\ buf' \in Seq(Bytes) /\ Len(buf') = b + 1
      /\ \A i \in 1 .. b + 1 : buf'[i] = IF i - 0 \in 1 .. b THEN d[i - 0] ELSE buf[i]
  <2>1. /\ Overwritten(buf, 0, d) \in Seq(Bytes) /\ Len(Overwritten(buf, 0, d)) = Len(buf)
        /\ \A i \in 1 .. Len(buf) :
              Overwritten(buf, 0, d)[i] = IF i - 0 \in 1 .. Len(d) THEN d[i - 0] ELSE buf[i]
    <3>1. PICK o \in Int : o = 0
      OBVIOUS
    <3>2. /\ Overwritten(buf, o, d) \in Seq(Bytes) /\ Len(Overwritten(buf, o, d)) = Len(buf)
          /\ \A i \in 1 .. Len(buf) :
                Overwritten(buf, o, d)[i] = IF i - o \in 1 .. Len(d) THEN d[i - o] ELSE buf[i]
      <4>1. buf \in Seq(Bytes) /\ d \in Seq(Bytes)
        BY <1>2, <1>6
      <4> QED BY <4>1, OverwrittenIs
    <3> QED BY <3>1, <3>2
  <2>2. Len(buf) = b + 1 /\ Len(d) = b
    BY <1>2, <1>6, <1>8
  <2> QED BY <1>7, <2>1, <2>2
<1>10. SubSeq(buf', 1, b) = d
  <2>1. PICK f : f = buf'
    OBVIOUS
  <2>2. f \in Seq(Bytes) /\ 0 + b <= Len(f) /\ \A i \in 1 .. b : f[i] = d[i]
    BY <1>9, <2>1
  <2>3. /\ SubSeq(f, 0 + 1, 0 + b) \in Seq(Bytes) /\ Len(SubSeq(f, 0 + 1, 0 + b)) = b
        /\ SubSeq(f, 0 + 1, 0 + b) = [i \in 1 .. b |-> f[0 + i]]
    BY <2>2, PartIs
  <2>4. 0 + 1 = 1 /\ 0 + b = b
    OBVIOUS
  <2>5. \A i \in 1 .. b : 0 + i = i
    OBVIOUS
  <2>6. SubSeq(f, 1, b) \in Seq(Bytes) /\ Len(SubSeq(f, 1, b)) = b /\ \A i \in 1 .. b : SubSeq(f, 1, b)[i] = d[i]
    BY <2>2, <2>3, <2>4, <2>5
  <2>7. SubSeq(f, 1, b) = d
    BY <1>6, <1>8, <2>6, SeqEqual
  <2> QED BY <2>1, <2>7
<1>11. at'[1] = "R" /\ at'[2] = c /\ at'[3] = s /\ at' # NoAccess
  BY <1>1 DEF NoAccess
<1>12. told[<<c, s>>] = d
  BY <1>2, <1>3, <1>4, <1>5
<1>13. TypeOK'
  BY <1>1, <1>2, <1>4, <1>8, <1>9 DEF RawInv, TypeOK, Bytes
<1>14. AccessOK'
  <2>1. \E m \in {"R", "W"}, l \in Cells(geom) : at' = <<m, l[1], l[2]>>
    BY <1>1, <1>4
  <2> QED BY <1>1, <2>1 DEF RawInv, AccessOK
<1>15. ReadsBack'
  <2>1. (drive = "up" => Contents(file, geom) = told)'
    BY <1>1 DEF RawInv, ReadsBack, Contents, Cell, Cells
  <2>2. SubSeq(buf', 1, desc'.bytes) = told'[<<at'[2], at'[3]>>]
    BY <1>1, <1>2, <1>8, <1>10, <1>11, <1>12
  <2> QED BY <2>1, <2>2 DEF ReadsBack
<1>16. HeadAtCylinder'
  BY <1>4, <1>11 DEF HeadAtCylinder
<1> QED BY <1>13, <1>14, <1>15, <1>16 DEF RawInv

\* A write changes the bytes of its own sector and of no other.
LEMMA WriteIs ==
    ASSUME Fits(geom), file \in Seq(Bytes), Size(geom) <= Len(file), NEW k \in Cells(geom),
           NEW d \in Seq(Bytes), Len(d) = geom.bytes, NEW l \in Cells(geom)
    PROVE  LET new == Overwritten(file, Start(k[1], k[2]), d)
           IN  /\ new \in Seq(Bytes) /\ Len(new) = Len(file)
               /\ Cell(new, geom, l[1], l[2]) = IF l = k THEN d ELSE Cell(file, geom, l[1], l[2])
<1>1. PICK b \in Nat \ {0} : b = geom.bytes
  BY DEF Fits
<1>2. PICK x \in Nat : x = Start(k[1], k[2])
  BY Starts
<1>3. PICK y \in Nat : y = Start(l[1], l[2])
  BY Starts
<1>4. Len(file) \in Nat /\ Size(geom) \in Nat
  BY LenProperties DEF Fits
<1>5. y + b <= Len(file)
  BY <1>1, <1>3, <1>4, Starts
<1>6. l = k \/ x + b <= y \/ y + b <= x
  BY <1>1, <1>2, <1>3, Starts
<1>7. l = k => x = y
  BY <1>2, <1>3
<1>8. PICK new : new = Overwritten(file, x, d)
  OBVIOUS
<1>9. /\ new \in Seq(Bytes) /\ Len(new) = Len(file)
      /\ \A i \in 1 .. Len(file) : new[i] = IF i - x \in 1 .. b THEN d[i - x] ELSE file[i]
  <2>1. /\ Overwritten(file, x, d) \in Seq(Bytes) /\ Len(Overwritten(file, x, d)) = Len(file)
        /\ \A i \in 1 .. Len(file) :
              Overwritten(file, x, d)[i] = IF i - x \in 1 .. Len(d) THEN d[i - x] ELSE file[i]
    BY <1>2, OverwrittenIs
  <2> QED BY <1>1, <1>8, <2>1
<1>10. Cell(new, geom, l[1], l[2]) = [i \in 1 .. b |-> new[y + i]]
  BY <1>1, <1>3 DEF Cell, Start
<1>11. Cell(file, geom, l[1], l[2]) = [i \in 1 .. b |-> file[y + i]]
  BY <1>1, <1>3 DEF Cell, Start
<1>12. \A i \in 1 .. b : y + i \in 1 .. Len(file)
  BY <1>4, <1>5
<1>13. CASE l = k
  <2>1. \A i \in 1 .. b : new[y + i] = d[i]
    <3> SUFFICES ASSUME NEW i \in 1 .. b PROVE new[y + i] = d[i]
      OBVIOUS
    <3>1. (y + i) - x = i
      BY <1>7, <1>13
    <3> QED BY <1>9, <1>12, <3>1
  <2>2. d = [i \in 1 .. b |-> d[i]]
    BY <1>1, LenProperties
  <2>3. Cell(new, geom, l[1], l[2]) = d
    BY <1>10, <2>1, <2>2
  <2> QED BY <1>2, <1>8, <1>9, <1>13, <2>3
<1>14. CASE l # k
  <2>1. \A i \in 1 .. b : new[y + i] = file[y + i]
    <3> SUFFICES ASSUME NEW i \in 1 .. b PROVE new[y + i] = file[y + i]
      OBVIOUS
    <3>1. (y + i) - x \notin 1 .. b
      BY <1>6, <1>14
    <3> QED BY <1>9, <1>12, <3>1
  <2>2. Cell(new, geom, l[1], l[2]) = Cell(file, geom, l[1], l[2])
    BY <1>10, <1>11, <2>1
  <2> QED BY <1>2, <1>8, <1>9, <1>14, <2>2
<1> QED BY <1>13, <1>14

LEMMA WStep ==
    ASSUME RawInv, NEW c \in Numbers, NEW s \in Numbers, W(c, s)
    PROVE  RawInv'
<1>1. /\ shell = "ready" /\ Valid(c, s) /\ head' = CylinderNo(Addr(c, s)) /\ at' = <<"W", c, s>>
      /\ UNCHANGED <<drive, geom, shell, desc>>
  BY DEF W
<1>2. PICK data \in Typed :
          /\ buf' = Filled(data)
          /\ file' = Overwritten(file, Offset(Addr(c, s)), SubSeq(buf', 1, geom.bytes))
          /\ told' = [told EXCEPT ![<<c, s>>] = Padded(geom, data)]
  BY DEF W
<1>3. /\ drive = "up" /\ desc = geom /\ Fits(geom) /\ Size(geom) <= Len(file) /\ file \in Seq(Bytes)
      /\ told = [k \in Cells(geom) |-> Cell(file, geom, k[1], k[2])]
  BY <1>1, Facts
<1>4. PICK k : k = <<c, s>>
  OBVIOUS
<1>5. k \in Cells(geom) /\ Offset(Addr(c, s)) = Start(c, s) /\ head' = c /\ k[1] = c /\ k[2] = s
  BY <1>1, <1>3, <1>4, AddressIs
<1>6. PICK d : d = Padded(geom, data)
  OBVIOUS
<1>7. geom.bytes \in Nat \ {0}
  BY <1>3 DEF Fits
<1>8. /\ buf' \in Seq(Bytes) /\ Len(buf') = geom.bytes + 1 /\ SubSeq(buf', 1, geom.bytes) = d
      /\ d \in Seq(Bytes) /\ Len(d) = geom.bytes
  BY <1>2, <1>3, <1>6, <1>7, FilledIs
<1>9. file' = Overwritten(file, Start(k[1], k[2]), d)
  BY <1>2, <1>5, <1>8
<1>10. \A l \in Cells(geom) :
          /\ file' \in Seq(Bytes) /\ Len(file') = Len(file)
          /\ Cell(file', geom, l[1], l[2]) = IF l = k THEN d ELSE Cell(file, geom, l[1], l[2])
  BY <1>3, <1>5, <1>8, <1>9, WriteIs
<1>11. file' \in Seq(Bytes) /\ Len(file') = Len(file)
  BY <1>5, <1>10
<1>12. told' = [l \in Cells(geom) |-> IF l = k THEN d ELSE Cell(file, geom, l[1], l[2])]
  BY <1>2, <1>3, <1>4, <1>6
<1>13. Contents(file', geom) = told'
  BY <1>10, <1>12 DEF Contents
<1>14. at'[1] = "W" /\ at'[2] = c /\ at' # NoAccess
  BY <1>1 DEF NoAccess
<1>15. TypeOK'
  BY <1>1, <1>3, <1>5, <1>8, <1>11, <1>12 DEF RawInv, TypeOK, Bytes
<1>16. AccessOK'
  <2>1. \E m \in {"R", "W"}, l \in Cells(geom) : at' = <<m, l[1], l[2]>>
    BY <1>1, <1>5
  <2> QED BY <1>1, <2>1 DEF RawInv, AccessOK
<1>17. ReadsBack'
  BY <1>1, <1>13, <1>14 DEF ReadsBack
<1>18. HeadAtCylinder'
  BY <1>5, <1>14 DEF HeadAtCylinder
<1> QED BY <1>15, <1>16, <1>17, <1>18 DEF RawInv

LEMMA RawStep == RawInv /\ [Next]_vars => RawInv'
<1> SUFFICES ASSUME RawInv, [Next]_vars PROVE RawInv'
  OBVIOUS
<1>1. CASE Launch \/ LaunchFails
  BY <1>1, LaunchStep
<1>2. CASE Connect
  BY <1>2, ConnectStep
<1>3. CASE Killed
  <2>1. Leave /\ drive' \in {"off", "up"} /\ (drive' = "up" => drive = "up") /\ head' \in {0, head}
        /\ UNCHANGED <<geom, file, told>>
    BY <1>3 DEF Killed, RawInv, TypeOK
  <2> QED BY <2>1, LeaveStep
<1>4. CASE E
  <2>1. Leave /\ drive' \in {"off", "up"} /\ (drive' = "up" => drive = "up") /\ head' \in {0, head}
        /\ UNCHANGED <<geom, file, told>>
    BY <1>4 DEF E
  <2> QED BY <2>1, LeaveStep
<1>5. ASSUME NEW c \in Numbers, NEW s \in Numbers, R(c, s) \/ W(c, s) PROVE RawInv'
  BY <1>5, RStep, WStep
<1>6. CASE UNCHANGED vars
  <2>1. TypeOK'
    BY <1>6 DEF RawInv, TypeOK, vars
  <2>2. AccessOK'
    BY <1>6 DEF RawInv, AccessOK, vars
  <2>3. ReadsBack' /\ HeadAtCylinder'
    BY <1>6 DEF RawInv, ReadsBack, HeadAtCylinder, Contents, Cell, Cells, vars
  <2> QED BY <2>1, <2>2, <2>3 DEF RawInv
<1> QED BY <1>1, <1>2, <1>3, <1>4, <1>5, <1>6 DEF Next

-----------------------------------------------------------------------------
(* The specification *)

\* In every state that can be reached the sectors are what was told them, and the last
\* access was to one of them.
THEOREM RawInvariant == Spec => []RawInv
<1>1. Init => RawInv
  BY InitStep
<1>2. RawInv /\ [Next]_vars => RawInv'
  BY RawStep
<1> QED BY <1>1, <1>2, PTL DEF Spec

\* Every variable of the drive and its shell has its type, and the mapping is there to
\* its last byte.
THEOREM RawTypeCorrect == Spec => []TypeOK
<1>1. RawInv => TypeOK
  BY DEF RawInv
<1> QED BY <1>1, RawInvariant, PTL

\* No address that the shell lets pass leads out of the mapping, and no two sectors
\* have a byte in common, whatever the geometry.
THEOREM AddressesStayWithin == Spec => []WithinMapping
<1>1. RawInv => WithinMapping
  <2> SUFFICES ASSUME RawInv, shell = "ready"
               PROVE  LET Asked == {k \in Numbers \X Numbers : Valid(k[1], k[2])}
                          From(k) == Offset(Addr(k[1], k[2]))
                      IN  /\ \A k \in Asked : From(k) + geom.bytes <= Size(geom)
                          /\ \A k, l \in Asked :
                                From(k) < From(l) + geom.bytes /\ From(l) < From(k) + geom.bytes => k = l
    BY DEF WithinMapping
  <2> DEFINE Asked == {k \in Numbers \X Numbers : Valid(k[1], k[2])}
             From(k) == Offset(Addr(k[1], k[2]))
  <2>1. Fits(geom) /\ desc = geom /\ geom.bytes \in Nat \ {0}
    BY Facts DEF Fits
  <2>2. ASSUME NEW k \in Asked PROVE k \in Cells(geom) /\ From(k) = Start(k[1], k[2])
    <3>1. k[1] \in Numbers /\ k[2] \in Numbers /\ Valid(k[1], k[2]) /\ k = <<k[1], k[2]>>
      OBVIOUS
    <3> QED BY <2>1, <3>1, AddressIs
  <2>3. ASSUME NEW k \in Asked PROVE From(k) + geom.bytes <= Size(geom)
    BY <2>1, <2>2, Starts
  <2>4. ASSUME NEW k \in Asked, NEW l \in Asked,
               From(k) < From(l) + geom.bytes, From(l) < From(k) + geom.bytes
        PROVE  k = l
    <3>1. /\ k \in Cells(geom) /\ From(k) = Start(k[1], k[2])
          /\ l \in Cells(geom) /\ From(l) = Start(l[1], l[2])
      BY <2>2
    <3>2. Start(k[1], k[2]) \in Nat /\ Start(l[1], l[2]) \in Nat
      BY <2>1, <3>1, Starts
    <3>3. k # l => \/ Start(k[1], k[2]) + geom.bytes <= Start(l[1], l[2])
                   \/ Start(l[1], l[2]) + geom.bytes <= Start(k[1], k[2])
      BY <2>1, <3>1, Starts
    <3> QED BY <2>1, <2>4, <3>1, <3>2, <3>3
  <2> QED BY <2>3, <2>4
<1> QED BY <1>1, RawInvariant, PTL

\* Every sector reads back as it was last written, whatever went through the buffer in
\* between, and through relaunches with any other geometry.
THEOREM SectorsReadBack == Spec => []ReadsBack
<1>1. RawInv => ReadsBack
  BY DEF RawInv
<1> QED BY <1>1, RawInvariant, PTL

\* The cylinder that the drive moves its head to is the one that was asked for.
THEOREM HeadFollows == Spec => []HeadAtCylinder
<1>1. RawInv => HeadAtCylinder
  BY DEF RawInv
<1> QED BY <1>1, RawInvariant, PTL

\* A drive launched again as it was has lost nothing but, perhaps, the last byte.
THEOREM RelaunchKeepsAllButOne == Spec => KeepsAllButOne
<1>1. ASSUME RawInv, Launch \/ LaunchFails, geom' = geom
      PROVE  \A i \in DOMAIN file : file'[i] = file[i] \/ (i = Size(geom) /\ file'[i] = 0)
  <2>1. PICK g \in Geometries : /\ Accepts(g) /\ Size(g) <= FileLimit
                                /\ geom' = g /\ file' = Mapped(file, Size(g))
    BY <1>1 DEF Launch, LaunchFails, Opened
  <2>2. PICK n \in Nat : n = Size(geom)
    BY <1>1, <2>1, AcceptedFits DEF Fits
  <2>3. Len(file) \in Nat /\ DOMAIN file = 1 .. Len(file)
    BY <1>1, Facts, LenProperties
  <2>4. PICK m \in Nat : m = (IF n > Len(file) THEN n ELSE Len(file))
    BY <2>3
  <2>5. file' = [i \in 1 .. m |-> IF i = n \/ i > Len(file) THEN 0 ELSE file[i]]
    BY <1>1, <2>1, <2>2, <2>4 DEF Mapped
  <2>6. ASSUME NEW i \in 1 .. Len(file) PROVE file'[i] = file[i] \/ (i = n /\ file'[i] = 0)
    <3>1. i \in 1 .. m /\ ~(i > Len(file))
      <4>1. PICK z \in Nat : z = Len(file)
        BY <2>3
      <4>2. z <= m
        BY <2>4, <4>1
      <4> QED BY <4>1, <4>2
    <3> QED BY <2>5, <3>1
  <2> QED BY <2>2, <2>3, <2>6
<1>2. RawInv /\ [Next]_vars =>
          [(Launch \/ LaunchFails) /\ geom' = geom =>
              \A i \in DOMAIN file : file'[i] = file[i] \/ (i = Size(geom) /\ file'[i] = 0)]_vars
  BY <1>1
<1> QED BY <1>2, RawInvariant, PTL DEF Spec, KeepsAllButOne
=============================================================================

------------------------------ MODULE VfsProofs ------------------------------
(***************************************************************************)
(* The devices and the mount points of Vfs, for every number of            *)
(* descriptors, devices and mount points and every size of a buffer or a   *)
(* disk.  The calls on files leave both alone.                             *)
(***************************************************************************)
EXTENDS Vfs, NatFacts, TLAPS

-----------------------------------------------------------------------------
(* Sequences of characters.  new is old with c put in after position p:     *)
(* at the end when p is Len(old).                                           *)
PutIn(old, new, p, c) ==
  /\ Len(new) = Len(old) + 1 /\ p \in 0 .. Len(old)
  /\ \A k \in 1 .. p : new[k] = old[k]
  /\ new[p + 1] = c
  /\ \A k \in p + 1 .. Len(old) : new[k + 1] = old[k]

Char == [tty : Terminals, n : Nat, nl : BOOLEAN]

(* A character of another terminal moves what was printed by at most one.   *)
LEMMA HeardOther ==
  ASSUME NEW old \in Seq(Char), NEW new \in Seq(Char), NEW p, NEW c,
         PutIn(old, new, p, c), NEW n, c.tty # n,
         NEW s \in Seq(Char), Heard(old, n, s)
  PROVE  Heard(new, n, s)
<1>1. PICK f \in [DOMAIN s -> DOMAIN old] :
        /\ \A i \in DOMAIN s : old[f[i]] = s[i]
        /\ \A i, j \in DOMAIN s : i < j => f[i] < f[j]
        /\ {f[i] : i \in DOMAIN s} = {k \in DOMAIN old : old[k].tty = n}
  BY Zenon DEF Heard
<1>2. DOMAIN old = 1 .. Len(old) /\ DOMAIN new = 1 .. Len(old) + 1 /\ Len(old) \in Nat
      /\ DOMAIN s = 1 .. Len(s) /\ Len(s) \in Nat
  BY DEF PutIn
<1>3. p \in 0 .. Len(old)
  BY DEF PutIn
<1> DEFINE At(k) == IF k <= p THEN k ELSE k + 1
<1> DEFINE g == [i \in DOMAIN s |-> At(f[i])]
<1>4. \A k \in 1 .. Len(old) : /\ At(k) \in 1 .. Len(old) + 1 /\ At(k) # p + 1
                              /\ new[At(k)] = old[k]
  BY <1>2, <1>3 DEF PutIn
<1>5. \A k \in 1 .. Len(old) + 1 : k # p + 1 => \E j \in 1 .. Len(old) : At(j) = k
  <2> SUFFICES ASSUME NEW k \in 1 .. Len(old) + 1, k # p + 1
               PROVE  \E j \in 1 .. Len(old) : At(j) = k
    OBVIOUS
  <2>1. CASE k <= p
    BY <2>1, <1>2, <1>3
  <2>2. CASE k > p
    <3>1. k - 1 \in 1 .. Len(old) /\ At(k - 1) = k
      BY <2>2, <1>2, <1>3
    <3> QED BY <3>1
  <2> QED BY <2>1, <2>2, <1>2, <1>3
<1>6. \A j, k \in 1 .. Len(old) : j < k => At(j) < At(k)
  BY <1>2, <1>3
<1>7. new[p + 1] = c
  BY Zenon DEF PutIn
<1> HIDE DEF At
<1>8. g \in [DOMAIN s -> DOMAIN new]
  BY <1>1, <1>2, <1>4
<1>9. \A i \in DOMAIN s : g[i] = At(f[i]) /\ f[i] \in 1 .. Len(old)
  BY <1>1, <1>2
<1> HIDE DEF g
<1>10. \A i \in DOMAIN s : new[g[i]] = s[i]
  BY <1>1, <1>4, <1>9, Zenon
<1>11. \A i, j \in DOMAIN s : i < j => g[i] < g[j]
  BY <1>1, <1>6, <1>9, Zenon
<1>12. {g[i] : i \in DOMAIN s} = {k \in DOMAIN new : new[k].tty = n}
  <2>1. ASSUME NEW i \in DOMAIN s PROVE g[i] \in DOMAIN new /\ new[g[i]].tty = n
    <3>1. f[i] \in {k \in DOMAIN old : old[k].tty = n}
      BY <1>1, Zenon
    <3>2. g[i] \in DOMAIN new /\ new[g[i]] = old[f[i]]
      BY <1>2, <1>4, <1>9, Zenon
    <3> QED BY <3>1, <3>2, Zenon
  <2>2. ASSUME NEW k \in DOMAIN new, new[k].tty = n PROVE \E i \in DOMAIN s : g[i] = k
    <3>1. k # p + 1
      BY <1>7, <2>2, Zenon
    <3>2. PICK j \in 1 .. Len(old) : At(j) = k
      BY <1>2, <1>5, <3>1, Zenon
    <3>3. old[j] = new[k]
      BY <1>4, <3>2, Zenon
    <3>4. j \in {l \in DOMAIN old : old[l].tty = n}
      BY <1>2, <2>2, <3>3, Zenon
    <3>5. PICK i \in DOMAIN s : f[i] = j
      BY <1>1, <3>4, Zenon
    <3> QED BY <1>9, <3>2, <3>5, Zenon
  <2> QED BY <2>1, <2>2
<1> QED BY <1>8, <1>10, <1>11, <1>12, Zenon DEF Heard

(* A character put in after all of its own terminal is heard last.          *)
LEMMA HeardOwn ==
  ASSUME NEW old \in Seq(Char), NEW new \in Seq(Char), NEW p, NEW c \in Char,
         PutIn(old, new, p, c), NEW n, c.tty = n,
         \A k \in p + 1 .. Len(old) : old[k].tty # n,
         NEW s \in Seq(Char), Heard(old, n, s)
  PROVE  Heard(new, n, Append(s, c))
<1>1. PICK f \in [DOMAIN s -> DOMAIN old] :
        /\ \A i \in DOMAIN s : old[f[i]] = s[i]
        /\ \A i, j \in DOMAIN s : i < j => f[i] < f[j]
        /\ {f[i] : i \in DOMAIN s} = {k \in DOMAIN old : old[k].tty = n}
  BY Zenon DEF Heard
<1>2. PICK z : z = Append(s, c)
  BY Zenon
<1>3. DOMAIN old = 1 .. Len(old) /\ DOMAIN new = 1 .. Len(old) + 1 /\ Len(old) \in Nat
      /\ DOMAIN s = 1 .. Len(s) /\ Len(s) \in Nat /\ p \in 0 .. Len(old)
  BY DEF PutIn
<1>4. z \in Seq(Char) /\ DOMAIN z = 1 .. Len(s) + 1 /\ z[Len(s) + 1] = c
  BY <1>2
<1>5. \A i \in 1 .. Len(s) : z[i] = s[i]
  BY <1>2
<1>6. \A i \in 1 .. Len(s) : f[i] \in 1 .. p
  <2> SUFFICES ASSUME NEW i \in 1 .. Len(s) PROVE f[i] \in 1 .. p
    OBVIOUS
  <2>1. f[i] \in 1 .. Len(old) /\ old[f[i]].tty = n
    <3>1. f[i] \in {k \in DOMAIN old : old[k].tty = n}
      BY <1>1, <1>3, Zenon
    <3> QED BY <1>3, <3>1, Zenon
  <2>2. f[i] \notin p + 1 .. Len(old)
    BY <2>1, Zenon
  <2> QED BY <1>3, <2>1, <2>2
<1>7. /\ \A k \in 1 .. p : new[k] = old[k]
      /\ new[p + 1] = c
      /\ \A k \in p + 1 .. Len(old) : new[k + 1] = old[k]
  BY Zenon DEF PutIn
<1> DEFINE g == [i \in DOMAIN z |-> IF i = Len(s) + 1 THEN p + 1 ELSE f[i]]
<1>8. /\ g \in [DOMAIN z -> DOMAIN new]
      /\ g[Len(s) + 1] = p + 1
      /\ \A i \in 1 .. Len(s) : g[i] = f[i]
  BY <1>3, <1>4, <1>6
<1> HIDE DEF g
<1>9. \A i \in DOMAIN z : i \in 1 .. Len(s) \/ i = Len(s) + 1
  BY <1>3, <1>4
<1>10. \A i \in DOMAIN z : new[g[i]] = z[i]
  <2>1. ASSUME NEW i \in 1 .. Len(s) PROVE new[g[i]] = z[i]
    <3>1. old[f[i]] = z[i]
      BY <1>1, <1>3, <1>5, Zenon
    <3> QED BY <1>6, <1>7, <1>8, <3>1, Zenon
  <2>2. new[g[Len(s) + 1]] = z[Len(s) + 1]
    BY <1>4, <1>7, <1>8, Zenon
  <2> QED BY <1>9, <2>1, <2>2, Zenon
<1>11. \A i, j \in DOMAIN z : i < j => g[i] < g[j]
  <2> SUFFICES ASSUME NEW i \in DOMAIN z, NEW j \in DOMAIN z, i < j PROVE g[i] < g[j]
    OBVIOUS
  <2>1. i \in 1 .. Len(s)
    BY <1>3, <1>4
  <2>2. CASE j \in 1 .. Len(s)
    BY <1>1, <1>3, <1>8, <2>1, <2>2, Zenon
  <2>3. CASE j = Len(s) + 1
    <3>1. g[i] \in 1 .. p /\ g[j] = p + 1
      BY <1>6, <1>8, <2>1, <2>3, Zenon
    <3> QED BY <1>3, <3>1
  <2> QED BY <1>9, <2>2, <2>3
<1>12. {g[i] : i \in DOMAIN z} = {k \in DOMAIN new : new[k].tty = n}
  <2>1. ASSUME NEW i \in DOMAIN z PROVE g[i] \in DOMAIN new /\ new[g[i]].tty = n
    <3>1. CASE i \in 1 .. Len(s)
      <4>1. f[i] \in {k \in DOMAIN old : old[k].tty = n}
        BY <1>1, <1>3, <3>1, Zenon
      <4> QED BY <1>6, <1>7, <1>8, <2>1, <3>1, <4>1, Zenon
    <3>2. CASE i = Len(s) + 1
      BY <1>7, <1>8, <2>1, <3>2, Zenon
    <3> QED BY <1>9, <3>1, <3>2
  <2>2. ASSUME NEW k \in DOMAIN new, new[k].tty = n PROVE \E i \in DOMAIN z : g[i] = k
    <3>1. CASE k \in 1 .. p
      <4>1. k \in {l \in DOMAIN old : old[l].tty = n}
        <5>1. k \in DOMAIN old
          BY <1>3, <3>1
        <5> QED BY <1>7, <2>2, <3>1, <5>1, Zenon
      <4>2. PICK i \in DOMAIN s : f[i] = k
        BY <1>1, <4>1, ZenonT(40)
      <4>3. i \in DOMAIN z
        BY <1>3, <1>4
      <4> QED BY <1>3, <1>8, <4>2, <4>3, Zenon
    <3>2. CASE k = p + 1
      <4>1. Len(s) + 1 \in DOMAIN z
        BY <1>3, <1>4
      <4> QED BY <1>8, <3>2, <4>1, Zenon
    <3>3. CASE k > p + 1
      <4>1. k - 1 \in p + 1 .. Len(old) /\ (k - 1) + 1 = k
        BY <1>3, <3>3
      <4>2. new[k] = old[k - 1]
        BY <1>7, <4>1, Zenon
      <4> QED BY <2>2, <4>1, <4>2, Zenon
    <3> QED BY <1>3, <3>1, <3>2, <3>3
  <2> QED BY <2>1, <2>2
<1>13. Heard(new, n, z)
  BY <1>8, <1>10, <1>11, <1>12, Zenon DEF Heard
<1> QED BY <1>2, <1>13, Zenon

-----------------------------------------------------------------------------
(* The devices.                                                             *)
Bytes == 0 .. SECT * NSECT - 1
Nodes == {"none", "dir"} \cup Range(DevfsList)
DevRecs == [dev : Nodes, acc : {"R", "RW"}, pos : Nat, todo : Seq(Char), mid : BOOLEAN]
OpenDevs == {x \in DevRecs : x.mid => x.todo # <<>>}

DevTypes ==
  dv \in [h : [Hs -> OpenDevs], dirs : Int, obuf : Seq(Char), out : Seq(Char),
          said : [Terminals -> Seq(Char)], n : Nat, disk : [Disks -> [Bytes -> Int]],
          ofs : [Disks -> Nat], meant : [Disks -> [Bytes -> Int]]]

(* Between a character's store and its test the buffer ends in it.          *)
Stored(d) ==
  /\ dv.h[d].todo # <<>> /\ dv.obuf # <<>>
  /\ dv.obuf[Len(dv.obuf)] = Head(dv.h[d].todo)
  /\ Len(dv.obuf) <= TTY_BUF
  /\ \A k \in 1 .. Len(dv.obuf) - 1 : ~dv.obuf[k].nl

(* At most one writer is between the two, and otherwise the buffer has room *)
(* and no whole line.                                                       *)
BufferInv ==
  /\ \A k \in DOMAIN dv.obuf : dv.obuf[k].tty = "stdout"
  /\ \A d, e \in Hs : dv.h[d].mid /\ dv.h[e].mid => d = e
  /\ \A d \in Hs : dv.h[d].mid => Stored(d)
  /\ (\A d \in Hs : ~dv.h[d].mid) =>
       Len(dv.obuf) < TTY_BUF /\ \A k \in DOMAIN dv.obuf : ~dv.obuf[k].nl

HeardInv == \A n \in Terminals : Heard(dv.out \o dv.obuf, n, dv.said[n])

ConsoleInv == DevTypes /\ BufferInv /\ HeardInv

LEMMA DevFields ==
  ASSUME DevTypes
  PROVE  /\ dv.h \in [Hs -> OpenDevs] /\ dv.dirs \in Int
         /\ dv.obuf \in Seq(Char) /\ dv.out \in Seq(Char)
         /\ dv.said \in [Terminals -> Seq(Char)] /\ dv.n \in Nat
         /\ dv.disk \in [Disks -> [Bytes -> Int]] /\ dv.ofs \in [Disks -> Nat]
         /\ dv.meant \in [Disks -> [Bytes -> Int]]
BY DEF DevTypes

LEMMA SizeOfDisk == SECT * NSECT \in Nat \ {0}
<1>1. SECT \in Nat \ {0} /\ NSECT \in Nat \ {0}
  BY DevFsAssumption
<1>2. SECT * NSECT \in Nat /\ SECT * NSECT # 0
  BY <1>1
<1> QED BY <1>2, Zenon

LEMMA ByteNat == Bytes \subseteq Nat
BY SizeOfDisk DEF Bytes

LEMMA NoDevOpen == NoDev \in OpenDevs
<1>1. <<>> \in Seq(Char)
  OBVIOUS
<1>2. "none" \in Nodes
  BY DEF Nodes
<1>3. NoDev \in DevRecs /\ ~NoDev.mid
  BY <1>1, <1>2 DEF NoDev, DevRecs
<1> QED BY <1>3, Zenon DEF OpenDevs

LEMMA DevInitTypes == DevfsInit => DevTypes
<1> SUFFICES ASSUME DevfsInit PROVE DevTypes
  OBVIOUS
<1>1. [d \in Hs |-> NoDev] \in [Hs -> OpenDevs]
  BY NoDevOpen
<1>2. <<>> \in Seq(Char) /\ [n \in Terminals |-> <<>>] \in [Terminals -> Seq(Char)]
  OBVIOUS
<1>3. Zeros \in [Bytes -> Int]
  BY DEF Zeros, Bytes
<1>4. [n \in Disks |-> Zeros] \in [Disks -> [Bytes -> Int]]
  BY <1>3
<1>5. [n \in Disks |-> 0] \in [Disks -> Nat]
  OBVIOUS
<1> QED BY <1>1, <1>2, <1>4, <1>5 DEF DevfsInit, DevTypes

(* A step on the open device of d that no other device and no terminal      *)
(* sees, and one that writes no disk.                                       *)
Quiet(d) ==
  /\ DevTypes'
  /\ dv'.obuf = dv.obuf /\ dv'.out = dv.out /\ dv'.said = dv.said
  /\ \E x \in OpenDevs : dv'.h = [dv.h EXCEPT ![d] = x] /\ (x.mid => dv.h[d].mid)
SameDisks == dv'.disk = dv.disk /\ dv'.meant = dv.meant

LEMMA QuietStep ==
  ASSUME DevTypes, NEW d \in Hs, NEW x \in OpenDevs, x.mid => dv.h[d].mid,
         NEW dirs \in Int, NEW n \in Nat,
         dv' = [dv EXCEPT !.h = [dv.h EXCEPT ![d] = x], !.dirs = dirs, !.n = n]
  PROVE  Quiet(d) /\ SameDisks
<1>1. [dv.h EXCEPT ![d] = x] \in [Hs -> OpenDevs]
  BY DevFields
<1>2. DevTypes'
  BY <1>1, Zenon DEF DevTypes
<1> DEFINE hs == [dv.h EXCEPT ![d] = x]
<1>3. dv' = [dv EXCEPT !.h = hs, !.dirs = dirs, !.n = n]
  OBVIOUS
<1> HIDE DEF hs
<1>4. /\ dv'.obuf = dv.obuf /\ dv'.out = dv.out /\ dv'.said = dv.said
      /\ dv'.h = hs /\ dv'.disk = dv.disk /\ dv'.meant = dv.meant
  BY <1>3, Zenon DEF DevTypes
<1> QED BY <1>2, <1>4, Zenon DEF Quiet, SameDisks, hs

LEMMA NoDevQuiet == NoDev.mid = FALSE /\ NoDev.todo = <<>>
BY DEF NoDev

LEMMA HandleFields ==
  ASSUME DevTypes, NEW d \in Hs
  PROVE  /\ dv.h[d] \in OpenDevs /\ dv.h[d].dev \in Nodes /\ dv.h[d].acc \in {"R", "RW"}
         /\ dv.h[d].pos \in Nat /\ dv.h[d].todo \in Seq(Char) /\ dv.h[d].mid \in BOOLEAN
         /\ dv.h[d] \in DevRecs /\ (dv.h[d].mid => dv.h[d].todo # <<>>)
<1>1. dv.h[d] \in OpenDevs
  BY DevFields
<1>2. dv.h[d] \in DevRecs /\ (dv.h[d].mid => dv.h[d].todo # <<>>)
  BY <1>1, Zenon DEF OpenDevs
<1> QED BY <1>1, <1>2 DEF DevRecs

LEMMA OpenatType ==
  ASSUME DevTypes, NEW d \in Hs, NEW p, NEW flags, DevOpenat(d, p, flags)
  PROVE  Quiet(d) /\ SameDisks
<1>1. PICK n : n = DevByPath(p)
  OBVIOUS
<1>2. CASE dv' = dv
  <2>1. DevTypes'
    BY <1>2 DEF DevTypes
  <2>2. dv.h[d] \in OpenDevs /\ dv.h = [dv.h EXCEPT ![d] = dv.h[d]]
    BY DevFields, Zenon
  <2> QED BY <1>2, <2>1, <2>2, Zenon DEF Quiet, SameDisks
<1>3. CASE dv' # dv
  <2> DEFINE x == [NoDev EXCEPT !.dev = n, !.acc = IF "RDWR" \in flags THEN "RW" ELSE "R"]
             dirs == dv.dirs + (IF n = "dir" THEN 1 ELSE 0)
  <2>1. n # "bad" /\ dv' = [dv EXCEPT !.dirs = dirs, !.h[d] = x]
    BY <1>1, <1>3, Zenon DEF DevOpenat
  <2>2. n \in Nodes
    BY <1>1, <2>1, Zenon DEF DevByPath, Nodes
  <2>3. x \in OpenDevs
    <3>1. NoDev \in DevRecs
      BY NoDevOpen, Zenon DEF OpenDevs
    <3>2. x \in DevRecs /\ x.mid = NoDev.mid
      BY <2>2, <3>1, Zenon DEF DevRecs
    <3> QED BY <3>2, NoDevQuiet, Zenon DEF OpenDevs
  <2>5. dirs \in Int
    BY DevFields
  <2>6. ~x.mid
    BY DEF NoDev
  <2> HIDE DEF x, dirs
  <2>4. dv' = [dv EXCEPT !.h = [dv.h EXCEPT ![d] = x], !.dirs = dirs, !.n = dv.n]
    BY <2>1, Zenon DEF DevTypes
  <2> QED BY <2>3, <2>4, <2>5, <2>6, DevFields, QuietStep, Zenon
<1> QED BY <1>2, <1>3

LEMMA OpenatFullType ==
  ASSUME DevTypes, NEW p, DevOpenatFull(p)
  PROVE  /\ DevTypes' /\ SameDisks /\ dv'.h = dv.h
         /\ dv'.obuf = dv.obuf /\ dv'.out = dv.out /\ dv'.said = dv.said
<1> DEFINE dirs == dv.dirs + (IF DevByPath(p) = "dir" THEN 1 ELSE 0)
<1>1. dirs \in Int
  BY DevFields
<1>2. dv' = [dv EXCEPT !.dirs = dirs]
  BY Zenon DEF DevOpenatFull
<1> HIDE DEF dirs
<1>3. DevTypes'
  BY <1>1, <1>2, Zenon DEF DevTypes
<1>4. /\ dv'.obuf = dv.obuf /\ dv'.out = dv.out /\ dv'.said = dv.said
      /\ dv'.h = dv.h /\ dv'.disk = dv.disk /\ dv'.meant = dv.meant
  BY <1>2 DEF DevTypes
<1> QED BY <1>3, <1>4, Zenon DEF SameDisks

LEMMA CloseType ==
  ASSUME DevTypes, NEW d \in Hs, DevClose(d)
  PROVE  Quiet(d) /\ SameDisks
<1> DEFINE dirs == dv.dirs - FreedDirs(d)
<1>1. dirs \in Int
  BY DevFields DEF FreedDirs
<1>2. dv' = [dv EXCEPT !.dirs = dirs, !.h[d] = NoDev]
  BY Zenon DEF DevClose
<1> HIDE DEF dirs
<1>3. dv' = [dv EXCEPT !.h = [dv.h EXCEPT ![d] = NoDev], !.dirs = dirs, !.n = dv.n]
  BY <1>2, Zenon DEF DevTypes
<1> QED BY <1>1, <1>3, NoDevOpen, NoDevQuiet, DevFields, QuietStep, Zenon

LEMMA WriteType ==
  ASSUME DevTypes, NEW d \in Hs, NEW text \in Texts, TtyWrite(d, text)
  PROVE  Quiet(d) /\ SameDisks
<1> DEFINE todo == [k \in DOMAIN text |->
                      [tty |-> dv.h[d].dev, n |-> dv.n + k, nl |-> text[k]]]
<1>1. text \in Seq(BOOLEAN)
  BY DevFsAssumption
<1>2. DOMAIN text = 1 .. Len(text) /\ Len(text) \in Nat
  BY <1>1
<1>3. \A k \in 1 .. Len(text) : [tty |-> dv.h[d].dev, n |-> dv.n + k, nl |-> text[k]] \in Char
  <2> TAKE k \in 1 .. Len(text)
  <2>1. dv.h[d].dev \in Terminals /\ dv.n + k \in Nat /\ text[k] \in BOOLEAN
    <3>1. dv.h[d].dev \in Terminals
      BY Zenon DEF TtyWrite
    <3> QED BY <1>1, <1>2, <3>1, DevFields
  <2> QED BY <2>1, Zenon DEF Char
<1>4. todo \in Seq(Char)
  BY <1>2, <1>3
<1>5. dv' = [dv EXCEPT !.n = @ + Len(text), !.h[d].todo = todo]
  BY Zenon DEF TtyWrite
<1> HIDE DEF todo
<1> DEFINE x == [dv.h[d] EXCEPT !.todo = todo]
<1>6. x \in OpenDevs /\ x.mid = dv.h[d].mid
  <2>1. x \in DevRecs /\ x.mid = dv.h[d].mid
    BY <1>4, HandleFields DEF DevRecs
  <2>2. ~dv.h[d].mid
    BY HandleFields, Zenon DEF TtyWrite, Idle
  <2> HIDE DEF x
  <2> QED BY <2>1, <2>2, Zenon DEF OpenDevs
<1>7. dv' = [dv EXCEPT !.h = [dv.h EXCEPT ![d] = x], !.dirs = dv.dirs, !.n = dv.n + Len(text)]
  BY <1>5, Zenon DEF DevTypes
<1>8. dv.n + Len(text) \in Nat
  BY <1>2, DevFields
<1> HIDE DEF x
<1> QED BY <1>6, <1>7, <1>8, DevFields, QuietStep, Zenon

LEMMA ReadType ==
  ASSUME DevTypes, NEW d \in Hs, BlockRead(d)
  PROVE  Quiet(d) /\ SameDisks
<1> DEFINE x == [dv.h[d] EXCEPT !.pos = @ + SECT]
<1>1. x \in OpenDevs /\ x.mid = dv.h[d].mid
  <2>1. x \in DevRecs /\ x.mid = dv.h[d].mid /\ x.todo = dv.h[d].todo
    BY HandleFields, DevFsAssumption DEF DevRecs
  <2> HIDE DEF x
  <2> QED BY <2>1, HandleFields, Zenon DEF OpenDevs
<1>2. dv' = [dv EXCEPT !.h = [dv.h EXCEPT ![d] = x], !.dirs = dv.dirs, !.n = dv.n]
  BY Zenon DEF DevTypes, BlockRead
<1> HIDE DEF x
<1> QED BY <1>1, <1>2, DevFields, QuietStep, Zenon

LEMMA LlseekType ==
  ASSUME DevTypes, NEW d \in Hs, NEW off \in {0, SECT}, NEW whence,
         BlockLlseek(d, off, whence)
  PROVE  Quiet(d) /\ SameDisks
<1> DEFINE n == dv.h[d].dev
           res == IF whence = "CUR" THEN (dv.ofs[n] + off + SECT * NSECT) % (SECT * NSECT) ELSE off
           x == [dv.h[d] EXCEPT !.pos = res]
<1>1. n \in Disks /\ dv' = [dv EXCEPT !.ofs[n] = res, !.h[d].pos = res]
  BY Zenon DEF BlockLlseek
<1>2. res \in Nat
  <2>1. off \in Nat
    BY DevFsAssumption
  <2>2. dv.ofs[n] \in Nat
    BY <1>1, DevFields
  <2>3. \A a \in Nat, b \in Nat \ {0} : a % b \in Nat
    OBVIOUS
  <2>4. \A a, b, c \in Nat : a + b + c \in Nat
    OBVIOUS
  <2>5. dv.ofs[n] + off + SECT * NSECT \in Nat
    BY <2>1, <2>2, <2>4, SizeOfDisk
  <2> QED BY <2>1, <2>3, <2>5, SizeOfDisk, Zenon
<1> HIDE DEF res
<1>3. x \in OpenDevs /\ x.mid = dv.h[d].mid
  <2>1. x \in DevRecs /\ x.mid = dv.h[d].mid /\ x.todo = dv.h[d].todo
    BY <1>2, HandleFields DEF DevRecs
  <2> HIDE DEF x
  <2> QED BY <2>1, HandleFields, Zenon DEF OpenDevs
<1>4. [dv.ofs EXCEPT ![n] = res] \in [Disks -> Nat]
  BY <1>2, DevFields, Zenon
<1>5. [dv.h EXCEPT ![d] = x] \in [Hs -> OpenDevs]
  BY <1>3, DevFields
<1>6. dv' = [dv EXCEPT !.ofs = [dv.ofs EXCEPT ![n] = res], !.h = [dv.h EXCEPT ![d] = x]]
  BY <1>1 DEF DevTypes
<1> HIDE DEF n
<1> DEFINE hs == [dv.h EXCEPT ![d] = x]
           os == [dv.ofs EXCEPT ![n] = res]
<1> HIDE DEF x, hs, os
<1>7. DevTypes'
  BY <1>4, <1>5, <1>6, Zenon DEF DevTypes, hs, os
<1>8. /\ dv'.obuf = dv.obuf /\ dv'.out = dv.out /\ dv'.said = dv.said
      /\ dv'.h = hs /\ dv'.disk = dv.disk /\ dv'.meant = dv.meant
  <2>1. dv' = [dv EXCEPT !.ofs = os, !.h = hs]
    BY <1>6, Zenon DEF hs, os
  <2> QED BY <2>1 DEF DevTypes
<1> QED BY <1>3, <1>7, <1>8, Zenon DEF Quiet, SameDisks, hs

LEMMA PutFields ==
  ASSUME DevTypes, NEW d \in Hs, TtyPut(d), NEW c, c = Head(dv.h[d].todo)
  PROVE  /\ DevTypes' /\ SameDisks /\ c \in Char /\ dv.h[d].todo # <<>> /\ ~dv.h[d].mid
         /\ dv'.said = [dv.said EXCEPT ![c.tty] = Append(dv.said[c.tty], c)]
         /\ dv'.obuf = IF c.tty = "stdout" THEN Append(dv.obuf, c) ELSE dv.obuf
         /\ dv'.out = IF c.tty = "stdout" THEN dv.out ELSE Append(dv.out, c)
         /\ dv'.h = [dv.h EXCEPT ![d] = [dv.h[d] EXCEPT !.mid = (c.tty = "stdout"),
                       !.todo = IF c.tty = "stdout" THEN dv.h[d].todo ELSE Tail(dv.h[d].todo)]]
<1>1. dv.h[d].todo # <<>> /\ ~dv.h[d].mid
  BY Zenon DEF TtyPut
<1>2. dv.h[d].todo \in Seq(Char) /\ Tail(dv.h[d].todo) \in Seq(Char) /\ c \in Char
  BY <1>1, HandleFields
<1>3. c.tty \in Terminals
  BY <1>2 DEF Char
<1> DEFINE said == [dv.said EXCEPT ![c.tty] = Append(dv.said[c.tty], c)]
           obuf == IF c.tty = "stdout" THEN Append(dv.obuf, c) ELSE dv.obuf
           out == IF c.tty = "stdout" THEN dv.out ELSE Append(dv.out, c)
           todo == IF c.tty = "stdout" THEN dv.h[d].todo ELSE Tail(dv.h[d].todo)
           x == [dv.h[d] EXCEPT !.mid = (c.tty = "stdout"), !.todo = todo]
           hs == [dv.h EXCEPT ![d] = x]
           Goal == /\ DevTypes' /\ SameDisks /\ dv'.said = said /\ dv'.obuf = obuf /\ dv'.out = out
                   /\ dv'.h = hs
<1>6. obuf \in Seq(Char) /\ out \in Seq(Char)
  BY <1>2, DevFields
<1>7. said \in [Terminals -> Seq(Char)]
  BY <1>2, <1>3, DevFields
<1>8. hs \in [Hs -> OpenDevs]
  <2>1. todo \in Seq(Char)
    BY <1>2
  <2> HIDE DEF todo
  <2>2. x \in DevRecs /\ (x.mid <=> c.tty = "stdout") /\ x.todo = todo
    BY <2>1, HandleFields, Zenon DEF DevRecs
  <2>3. c.tty = "stdout" => todo # <<>>
    BY <1>1, Zenon DEF todo
  <2> HIDE DEF x
  <2>4. x \in OpenDevs
    BY <2>2, <2>3, Zenon DEF OpenDevs
  <2> QED BY <2>4, DevFields
<1> HIDE DEF Goal
<1>4. ASSUME c.tty = "stdout" PROVE Goal
  <2>1. dv' = [dv EXCEPT !.said[c.tty] = Append(@, c), !.obuf = Append(@, c),
                         !.h[d].mid = TRUE]
    BY <1>4, Zenon DEF TtyPut
  <2>2. x = [dv.h[d] EXCEPT !.mid = TRUE]
    BY <1>4, HandleFields, Zenon DEF DevRecs
  <2>3. obuf = Append(dv.obuf, c) /\ out = dv.out
    BY <1>4, Zenon
  <2> HIDE DEF obuf, out, x
  <2>4. dv' = [dv EXCEPT !.said = said, !.obuf = obuf, !.h = hs]
    BY <2>1, <2>2, <2>3 DEF DevTypes
  <2> HIDE DEF said, hs
  <2>5. DevTypes'
    BY <1>6, <1>7, <1>8, <2>4, Zenon DEF DevTypes
  <2>6. dv'.said = said /\ dv'.obuf = obuf /\ dv'.out = out /\ dv'.h = hs
    BY <2>3, <2>4 DEF DevTypes
  <2>7. SameDisks
    BY <2>4 DEF DevTypes, SameDisks
  <2> QED BY <2>5, <2>6, <2>7, Zenon DEF Goal
<1>5. ASSUME c.tty # "stdout" PROVE Goal
  <2>1. dv' = [dv EXCEPT !.said[c.tty] = Append(@, c), !.out = Append(@, c),
                         !.h[d].todo = Tail(@)]
    BY <1>5, Zenon DEF TtyPut
  <2>2. x = [dv.h[d] EXCEPT !.todo = Tail(@)]
    BY <1>1, <1>5, HandleFields, Zenon DEF DevRecs
  <2>3. obuf = dv.obuf /\ out = Append(dv.out, c)
    BY <1>5, Zenon
  <2> HIDE DEF obuf, out, x
  <2>4. dv' = [dv EXCEPT !.said = said, !.out = out, !.h = hs]
    BY <2>1, <2>2, <2>3 DEF DevTypes
  <2> HIDE DEF said, hs
  <2>5. DevTypes'
    BY <1>6, <1>7, <1>8, <2>4, Zenon DEF DevTypes
  <2>6. dv'.said = said /\ dv'.obuf = obuf /\ dv'.out = out /\ dv'.h = hs
    BY <2>3, <2>4 DEF DevTypes
  <2>7. SameDisks
    BY <2>4 DEF DevTypes, SameDisks
  <2> QED BY <2>5, <2>6, <2>7, Zenon DEF Goal
<1> QED BY <1>1, <1>2, <1>4, <1>5, Zenon DEF Goal

LEMMA TestFields ==
  ASSUME DevTypes, NEW d \in Hs, TtyTest(d), NEW c, c = Head(dv.h[d].todo)
  PROVE  /\ DevTypes' /\ SameDisks /\ c \in Char /\ dv.h[d].mid
         /\ dv'.said = dv.said
         /\ dv'.obuf = IF Flushes(c) THEN <<>> ELSE dv.obuf
         /\ dv'.out = IF Flushes(c) THEN dv.out \o dv.obuf ELSE dv.out
         /\ dv'.h = NextChar(d)
<1>1. dv.h[d].mid
  BY Zenon DEF TtyTest
<1>2. dv.h[d].todo \in Seq(Char) /\ Tail(dv.h[d].todo) \in Seq(Char) /\ c \in Char
  <2>1. dv.h[d].todo # <<>>
    BY <1>1, HandleFields, Zenon
  <2> QED BY <2>1, HandleFields
<1> DEFINE obuf == IF Flushes(c) THEN <<>> ELSE dv.obuf
           out == IF Flushes(c) THEN dv.out \o dv.obuf ELSE dv.out
           hs == NextChar(d)
<1>3. obuf \in Seq(Char) /\ out \in Seq(Char)
  BY DevFields
<1>4. hs \in [Hs -> OpenDevs]
  <2> DEFINE y == [dv.h[d] EXCEPT !.todo = Tail(@), !.mid = FALSE]
  <2>1. y \in OpenDevs
    <3>1. y \in DevRecs /\ ~y.mid
      BY <1>2, HandleFields, Zenon DEF DevRecs
    <3> HIDE DEF y
    <3> QED BY <3>1, Zenon DEF OpenDevs
  <2>2. NextChar(d) = [dv.h EXCEPT ![d] = y]
    BY DevFields, Zenon DEF NextChar
  <2> HIDE DEF y
  <2> QED BY <2>1, <2>2, DevFields
<1>5. dv' = IF Flushes(Head(dv.h[d].todo))
            THEN [dv EXCEPT !.h = hs, !.out = @ \o dv.obuf, !.obuf = <<>>]
            ELSE [dv EXCEPT !.h = hs]
  BY Zenon DEF TtyTest
<1> HIDE DEF hs
<1>6. CASE Flushes(c)
  <2>1. dv' = [dv EXCEPT !.h = hs, !.out = @ \o dv.obuf, !.obuf = <<>>]
    <3>1. Flushes(Head(dv.h[d].todo))
      BY <1>6, Zenon
    <3> QED BY <1>5, <3>1, Zenon
  <2>2. dv' = [dv EXCEPT !.h = hs, !.out = out, !.obuf = obuf]
    BY <1>6, <2>1 DEF DevTypes
  <2> HIDE DEF out, obuf
  <2>3. DevTypes'
    BY <1>3, <1>4, <2>2, Zenon DEF DevTypes
  <2>4. dv'.said = dv.said /\ dv'.obuf = obuf /\ dv'.out = out /\ dv'.h = hs
    BY <2>2 DEF DevTypes
  <2>5. SameDisks
    BY <2>2 DEF DevTypes, SameDisks
  <2> QED BY <1>1, <1>2, <2>3, <2>4, <2>5, Zenon DEF hs, out, obuf
<1>7. CASE ~Flushes(c)
  <2>1. dv' = [dv EXCEPT !.h = hs]
    <3>1. ~Flushes(Head(dv.h[d].todo))
      BY <1>7, Zenon
    <3> QED BY <1>5, <3>1, Zenon
  <2>2. DevTypes'
    BY <1>4, <2>1, Zenon DEF DevTypes
  <2>3. dv'.said = dv.said /\ dv'.obuf = obuf /\ dv'.out = out /\ dv'.h = hs
    BY <1>7, <2>1 DEF DevTypes
  <2>4. SameDisks
    BY <2>1 DEF DevTypes, SameDisks
  <2> QED BY <1>1, <1>2, <2>2, <2>3, <2>4, Zenon DEF hs
<1> QED BY <1>6, <1>7

LEMMA BufPtrInt ==
  ASSUME NEW i \in Int, NEW size \in Nat
  PROVE  BufPtr(i, size) \in Int
BY DevFsAssumption DEF BufPtr

LEMMA SectorInt ==
  ASSUME NEW b \in Nat, NEW p \in Nat
  PROVE  b % SECT \in Int /\ (b \div SECT) - FirstSector(p) \in Int
<1>1. SECT \in Nat \ {0}
  BY DevFsAssumption
<1> QED BY <1>1 DEF FirstSector

LEMMA BlockWriteFields ==
  ASSUME DevTypes, NEW d \in Hs, NEW size \in 1 .. SECT * NSECT, BlockWrite(d, size),
         NEW n, n = dv.h[d].dev, NEW p, p = dv.h[d].pos
  PROVE  /\ Quiet(d) /\ n \in Disks /\ p \in Nat
         /\ dv'.disk = [dv.disk EXCEPT ![n] = BlockWritten(dv.disk[n], p, size, dv.n + 1)]
         /\ dv'.meant = [dv.meant EXCEPT ![n] = [b \in Bytes |->
              IF b \in p .. p + size - 1 THEN (dv.n + 1) * 10 + b - p ELSE dv.meant[n][b]]]
<1>1. n \in Disks /\ p \in Nat /\ size \in Nat /\ dv.n \in Nat
  <2>1. n \in Disks
    BY Zenon DEF BlockWrite
  <2> QED BY <2>1, HandleFields, DevFields, SizeOfDisk
<1>2. dv.disk[n] \in [Bytes -> Int] /\ dv.meant[n] \in [Bytes -> Int]
  BY <1>1, DevFields
<1> DEFINE new == BlockWritten(dv.disk[n], p, size, dv.n + 1)
           aim == [b \in Bytes |->
              IF b \in p .. p + size - 1 THEN (dv.n + 1) * 10 + b - p ELSE dv.meant[n][b]]
           x == [dv.h[d] EXCEPT !.pos = p + size]
<1>3. new \in [Bytes -> Int]
  <2> DEFINE F(b) == LET i == (b \div SECT) - FirstSector(p)
                         k == b % SECT
                         cnt == (size - 1) \div SECT + 1
                     IN  IF i \notin 0 .. cnt - 1 THEN dv.disk[n][b]
                         ELSE IF size % SECT # 0 /\ i = cnt - 1 /\ k >= size % SECT THEN 0
                         ELSE (dv.n + 1) * 10 + BufPtr(i, size) + k
  <2>1. new = [b \in Bytes |-> F(b)]
    BY <1>2 DEF BlockWritten
  <2>2. ASSUME NEW b \in Bytes PROVE F(b) \in Int
    <3>1. b \in Nat /\ b % SECT \in Int /\ (b \div SECT) - FirstSector(p) \in Int
      <4>1. b \in Nat
        BY ByteNat
      <4> QED BY <1>1, <4>1, SectorInt, Zenon
    <3>2. BufPtr((b \div SECT) - FirstSector(p), size) \in Int
      BY <1>1, <3>1, BufPtrInt
    <3>3. dv.disk[n][b] \in Int
      BY <1>2
    <3>4. (dv.n + 1) * 10 + BufPtr((b \div SECT) - FirstSector(p), size) + (b % SECT) \in Int
      <4>1. \A w \in Nat, q, k \in Int : (w + 1) * 10 + q + k \in Int
        OBVIOUS
      <4> QED BY <1>1, <3>1, <3>2, <4>1, Zenon
    <3>5. 0 \in Int
      OBVIOUS
    <3> QED BY <3>3, <3>4, <3>5, Zenon
  <2> HIDE DEF F, new
  <2> QED BY <2>1, <2>2
<1>4. aim \in [Bytes -> Int]
  <2>1. ASSUME NEW b \in Bytes
        PROVE  (IF b \in p .. p + size - 1 THEN (dv.n + 1) * 10 + b - p ELSE dv.meant[n][b]) \in Int
    <3>1. b \in Int /\ dv.meant[n][b] \in Int
      BY <1>2, ByteNat
    <3>2. \A w, q \in Nat, k \in Int : (w + 1) * 10 + k - q \in Int
      OBVIOUS
    <3>3. (dv.n + 1) * 10 + b - p \in Int
      BY <1>1, <3>1, <3>2, Zenon
    <3> QED BY <3>1, <3>3, Zenon
  <2> QED BY <2>1
<1>5. DOMAIN dv.meant[n] = Bytes
  BY <1>2
<1>6. dv' = [dv EXCEPT !.n = @ + 1, !.h[d].pos = @ + size,
                  !.disk[n]  = BlockWritten(@, p, size, dv.n + 1),
                  !.meant[n] = [b \in DOMAIN @ |->
                    IF b \in p .. p + size - 1 THEN (dv.n + 1) * 10 + b - p ELSE @[b]]]
  BY Zenon DEF BlockWrite
<1>7. dv' = [dv EXCEPT !.n = dv.n + 1, !.h = [dv.h EXCEPT ![d] = x],
                       !.disk = [dv.disk EXCEPT ![n] = new],
                       !.meant = [dv.meant EXCEPT ![n] = aim]]
  BY <1>5, <1>6 DEF DevTypes
<1>8. x \in OpenDevs
  <2>1. x \in DevRecs /\ x.mid = dv.h[d].mid /\ x.todo = dv.h[d].todo
    BY <1>1, HandleFields DEF DevRecs
  <2> HIDE DEF x
  <2> QED BY <2>1, HandleFields, Zenon DEF OpenDevs
<1>13. x.mid = dv.h[d].mid
  BY HandleFields DEF DevRecs
<1> HIDE DEF new, aim, x
<1>9. /\ [dv.h EXCEPT ![d] = x] \in [Hs -> OpenDevs]
      /\ [dv.disk EXCEPT ![n] = new] \in [Disks -> [Bytes -> Int]]
      /\ [dv.meant EXCEPT ![n] = aim] \in [Disks -> [Bytes -> Int]]
  BY <1>3, <1>4, <1>8, DevFields, Zenon
<1>10. dv.n + 1 \in Nat
  BY <1>1
<1>11. DevTypes'
  BY <1>7, <1>9, <1>10, Zenon DEF DevTypes
<1>12. /\ dv'.obuf = dv.obuf /\ dv'.out = dv.out /\ dv'.said = dv.said
       /\ dv'.h = [dv.h EXCEPT ![d] = x]
       /\ dv'.disk = [dv.disk EXCEPT ![n] = new] /\ dv'.meant = [dv.meant EXCEPT ![n] = aim]
  BY <1>7 DEF DevTypes
<1>14. Quiet(d)
  BY <1>8, <1>11, <1>12, <1>13, Zenon DEF Quiet
<1> QED BY <1>1, <1>12, <1>14, Zenon DEF new, aim

-----------------------------------------------------------------------------
(* The console.                                                             *)
LEMMA ConsoleInit == DevfsInit => ConsoleInv
<1> SUFFICES ASSUME DevfsInit PROVE ConsoleInv
  OBVIOUS
<1>1. DevTypes
  BY DevInitTypes
<1>2. dv.obuf = <<>> /\ dv.out = <<>>
  BY DEF DevfsInit
<1>3. \A d \in Hs : ~dv.h[d].mid
  <2>1. \A d \in Hs : dv.h[d] = NoDev
    BY DEF DevfsInit
  <2> QED BY <2>1, NoDevQuiet, Zenon
<1>4. \A n \in Terminals : dv.said[n] = <<>>
  BY DEF DevfsInit
<1>5. BufferInv
  <2>1. Len(dv.obuf) < TTY_BUF /\ DOMAIN dv.obuf = {}
    BY <1>2, DevFsAssumption
  <2> QED BY <1>3, <2>1, Zenon DEF BufferInv
<1>6. HeardInv
  <2> SUFFICES ASSUME NEW n \in Terminals PROVE Heard(<<>>, n, <<>>)
    BY <1>2, <1>4 DEF HeardInv
  <2> DEFINE f == [i \in {} |-> i]
  <2>1. f \in [{} -> {}] /\ {f[i] : i \in {}} = {}
    OBVIOUS
  <2>2. DOMAIN <<>> = {}
    OBVIOUS
  <2>3. {k \in {} : <<>>[k].tty = n} = {}
    OBVIOUS
  <2> HIDE DEF f
  <2> QED BY <2>1, <2>2, <2>3, Zenon DEF Heard
<1> QED BY <1>1, <1>5, <1>6, Zenon DEF ConsoleInv

LEMMA ConsoleKept ==
  ASSUME ConsoleInv, DevTypes',
         dv'.obuf = dv.obuf, dv'.out = dv.out, dv'.said = dv.said,
         \A e \in Hs : dv'.h[e].mid <=> dv.h[e].mid,
         \A e \in Hs : dv.h[e].mid => dv'.h[e].todo = dv.h[e].todo
  PROVE  ConsoleInv'
<1>1. BufferInv /\ HeardInv
  BY Zenon DEF ConsoleInv
<1>2. HeardInv'
  BY <1>1, Zenon DEF HeardInv
<1>3. \A e \in Hs : dv.h[e].mid /\ Stored(e) => Stored(e)'
  BY Zenon DEF Stored
<1>4. BufferInv'
  BY <1>1, <1>3, Zenon DEF BufferInv
<1> QED BY <1>2, <1>4, Zenon DEF ConsoleInv

(* A device without a write in progress is not inside one.                  *)
LEMMA IdleNotMid ==
  ASSUME ConsoleInv, NEW d \in Hs, dv.h[d] = NoDev \/ Idle(d)
  PROVE  ~dv.h[d].mid
<1>1. dv.h[d].mid => dv.h[d].todo # <<>>
  BY Zenon DEF ConsoleInv, BufferInv, Stored
<1> QED BY <1>1, NoDevQuiet, Zenon DEF Idle

LEMMA QuietConsole ==
  ASSUME ConsoleInv, NEW d \in Hs, Quiet(d), dv.h[d] = NoDev \/ Idle(d)
  PROVE  ConsoleInv'
<1>1. ~dv.h[d].mid
  BY IdleNotMid
<1>2. PICK x \in OpenDevs : dv'.h = [dv.h EXCEPT ![d] = x] /\ (x.mid => dv.h[d].mid)
  BY Zenon DEF Quiet
<1>3. dv.h \in [Hs -> OpenDevs]
  BY DevFields, Zenon DEF ConsoleInv
<1>4. \A e \in Hs : dv'.h[e] = IF e = d THEN x ELSE dv.h[e]
  BY <1>2, <1>3
<1>5. /\ \A e \in Hs : dv'.h[e].mid <=> dv.h[e].mid
      /\ \A e \in Hs : dv.h[e].mid => dv'.h[e].todo = dv.h[e].todo
  BY <1>1, <1>2, <1>4, Zenon
<1>6. DevTypes' /\ dv'.obuf = dv.obuf /\ dv'.out = dv.out /\ dv'.said = dv.said
  BY Zenon DEF Quiet
<1> QED BY <1>5, <1>6, ConsoleKept, Zenon

LEMMA AppendPutIn ==
  ASSUME NEW s \in Seq(Char), NEW c \in Char
  PROVE  PutIn(s, Append(s, c), Len(s), c)
BY DEF PutIn

LEMMA MiddlePutIn ==
  ASSUME NEW s \in Seq(Char), NEW r \in Seq(Char), NEW c \in Char
  PROVE  /\ Append(s, c) \o r \in Seq(Char)
         /\ PutIn(s \o r, Append(s, c) \o r, Len(s), c)
         /\ \A k \in Len(s) + 1 .. Len(s \o r) : (s \o r)[k] = r[k - Len(s)]
<1>1. PICK a : a = Append(s, c)
  BY Zenon
<1>2. a \in Seq(Char) /\ Len(a) = Len(s) + 1 /\ a[Len(s) + 1] = c
      /\ \A k \in 1 .. Len(s) : a[k] = s[k]
  BY <1>1
<1>3. Len(a \o r) = Len(s) + 1 + Len(r) /\ Len(s \o r) = Len(s) + Len(r) /\ Len(s) \in Nat
      /\ Len(r) \in Nat /\ a \o r \in Seq(Char)
  BY <1>2
<1>4. \A k \in 1 .. Len(a) + Len(r) :
        (a \o r)[k] = IF k <= Len(a) THEN a[k] ELSE r[k - Len(a)]
  BY <1>2
<1>5. \A k \in 1 .. Len(s) + Len(r) :
        (s \o r)[k] = IF k <= Len(s) THEN s[k] ELSE r[k - Len(s)]
  OBVIOUS
<1>6. PICK x : x = a \o r
  BY Zenon
<1>7. PICK y : y = s \o r
  BY Zenon
<1>8. \A k \in 1 .. Len(s) : x[k] = y[k]
  BY <1>2, <1>3, <1>4, <1>5, <1>6, <1>7
<1>9. x[Len(s) + 1] = c
  BY <1>2, <1>3, <1>4, <1>6
<1>10. ASSUME NEW k \in Len(s) + 1 .. Len(s) + Len(r) PROVE x[k + 1] = y[k]
  <2>1. x[k + 1] = r[k + 1 - Len(a)]
    BY <1>2, <1>3, <1>4, <1>6
  <2>2. y[k] = r[k - Len(s)]
    BY <1>3, <1>5, <1>7
  <2>3. k + 1 - Len(a) = k - Len(s)
    BY <1>2, <1>3
  <2> QED BY <2>1, <2>2, <2>3
<1>11. Len(s) \in 0 .. Len(y) /\ Len(x) = Len(y) + 1 /\ Len(y) = Len(s) + Len(r)
  BY <1>3, <1>6, <1>7
<1>12. PutIn(y, x, Len(s), c)
  BY <1>8, <1>9, <1>10, <1>11, Zenon DEF PutIn
<1>13. \A k \in Len(s) + 1 .. Len(y) : y[k] = r[k - Len(s)]
  BY <1>3, <1>5, <1>7, <1>11
<1> QED BY <1>1, <1>3, <1>6, <1>7, <1>12, <1>13, Zenon

(* The assumption that no writer is preempted between a store and its test. *)
NoRace == "preempt" \notin Defects

LEMMA PutConsole ==
  ASSUME ConsoleInv, NoRace, NEW d \in Hs, TtyPut(d)
  PROVE  ConsoleInv'
<1>1. PICK c : c = Head(dv.h[d].todo)
  OBVIOUS
<1>2. DevTypes /\ BufferInv /\ HeardInv
  BY Zenon DEF ConsoleInv
<1>3. /\ DevTypes' /\ c \in Char /\ dv.h[d].todo # <<>>
      /\ dv'.said = [dv.said EXCEPT ![c.tty] = Append(dv.said[c.tty], c)]
      /\ dv'.obuf = IF c.tty = "stdout" THEN Append(dv.obuf, c) ELSE dv.obuf
      /\ dv'.out = IF c.tty = "stdout" THEN dv.out ELSE Append(dv.out, c)
      /\ dv'.h = [dv.h EXCEPT ![d] = [dv.h[d] EXCEPT !.mid = (c.tty = "stdout"),
                    !.todo = IF c.tty = "stdout" THEN dv.h[d].todo ELSE Tail(dv.h[d].todo)]]
  BY <1>1, <1>2, PutFields, Zenon
<1>4. /\ dv.h \in [Hs -> OpenDevs] /\ dv.obuf \in Seq(Char) /\ dv.out \in Seq(Char)
      /\ dv.said \in [Terminals -> Seq(Char)]
  BY <1>2, DevFields, Zenon
<1>5. \A e \in Hs : ~dv.h[e].mid
  BY Zenon DEF TtyPut, NoRace, Allowed
<1>6. /\ \A k \in DOMAIN dv.obuf : dv.obuf[k].tty = "stdout" /\ ~dv.obuf[k].nl
      /\ Len(dv.obuf) < TTY_BUF
  BY <1>2, <1>5, Zenon DEF BufferInv
<1>7. c.tty \in Terminals /\ c.nl \in BOOLEAN
  BY <1>3 DEF Char
<1> DEFINE old == dv.out \o dv.obuf
           new == dv'.out \o dv'.obuf
<1>8. old \in Seq(Char) /\ Len(old) = Len(dv.out) + Len(dv.obuf)
  BY <1>4
<1>9. \E p : /\ new \in Seq(Char) /\ PutIn(old, new, p, c)
             /\ \A k \in p + 1 .. Len(old) : old[k].tty # c.tty
  <2>1. CASE c.tty = "stdout"
    <3>1. new = dv.out \o Append(dv.obuf, c)
      BY <1>3, <2>1, Zenon
    <3>2. dv.out \o Append(dv.obuf, c) = Append(dv.out \o dv.obuf, c)
      <4>1. \A s, r \in Seq(Char) : s \o Append(r, c) = Append(s \o r, c)
        BY <1>3
      <4> QED BY <1>4, <4>1, Zenon
    <3>3. new = Append(old, c)
      BY <3>1, <3>2, Zenon
    <3> HIDE DEF old, new
    <3>4. new \in Seq(Char)
      BY <1>3, <1>8, <3>3
    <3>5. PutIn(old, new, Len(old), c)
      BY <1>3, <1>8, <3>3, AppendPutIn, Zenon
    <3>6. Len(old) + 1 .. Len(old) = {}
      <4>1. \A m \in Nat : m + 1 .. m = {}
        OBVIOUS
      <4>2. \A s \in Seq(Char) : Len(s) \in Nat
        OBVIOUS
      <4> QED BY <1>8, <4>1, <4>2, Zenon
    <3>7. \A k \in Len(old) + 1 .. Len(old) : old[k].tty # c.tty
      BY <3>6, Zenon
    <3> QED BY <3>4, <3>5, <3>7, Zenon
  <2>2. CASE c.tty # "stdout"
    <3>1. new = Append(dv.out, c) \o dv.obuf
      BY <1>3, <2>2, Zenon
    <3>2. /\ Append(dv.out, c) \o dv.obuf \in Seq(Char)
          /\ PutIn(old, Append(dv.out, c) \o dv.obuf, Len(dv.out), c)
          /\ \A k \in Len(dv.out) + 1 .. Len(old) : old[k] = dv.obuf[k - Len(dv.out)]
      BY <1>3, <1>4, MiddlePutIn, Zenon
    <3>3. \A k \in Len(dv.out) + 1 .. Len(old) : k - Len(dv.out) \in DOMAIN dv.obuf
      <4>1. ASSUME NEW s \in Seq(Char), NEW r \in Seq(Char), NEW k \in Len(s) + 1 .. Len(s \o r)
            PROVE  k - Len(s) \in DOMAIN r
        OBVIOUS
      <4> QED BY <1>4, <4>1, Zenon
    <3>4. \A k \in Len(dv.out) + 1 .. Len(old) : old[k].tty # c.tty
      <4> HIDE DEF old
      <4> QED BY <1>6, <2>2, <3>2, <3>3, Zenon
    <3> QED BY <3>1, <3>2, <3>4, Zenon
  <2> QED BY <2>1, <2>2, Zenon
<1>10. PICK p : /\ new \in Seq(Char) /\ PutIn(old, new, p, c)
                /\ \A k \in p + 1 .. Len(old) : old[k].tty # c.tty
  BY <1>9, Zenon
<1>11. HeardInv'
  <2> SUFFICES ASSUME NEW n \in Terminals PROVE Heard(new, n, dv'.said[n])
    BY Zenon DEF HeardInv
  <2>1. Heard(old, n, dv.said[n])
    BY <1>2, Zenon DEF HeardInv
  <2>2. dv.said[n] \in Seq(Char)
    BY <1>4
  <2> HIDE DEF old, new
  <2>3. CASE n = c.tty
    <3>1. dv'.said[n] = Append(dv.said[n], c)
      BY <1>3, <1>4, <2>3
    <3>2. Heard(new, n, Append(dv.said[n], c))
      BY <1>3, <1>8, <1>10, <2>1, <2>2, <2>3, HeardOwn, Zenon
    <3> QED BY <3>1, <3>2, Zenon
  <2>4. CASE n # c.tty
    <3>1. dv'.said[n] = dv.said[n]
      BY <1>3, <1>4, <2>4
    <3>2. Heard(new, n, dv.said[n])
      BY <1>8, <1>10, <2>1, <2>2, <2>4, HeardOther, Zenon
    <3> QED BY <3>1, <3>2, Zenon
  <2> QED BY <2>3, <2>4
<1>12. \A e \in Hs : e # d => dv'.h[e] = dv.h[e]
  BY <1>3, <1>4
<1>13. BufferInv'
  <2>1. CASE c.tty = "stdout"
    <3>1. dv'.obuf = Append(dv.obuf, c)
      BY <1>3, <2>1, Zenon
    <3>2. /\ dv'.obuf \in Seq(Char) /\ Len(dv'.obuf) = Len(dv.obuf) + 1
          /\ dv'.obuf[Len(dv.obuf) + 1] = c
          /\ \A k \in 1 .. Len(dv.obuf) : dv'.obuf[k] = dv.obuf[k]
      BY <1>3, <1>4, <3>1
    <3>3. Len(dv.obuf) \in Nat /\ DOMAIN dv.obuf = 1 .. Len(dv.obuf)
          /\ DOMAIN dv'.obuf = 1 .. Len(dv.obuf) + 1
      BY <1>4, <3>2
    <3>4. /\ \A k \in DOMAIN dv'.obuf : dv'.obuf[k].tty = "stdout"
          /\ dv'.obuf # <<>> /\ Len(dv'.obuf) <= TTY_BUF
          /\ \A k \in 1 .. Len(dv'.obuf) - 1 : ~dv'.obuf[k].nl
      <4>1. \A k \in DOMAIN dv'.obuf : k \in 1 .. Len(dv.obuf) \/ k = Len(dv.obuf) + 1
        BY <3>3
      <4>2. \A k \in DOMAIN dv'.obuf : dv'.obuf[k].tty = "stdout"
        BY <1>6, <2>1, <3>2, <3>3, <4>1, Zenon
      <4>3. dv'.obuf # <<>> /\ Len(dv'.obuf) <= TTY_BUF /\ Len(dv'.obuf) - 1 = Len(dv.obuf)
        BY <1>6, <3>2, <3>3, DevFsAssumption
      <4>4. \A k \in 1 .. Len(dv'.obuf) - 1 : ~dv'.obuf[k].nl
        BY <1>6, <3>2, <3>3, <4>3, Zenon
      <4> QED BY <4>2, <4>3, <4>4, Zenon
    <3>5. dv'.h[d].mid /\ dv'.h[d].todo = dv.h[d].todo
      <4> DEFINE x == [dv.h[d] EXCEPT !.mid = (c.tty = "stdout"), !.todo =
                         IF c.tty = "stdout" THEN dv.h[d].todo ELSE Tail(dv.h[d].todo)]
      <4>1. (x.mid <=> c.tty = "stdout") /\ (c.tty = "stdout" => x.todo = dv.h[d].todo)
        BY <1>2, HandleFields, Zenon DEF DevRecs
      <4> HIDE DEF x
      <4>2. dv'.h[d] = x
        BY <1>3, <1>4 DEF x
      <4> QED BY <2>1, <4>1, <4>2, Zenon
    <3>6. Stored(d)'
      BY <1>1, <1>3, <3>2, <3>4, <3>5, Zenon DEF Stored
    <3>7. \A e \in Hs : dv'.h[e].mid => e = d
      BY <1>5, <1>12, Zenon
    <3> QED BY <3>4, <3>5, <3>6, <3>7, Zenon DEF BufferInv
  <2>2. CASE c.tty # "stdout"
    <3>1. dv'.obuf = dv.obuf
      BY <1>3, <2>2, Zenon
    <3>2. ~dv'.h[d].mid
      <4> DEFINE x == [dv.h[d] EXCEPT !.mid = (c.tty = "stdout"), !.todo =
                         IF c.tty = "stdout" THEN dv.h[d].todo ELSE Tail(dv.h[d].todo)]
      <4>1. x.mid <=> c.tty = "stdout"
        BY <1>2, HandleFields, Zenon DEF DevRecs
      <4> HIDE DEF x
      <4>2. dv'.h[d] = x
        BY <1>3, <1>4 DEF x
      <4> QED BY <2>2, <4>1, <4>2, Zenon
    <3>3. \A e \in Hs : ~dv'.h[e].mid
      BY <1>5, <1>12, <3>2, Zenon
    <3> QED BY <1>6, <3>1, <3>3, Zenon DEF BufferInv
  <2> QED BY <2>1, <2>2
<1> QED BY <1>3, <1>11, <1>13, Zenon DEF ConsoleInv

LEMMA TestConsole ==
  ASSUME ConsoleInv, NEW d \in Hs, TtyTest(d)
  PROVE  ConsoleInv'
<1>1. PICK c : c = Head(dv.h[d].todo)
  OBVIOUS
<1>2. DevTypes /\ BufferInv /\ HeardInv
  BY Zenon DEF ConsoleInv
<1>3. dv.h[d].mid /\ Stored(d)
  BY <1>2, Zenon DEF TtyTest, BufferInv
<1>4. /\ DevTypes' /\ c \in Char
      /\ dv'.said = dv.said
      /\ dv'.obuf = IF Flushes(c) THEN <<>> ELSE dv.obuf
      /\ dv'.out = IF Flushes(c) THEN dv.out \o dv.obuf ELSE dv.out
      /\ dv'.h = NextChar(d)
  BY <1>1, <1>2, TestFields, Zenon
<1>5. /\ dv.h \in [Hs -> OpenDevs] /\ dv.obuf \in Seq(Char) /\ dv.out \in Seq(Char)
  BY <1>2, DevFields, Zenon
<1>6. HeardInv'
  <2>1. dv'.out \o dv'.obuf = dv.out \o dv.obuf
    <3>1. \A s \in Seq(Char) : s \o <<>> = s
      OBVIOUS
    <3>2. dv.out \o dv.obuf \in Seq(Char)
      BY <1>5
    <3>3. (dv.out \o dv.obuf) \o <<>> = dv.out \o dv.obuf
      BY <3>1, <3>2, Zenon
    <3>4. CASE Flushes(c)
      <4>1. dv'.obuf = <<>> /\ dv'.out = dv.out \o dv.obuf
        BY <1>4, <3>4, Zenon
      <4> QED BY <3>3, <4>1, Zenon
    <3>5. CASE ~Flushes(c)
      BY <1>4, <3>5, Zenon
    <3> QED BY <3>4, <3>5, Zenon
  <2> QED BY <1>2, <1>4, <2>1, Zenon DEF HeardInv
<1>7. \A e \in Hs : ~dv'.h[e].mid
  <2>1. ~dv'.h[d].mid /\ \A e \in Hs : e # d => dv'.h[e] = dv.h[e]
    <3>1. dv.h[d] \in DevRecs
      BY <1>2, HandleFields
    <3> QED BY <1>4, <1>5, <3>1 DEF NextChar, DevRecs
  <2>2. \A e \in Hs : e # d => ~dv.h[e].mid
    BY <1>2, <1>3, Zenon DEF BufferInv
  <2> QED BY <2>1, <2>2, Zenon
<1>8. BufferInv'
  <2>1. Len(dv'.obuf) < TTY_BUF /\ \A k \in DOMAIN dv'.obuf : ~dv'.obuf[k].nl
    <3>1. CASE Flushes(c)
      <4>1. dv'.obuf = <<>>
        BY <1>4, <3>1, Zenon
      <4>2. Len(dv'.obuf) < TTY_BUF /\ DOMAIN dv'.obuf = {}
        BY <4>1, DevFsAssumption
      <4> QED BY <4>2, Zenon
    <3>2. CASE ~Flushes(c)
      <4>1. dv'.obuf = dv.obuf
        BY <1>4, <3>2, Zenon
      <4>2. ~c.nl /\ Len(dv.obuf) # TTY_BUF
        BY <3>2, Zenon DEF Flushes
      <4>3. /\ dv.obuf # <<>> /\ dv.obuf[Len(dv.obuf)] = c /\ Len(dv.obuf) <= TTY_BUF
            /\ \A k \in 1 .. Len(dv.obuf) - 1 : ~dv.obuf[k].nl
        BY <1>1, <1>3, Zenon DEF Stored
      <4>4. Len(dv.obuf) < TTY_BUF
        BY <1>5, <4>2, <4>3, DevFsAssumption
      <4>5. \A k \in DOMAIN dv.obuf : k \in 1 .. Len(dv.obuf) - 1 \/ k = Len(dv.obuf)
        BY <1>5
      <4>6. \A k \in DOMAIN dv.obuf : ~dv.obuf[k].nl
        BY <4>2, <4>3, <4>5, Zenon
      <4> QED BY <4>1, <4>4, <4>6, Zenon
    <3> QED BY <3>1, <3>2
  <2>2. \A k \in DOMAIN dv'.obuf : dv'.obuf[k].tty = "stdout"
    <3>1. CASE Flushes(c)
      <4>1. DOMAIN dv'.obuf = {}
        BY <1>4, <3>1
      <4> QED BY <4>1, Zenon
    <3>2. CASE ~Flushes(c)
      BY <1>2, <1>4, <3>2, Zenon DEF BufferInv
    <3> QED BY <3>1, <3>2
  <2> QED BY <1>7, <2>1, <2>2, Zenon DEF BufferInv
<1> QED BY <1>4, <1>6, <1>8, Zenon DEF ConsoleInv

LEMMA DevConsole ==
  ASSUME ConsoleInv, NoRace, DevNext
  PROVE  ConsoleInv'
<1>1. DevTypes
  BY Zenon DEF ConsoleInv
<1>2. ASSUME NEW d \in Hs, NEW p, NEW flags, DevOpenat(d, p, flags) PROVE ConsoleInv'
  <2>1. dv.h[d] = NoDev
    BY <1>2, Zenon DEF DevOpenat
  <2>2. Quiet(d)
    BY <1>1, <1>2, OpenatType, Zenon
  <2> QED BY <2>1, <2>2, QuietConsole, Zenon
<1>3. ASSUME NEW p, DevOpenatFull(p) PROVE ConsoleInv'
  <2>1. /\ DevTypes' /\ dv'.h = dv.h
        /\ dv'.obuf = dv.obuf /\ dv'.out = dv.out /\ dv'.said = dv.said
    BY <1>1, <1>3, OpenatFullType, Zenon
  <2>2. /\ \A e \in Hs : dv'.h[e].mid <=> dv.h[e].mid
        /\ \A e \in Hs : dv.h[e].mid => dv'.h[e].todo = dv.h[e].todo
    BY <2>1, Zenon
  <2> QED BY <2>1, <2>2, ConsoleKept, Zenon
<1>4. ASSUME NEW d \in Hs, DevClose(d) PROVE ConsoleInv'
  <2>1. Idle(d)
    BY <1>4, Zenon DEF DevClose
  <2>2. Quiet(d)
    BY <1>1, <1>4, CloseType, Zenon
  <2> QED BY <2>1, <2>2, QuietConsole, Zenon
<1>5. ASSUME NEW d \in Hs, BlockRead(d) PROVE ConsoleInv'
  <2>1. Idle(d)
    BY <1>5, Zenon DEF BlockRead
  <2>2. Quiet(d)
    BY <1>1, <1>5, ReadType, Zenon
  <2> QED BY <2>1, <2>2, QuietConsole, Zenon
<1>6. ASSUME NEW d \in Hs, NEW text \in Texts, TtyWrite(d, text) PROVE ConsoleInv'
  <2>1. Idle(d)
    BY <1>6, Zenon DEF TtyWrite
  <2>2. Quiet(d)
    BY <1>1, <1>6, WriteType, Zenon
  <2> QED BY <2>1, <2>2, QuietConsole, Zenon
<1>7. ASSUME NEW d \in Hs, NEW size \in 1 .. SECT * NSECT, BlockWrite(d, size)
      PROVE  ConsoleInv'
  <2>1. Idle(d)
    BY <1>7, Zenon DEF BlockWrite
  <2>2. Quiet(d)
    BY <1>1, <1>7, BlockWriteFields, Zenon
  <2> QED BY <2>1, <2>2, QuietConsole, Zenon
<1>8. ASSUME NEW d \in Hs, NEW off \in {0, SECT}, NEW whence, BlockLlseek(d, off, whence)
      PROVE  ConsoleInv'
  <2>1. Idle(d)
    BY <1>8, Zenon DEF BlockLlseek
  <2>2. Quiet(d)
    BY <1>1, <1>8, LlseekType, Zenon
  <2> QED BY <2>1, <2>2, QuietConsole, Zenon
<1> QED
  BY <1>2, <1>3, <1>4, <1>5, <1>6, <1>7, <1>8, PutConsole, TestConsole, Zenon DEF DevNext

(* The calls on files leave the devices alone.                              *)
LEMMA DevSteps ==
  ASSUME [Next]_vars PROVE DevNext \/ dv' = dv
<1>1. CASE Next
  BY <1>1, Zenon DEF Next, DevCall
<1>2. CASE UNCHANGED vars
  BY <1>2, Zenon DEF vars
<1> QED BY <1>1, <1>2, Zenon

(***************************************************************************)
(* tty_write puts every character into the buffer of stdout or on the      *)
(* console once and in order, and never past the buffer's end, for any     *)
(* number of writers of any texts and any size of the buffer.              *)
(***************************************************************************)
THEOREM CharactersPrinted ==
  ASSUME NoRace PROVE Spec => []ConsoleExact
<1>1. Init => ConsoleInv
  BY ConsoleInit, Zenon DEF Init
<1>2. ConsoleInv /\ [Next]_vars => ConsoleInv'
  <2> SUFFICES ASSUME ConsoleInv, [Next]_vars PROVE ConsoleInv'
    OBVIOUS
  <2>1. CASE DevNext
    BY <2>1, DevConsole, Zenon
  <2>2. CASE dv' = dv
    BY <2>2, Zenon DEF ConsoleInv, DevTypes, BufferInv, HeardInv, Stored
  <2> QED BY <2>1, <2>2, DevSteps, Zenon
<1>3. ConsoleInv => ConsoleExact
  <2> SUFFICES ASSUME ConsoleInv PROVE ConsoleExact
    OBVIOUS
  <2>1. BufferInv /\ HeardInv /\ dv.obuf \in Seq(Char)
    BY DevFields, Zenon DEF ConsoleInv
  <2>2. Len(dv.obuf) <= TTY_BUF
    <3>1. CASE \E d \in Hs : dv.h[d].mid
      BY <2>1, <3>1, Zenon DEF BufferInv, Stored
    <3>2. CASE \A d \in Hs : ~dv.h[d].mid
      <4>1. Len(dv.obuf) < TTY_BUF
        BY <2>1, <3>2, Zenon DEF BufferInv
      <4> QED BY <2>1, <4>1, DevFsAssumption
    <3> QED BY <3>1, <3>2, Zenon
  <2> QED BY <2>1, <2>2, Zenon DEF ConsoleExact, BufferInv, HeardInv
<1> QED BY <1>1, <1>2, <1>3, PTL DEF Spec

-----------------------------------------------------------------------------
(* The disks.                                                               *)

(* A sector's bytes are the ones between its first and the next sector's.   *)
LEMMA SectorBytes ==
  ASSUME NEW S \in Nat \ {0}, NEW p \in Nat, p % S = 0, NEW b \in Nat
  PROVE  /\ (b \div S) - (p \div S) \in 0 .. 0 <=> b \in p .. p + S - 1
         /\ b \in p .. p + S - 1 => b % S = b - p
<1>1. PICK q : q = p \div S
  OBVIOUS
<1>2. PICK c : c = b \div S
  OBVIOUS
<1>3. q \in Nat /\ c \in Nat /\ p = S * q /\ b = S * c + (b % S) /\ b % S \in 0 .. S - 1
  BY <1>1, <1>2
<1>4. c = q <=> b \in p .. p + S - 1
  <2>1. c < q => S * c + S <= S * q
    BY <1>3
  <2>2. c > q => S * q + S <= S * c
    BY <1>3
  <2> QED BY <2>1, <2>2, <1>3
<1> QED BY <1>1, <1>2, <1>3, <1>4

(* The assumption that every write is one whole, aligned sector.            *)
WholeSectors == {"multisector", "partial"} \cap Defects = {}

(* The only size a write then has.                                          *)
LEMMA OneSector ==
  ASSUME WholeSectors, NEW d \in Hs, NEW size \in 1 .. SECT * NSECT, BlockWrite(d, size)
  PROVE  size = SECT /\ dv.h[d].pos % SECT = 0
<1>1. "multisector" \notin Defects /\ "partial" \notin Defects
  BY DEF WholeSectors
<1>2. ~(size > SECT) /\ dv.h[d].pos % SECT = 0 /\ size % SECT = 0
  BY <1>1, Zenon DEF BlockWrite, Allowed
<1>3. SECT \in Nat \ {0} /\ size \in Nat \ {0}
  BY DevFsAssumption, SizeOfDisk
<1>4. \A s, S \in Nat \ {0} : ~(s > S) /\ s % S = 0 => s = S
  <2> SUFFICES ASSUME NEW s \in Nat \ {0}, NEW S \in Nat \ {0}, s < S PROVE s % S = s
    OBVIOUS
  <2> QED OBVIOUS
<1> QED BY <1>2, <1>3, <1>4, Zenon

SectorInv == DevTypes /\ SectorsExact

LEMMA WriteSector ==
  ASSUME SectorInv, WholeSectors, NEW d \in Hs, NEW size \in 1 .. SECT * NSECT,
         BlockWrite(d, size)
  PROVE  SectorInv'
<1>1. PICK n : n = dv.h[d].dev
  OBVIOUS
<1>2. PICK p : p = dv.h[d].pos
  OBVIOUS
<1>3. DevTypes /\ dv.disk = dv.meant
  BY Zenon DEF SectorInv, SectorsExact
<1>4. /\ Quiet(d) /\ n \in Disks /\ p \in Nat
      /\ dv'.disk = [dv.disk EXCEPT ![n] = BlockWritten(dv.disk[n], p, size, dv.n + 1)]
      /\ dv'.meant = [dv.meant EXCEPT ![n] = [b \in Bytes |->
           IF b \in p .. p + size - 1 THEN (dv.n + 1) * 10 + b - p ELSE dv.meant[n][b]]]
  BY <1>1, <1>2, <1>3, BlockWriteFields
<1>5. size = SECT /\ p % SECT = 0 /\ SECT \in Nat \ {0}
  BY <1>2, OneSector, DevFsAssumption
<1>6. dv.disk[n] \in [Bytes -> Int] /\ dv.n \in Nat
  BY <1>3, <1>4, DevFields
<1>7. PICK old : old = dv.disk[n]
  OBVIOUS
<1>8. PICK w : w = dv.n + 1
  OBVIOUS
<1>9. ASSUME NEW b \in Bytes
      PROVE  BlockWritten(old, p, size, w)[b] =
               IF b \in p .. p + size - 1 THEN w * 10 + b - p ELSE old[b]
  <2>1. b \in Nat
    BY ByteNat
  <2>2. /\ (b \div SECT) - (p \div SECT) \in 0 .. 0 <=> b \in p .. p + SECT - 1
        /\ b \in p .. p + SECT - 1 => b % SECT = b - p
    BY <1>4, <1>5, <2>1, SectorBytes, Zenon
  <2>3. (SECT - 1) \div SECT = 0 /\ SECT % SECT = 0
    BY <1>5
  <2>4. BlockWritten(old, p, size, w)[b] =
          IF (b \div SECT) - (p \div SECT) \notin 0 .. 0 THEN old[b] ELSE w * 10 + (b % SECT)
    <3>1. DOMAIN old = Bytes
      BY <1>6, <1>7
    <3>2. ((size - 1) \div SECT + 1) - 1 = 0 /\ size % SECT = 0
      BY <1>5, <2>3
    <3>3. \A i : BufPtr(i, size) = 0
      BY <3>2, Zenon DEF BufPtr
    <3>4. w \in Nat /\ b % SECT \in Nat
      BY <1>5, <1>6, <1>8, <2>1
    <3>5. w * 10 + 0 + (b % SECT) = w * 10 + (b % SECT)
      BY <3>4
    <3> QED BY <3>1, <3>2, <3>3, <3>5 DEF BlockWritten, FirstSector
  <2>5. b \in p .. p + SECT - 1 => w * 10 + (b % SECT) = w * 10 + b - p
    BY <1>4, <1>6, <1>8, <2>1, <2>2
  <2> QED BY <1>5, <2>2, <2>4, <2>5, Zenon
<1>10. BlockWritten(old, p, size, w) = [b \in Bytes |->
         IF b \in p .. p + size - 1 THEN w * 10 + b - p ELSE old[b]]
  <2>1. BlockWritten(old, p, size, w) = [b \in Bytes |-> BlockWritten(old, p, size, w)[b]]
    <3>1. DOMAIN old = Bytes
      BY <1>6, <1>7
    <3> QED BY <3>1, Zenon DEF BlockWritten
  <2> QED BY <1>9, <2>1
<1>11. dv'.disk = dv'.meant
  BY <1>3, <1>4, <1>7, <1>8, <1>10, Zenon
<1>12. DevTypes'
  BY <1>4, Zenon DEF Quiet
<1> QED BY <1>11, <1>12, Zenon DEF SectorInv, SectorsExact

LEMMA DevSectors ==
  ASSUME SectorInv, WholeSectors, DevNext
  PROVE  SectorInv'
<1>1. DevTypes /\ dv.disk = dv.meant
  BY Zenon DEF SectorInv, SectorsExact
<1>2. ASSUME DevTypes', SameDisks PROVE SectorInv'
  BY <1>1, <1>2, Zenon DEF SectorInv, SectorsExact, SameDisks
<1>3. ASSUME NEW d \in Hs, Quiet(d), SameDisks PROVE SectorInv'
  BY <1>2, <1>3, Zenon DEF Quiet
<1>4. ASSUME NEW d \in Hs, TtyPut(d) \/ TtyTest(d) PROVE SectorInv'
  <2>1. PICK c : c = Head(dv.h[d].todo)
    OBVIOUS
  <2> QED BY <1>1, <1>2, <1>4, <2>1, PutFields, TestFields, Zenon
<1>5. ASSUME NEW p, DevOpenatFull(p) PROVE SectorInv'
  BY <1>1, <1>2, <1>5, OpenatFullType, Zenon
<1>6. ASSUME NEW d \in Hs PROVE DevClose(d) \/ BlockRead(d) => SectorInv'
  BY <1>1, <1>3, <1>6, CloseType, ReadType, Zenon
<1>7. ASSUME NEW d \in Hs, NEW p, NEW flags, DevOpenat(d, p, flags) PROVE SectorInv'
  BY <1>1, <1>3, <1>7, OpenatType, Zenon
<1>8. ASSUME NEW d \in Hs, NEW text \in Texts, TtyWrite(d, text) PROVE SectorInv'
  BY <1>1, <1>3, <1>8, WriteType, Zenon
<1>9. ASSUME NEW d \in Hs, NEW off \in {0, SECT}, NEW whence, BlockLlseek(d, off, whence)
      PROVE  SectorInv'
  BY <1>1, <1>3, <1>9, LlseekType, Zenon
<1> QED BY <1>4, <1>5, <1>6, <1>7, <1>8, <1>9, WriteSector, Zenon DEF DevNext

(***************************************************************************)
(* Whatever descriptors write whole sectors to the disks, at whatever      *)
(* positions reads and seeks left them, block_write puts the data where    *)
(* the descriptor's position says and nowhere else.                        *)
(***************************************************************************)
THEOREM SectorsWhereMeant ==
  ASSUME WholeSectors PROVE Spec => []SectorsExact
<1>1. Init => SectorInv
  <2> SUFFICES ASSUME Init PROVE SectorInv
    OBVIOUS
  <2>1. DevfsInit
    BY Zenon DEF Init
  <2>2. dv.disk = dv.meant
    BY <2>1 DEF DevfsInit
  <2> QED BY <2>1, <2>2, DevInitTypes, Zenon DEF SectorInv, SectorsExact
<1>2. SectorInv /\ [Next]_vars => SectorInv'
  <2> SUFFICES ASSUME SectorInv, [Next]_vars PROVE SectorInv'
    OBVIOUS
  <2>1. CASE DevNext
    BY <2>1, DevSectors, Zenon
  <2>2. CASE dv' = dv
    BY <2>2, Zenon DEF SectorInv, DevTypes, SectorsExact
  <2> QED BY <2>1, <2>2, DevSteps, Zenon
<1>3. SectorInv => SectorsExact
  BY Zenon DEF SectorInv
<1> QED BY <1>1, <1>2, <1>3, PTL DEF Spec


-----------------------------------------------------------------------------
(* Directory names as strings: which of two is a prefix of the other.        *)
Parts == Names \cup {"dev"}
DirNames == [p : Seq(Parts), s : BOOLEAN]

LEMMA PrefixSelf == ASSUME NEW d \in DirNames PROVE IsStrPrefix(d, d)
<1>1. d.p \in Seq(Parts) /\ d.s \in BOOLEAN
  BY DEF DirNames
<1> QED BY <1>1 DEF IsStrPrefix

LEMMA LengthNat ==
  ASSUME NEW d \in DirNames
  PROVE  /\ StrLen(d) \in Nat /\ Len(d.p) \in Nat
         /\ d.s => StrLen(d) = 2 * Len(d.p) + 1
         /\ ~d.s => StrLen(d) = 2 * Len(d.p)
<1>1. PICK n \in Nat : n = Len(d.p)
  BY DEF DirNames
<1>2. d.s => StrLen(d) = 2 * n + 1
  BY <1>1, Zenon DEF StrLen
<1>3. ~d.s => StrLen(d) = 2 * n + 0
  BY <1>1, Zenon DEF StrLen
<1>4. 2 * n + 1 \in Nat /\ 2 * n \in Nat /\ 2 * n + 0 = 2 * n
  OBVIOUS
<1> QED BY <1>1, <1>2, <1>3, <1>4, Zenon

LEMMA PrefixShorter ==
  ASSUME NEW d \in DirNames, NEW q \in DirNames, IsStrPrefix(d, q)
  PROVE  StrLen(d) <= StrLen(q)
<1>1. Len(d.p) \in Nat /\ Len(q.p) \in Nat
  BY LengthNat
<1>2. Len(d.p) <= Len(q.p) /\ (d.s => Len(q.p) > Len(d.p) \/ q.s)
  BY DEF IsStrPrefix
<1>3. PICK n \in Nat, k \in Nat : n = Len(d.p) /\ k = Len(q.p)
  BY <1>1
<1> QED BY <1>2, <1>3, LengthNat

(* Of two prefixes of one string the shorter is a prefix of the longer.      *)
LEMMA PrefixesNested ==
  ASSUME NEW d \in DirNames, NEW e \in DirNames, NEW q \in DirNames,
         IsStrPrefix(d, q), IsStrPrefix(e, q), StrLen(d) <= StrLen(e)
  PROVE  IsStrPrefix(d, e)
<1>1. /\ d.p \in Seq(Parts) /\ e.p \in Seq(Parts) /\ q.p \in Seq(Parts)
      /\ d.s \in BOOLEAN /\ e.s \in BOOLEAN
  BY DEF DirNames
<1>2. Len(d.p) \in Nat /\ Len(e.p) \in Nat /\ Len(q.p) \in Nat
  BY LengthNat
<1>3. Len(d.p) <= Len(e.p) /\ (d.s => Len(e.p) > Len(d.p) \/ e.s)
  BY <1>1, <1>2, LengthNat
<1>4. \A i \in 1 .. Len(d.p) : d.p[i] = q.p[i]
  <2>1. Len(d.p) <= Len(q.p) /\ d.p = SubSeq(q.p, 1, Len(d.p))
    BY DEF IsStrPrefix
  <2> QED BY <1>1, <1>2, <2>1
<1>5. \A i \in 1 .. Len(e.p) : e.p[i] = q.p[i]
  <2>1. Len(e.p) <= Len(q.p) /\ e.p = SubSeq(q.p, 1, Len(e.p))
    BY DEF IsStrPrefix
  <2> QED BY <1>1, <1>2, <2>1
<1>6. \A i \in 1 .. Len(d.p) : d.p[i] = e.p[i]
  BY <1>2, <1>3, <1>4, <1>5
<1>7. d.p = SubSeq(e.p, 1, Len(d.p))
  <2>1. PICK n \in Nat : n = Len(d.p)
    BY <1>2
  <2>2. /\ SubSeq(e.p, 1, n) \in Seq(Parts) /\ Len(SubSeq(e.p, 1, n)) = n
        /\ \A i \in 1 .. n : SubSeq(e.p, 1, n)[i] = e.p[i]
    BY <1>1, <1>2, <1>3, <2>1
  <2> QED BY <1>1, <1>6, <2>1, <2>2
<1> QED BY <1>3, <1>7 DEF IsStrPrefix

(* Min of a set of slots is the first of them.                               *)
LEMMA FirstSlot ==
  ASSUME NEW S, S \subseteq 1 .. MPS, S # {}
  PROVE  Min(S) \in S /\ \A j \in S : Min(S) <= j
<1>1. S \in SUBSET Nat
  BY MountsAssumption
<1>2. PICK n \in S : \A m \in S : n <= m
  BY <1>1, LeastElement
<1> QED BY <1>2, Zenon DEF Min

-----------------------------------------------------------------------------
(* The mount record: the entries of the VFS and the slots of lwext4.         *)
Mps == 1 .. MPS
Entries == [dir : DirNames, fs : {"ext4", "devfs"}, dev : Devs \cup {"none"}, priv : BOOLEAN]
MountSlots == [name : DirNames, dev : Devs \cup {"none"}, on : BOOLEAN, ro : BOOLEAN]
MountTypes(m) ==
  m \in [list : SUBSET Entries, held : BOOLEAN, devs : SUBSET Devs,
         slots : [Mps -> MountSlots], state : [Devs -> {"VALID", "ERROR"}]]

(* mountpoint_find answers a mount point whenever one covers the path.       *)
LEMMA FindCovers ==
  ASSUME NEW m, MountTypes(m), NEW q \in DirNames, NEW o \in m.list, IsStrPrefix(o.dir, q)
  PROVE  /\ Find(m, q) \in m.list /\ IsStrPrefix(Find(m, q).dir, q)
         /\ \A x \in m.list : IsStrPrefix(x.dir, q) => StrLen(x.dir) <= StrLen(Find(m, q).dir)
<1> DEFINE hits == {e \in m.list : IsStrPrefix(e.dir, q)}
           lens == {StrLen(q) - StrLen(e.dir) : e \in hits}
<1>1. \A e \in m.list : e.dir \in DirNames
  BY DEF MountTypes, Entries
<1>2. \A e \in hits : StrLen(e.dir) \in Nat /\ StrLen(q) \in Nat /\ StrLen(e.dir) <= StrLen(q)
  BY <1>1, LengthNat, PrefixShorter
<1>3. lens \in SUBSET Nat /\ lens # {}
  BY <1>2
<1>4. PICK n \in lens : \A k \in lens : n <= k
  BY <1>3, LeastElement, Zenon
<1>5. PICK e \in hits : n = StrLen(q) - StrLen(e.dir)
  BY <1>4
<1>6. \A x \in hits : StrLen(x.dir) <= StrLen(e.dir)
  <2> TAKE x \in hits
  <2>1. StrLen(q) - StrLen(e.dir) <= StrLen(q) - StrLen(x.dir)
    BY <1>4, <1>5
  <2> QED BY <1>2, <2>1
<1>7. Find(m, q) = CHOOSE x \in hits : \A y \in hits : StrLen(y.dir) <= StrLen(x.dir)
  BY <1>5, Zenon DEF Find
<1>8. Find(m, q) \in hits /\ \A y \in hits : StrLen(y.dir) <= StrLen(Find(m, q).dir)
  BY <1>5, <1>6, <1>7, Zenon
<1> QED BY <1>8, Zenon

LEMMA FindNone ==
  ASSUME NEW m, MountTypes(m), NEW q \in DirNames
  PROVE  /\ ~Used(m, q) => \A e \in m.list : ~IsStrPrefix(e.dir, q) /\ e.dir # q
         /\ Find(m, q).priv => Find(m, q) \in m.list /\ IsStrPrefix(Find(m, q).dir, q)
<1>1. \A e \in m.list : e.fs # "none" /\ e.dir \in DirNames
  BY DEF MountTypes, Entries
<1>2. ASSUME ~Used(m, q), NEW e \in m.list, IsStrPrefix(e.dir, q) PROVE FALSE
  <2>1. Find(m, q) \in m.list
    BY <1>2, FindCovers
  <2> QED BY <1>1, <1>2, <2>1, Zenon DEF Used
<1>3. ASSUME ~Used(m, q), NEW e \in m.list PROVE ~IsStrPrefix(e.dir, q) /\ e.dir # q
  BY <1>2, <1>3, PrefixSelf, Zenon
<1>4. ASSUME Find(m, q).priv PROVE \E e \in m.list : IsStrPrefix(e.dir, q)
  <2>1. ASSUME ~\E e \in m.list : IsStrPrefix(e.dir, q) PROVE FALSE
    <3>1. {e \in m.list : IsStrPrefix(e.dir, q)} = {}
      BY <2>1
    <3>2. Find(m, q) = NoMount
      BY <3>1, Zenon DEF Find
    <3> QED BY <1>4, <3>2 DEF NoMount
  <2> QED BY <2>1
<1> QED BY <1>3, <1>4, FindCovers, Zenon

(***************************************************************************)
(* What the two tables keep.  While no file system was unmounted, slots    *)
(* are taken in order and never given back, and the name left in one that  *)
(* is not mounted belongs to an entry without file system: so the slot     *)
(* ext4_umount finds by name is the mounted one.                           *)
(***************************************************************************)
OneEntryEach(l) == \A e, o \in l : e.dir = o.dir => e = o
EntryMounted(l, ds, sl) ==
  \A e \in l : e.priv => e.dev \in ds /\ \E k \in Mps : sl[k].on /\ sl[k].name = e.dir
SlotListed(l, sl) ==
  \A k \in Mps : sl[k].on => \E e \in l : e.dir = sl[k].name /\ e.dev = sl[k].dev /\ e.priv
SlotsApart(sl) ==
  \A j, k \in Mps :
    sl[j].on /\ sl[k].on /\ (sl[j].name = sl[k].name \/ sl[j].dev = sl[k].dev) => j = k
SlotsOuterLast(sl) ==
  \A j, k \in Mps : sl[j].on /\ sl[k].on /\ j < k => ~IsStrPrefix(sl[j].name, sl[k].name)
DeviceListed(l, ds) == \A d \in ds : \E e \in l : e.dev = d
StateExact(sl, st) ==
  \A d \in Devs : st[d] = "ERROR" <=> \E k \in Mps : sl[k].on /\ sl[k].dev = d /\ ~sl[k].ro
OffUnlisted(l, sl) ==
  \A k \in Mps : ~sl[k].on => \E e \in l : e.dir = sl[k].name /\ ~e.priv
SlotsFilled(sl) == \A j, k \in Mps : sl[k].on /\ j < k => sl[j].on

Tables(l, ds, sl, st) ==
  /\ OneEntryEach(l) /\ EntryMounted(l, ds, sl) /\ SlotListed(l, sl) /\ SlotsApart(sl)
  /\ SlotsOuterLast(sl) /\ DeviceListed(l, ds) /\ StateExact(sl, st)
Unbroken(l, sl) == OffUnlisted(l, sl) /\ SlotsFilled(sl)

MountInv(m) ==
  /\ MountTypes(m) /\ Tables(m.list, m.devs, m.slots, m.state)
  /\ ~m.held => Unbroken(m.list, m.slots)

(* An entry whose file system could not be mounted: it stays in the list,    *)
(* its device may be registered and its name in a slot.                      *)
EntryOnly(l, ds, sl, e, ds2, sl2) ==
  /\ ~e.priv /\ \A o \in l : o.dir # e.dir
  /\ ds \subseteq ds2 /\ ds2 \subseteq ds \cup {e.dev}
  /\ \A k \in Mps : \/ sl2[k] = sl[k]
                    \/ ~sl[k].on /\ ~sl2[k].on /\ sl2[k].name = e.dir

LEMMA NotMounted ==
  ASSUME NEW l, NEW ds, NEW sl, NEW st, NEW e, NEW ds2, NEW sl2,
         Tables(l, ds, sl, st), Unbroken(l, sl), EntryOnly(l, ds, sl, e, ds2, sl2)
  PROVE  Tables(l \cup {e}, ds2, sl2, st) /\ Unbroken(l \cup {e}, sl2)
<1> USE DEF EntryOnly
<1>1. \A k \in Mps : sl2[k].on <=> sl[k].on
  OBVIOUS
<1>2. \A k \in Mps : sl[k].on => sl2[k] = sl[k]
  OBVIOUS
<1>3. OneEntryEach(l \cup {e})
  BY Zenon DEF Tables, OneEntryEach
<1>4. EntryMounted(l \cup {e}, ds2, sl2)
  BY <1>2 DEF Tables, EntryMounted
<1>5. SlotListed(l \cup {e}, sl2)
  BY <1>1, <1>2, Zenon DEF Tables, SlotListed
<1>6. SlotsApart(sl2) /\ SlotsOuterLast(sl2)
  BY <1>1, <1>2 DEF Tables, SlotsApart, SlotsOuterLast
<1>7. DeviceListed(l \cup {e}, ds2)
  BY Zenon DEF Tables, DeviceListed
<1>8. StateExact(sl2, st)
  BY <1>1, <1>2 DEF Tables, StateExact
<1>9. OffUnlisted(l \cup {e}, sl2)
  BY <1>1 DEF Unbroken, OffUnlisted
<1>10. SlotsFilled(sl2)
  BY <1>1, Zenon DEF Unbroken, SlotsFilled
<1> QED BY <1>3, <1>4, <1>5, <1>6, <1>7, <1>8, <1>9, <1>10, Zenon DEF Tables, Unbroken

(* An entry whose file system was mounted in the first free slot.            *)
EntryAndSlot(l, ds, sl, st, e, k, sl2, st2) ==
  /\ e.priv /\ e.dev \in Devs /\ e.dev \notin ds
  /\ \A o \in l : o.dir # e.dir /\ ~IsStrPrefix(o.dir, e.dir)
  /\ k \in Mps /\ ~sl[k].on /\ \A j \in Mps : ~sl[j].on => k <= j
  /\ \A j \in Mps : j # k => sl2[j] = sl[j]
  /\ sl2[k].on /\ sl2[k].name = e.dir /\ sl2[k].dev = e.dev
  /\ st \in [Devs -> {"VALID", "ERROR"}]
  /\ st2 = IF sl2[k].ro THEN st ELSE [st EXCEPT ![e.dev] = "ERROR"]

LEMMA Mounted ==
  ASSUME NEW l, NEW ds, NEW sl, NEW st, NEW e, NEW k, NEW sl2, NEW st2,
         Tables(l, ds, sl, st), Unbroken(l, sl), EntryAndSlot(l, ds, sl, st, e, k, sl2, st2)
  PROVE  Tables(l \cup {e}, ds \cup {e.dev}, sl2, st2) /\ Unbroken(l \cup {e}, sl2)
<1> USE DEF EntryAndSlot
<1>1. \A j \in Mps : j # k /\ sl2[j].on =>
        \E o \in l : o.dir = sl2[j].name /\ o.dev = sl2[j].dev /\ o.priv
  BY DEF Tables, SlotListed
<1>2. \A j \in Mps : j # k /\ sl2[j].on => /\ sl2[j].name # e.dir /\ sl2[j].dev # e.dev
                                           /\ ~IsStrPrefix(sl2[j].name, e.dir)
  <2>1. \A o \in l : o.priv => o.dev # e.dev
    BY Zenon DEF Tables, EntryMounted
  <2> QED BY <1>1, <2>1, Zenon
<1>3. \A j \in Mps : j # k /\ sl2[j].on => j < k
  BY MountsAssumption DEF Unbroken, SlotsFilled, Mps
<1>4. OneEntryEach(l \cup {e})
  BY Zenon DEF Tables, OneEntryEach
<1>5. EntryMounted(l \cup {e}, ds \cup {e.dev}, sl2)
  <2>1. ASSUME NEW o \in l, o.priv PROVE \E j \in Mps : sl2[j].on /\ sl2[j].name = o.dir
    <3>1. PICK j \in Mps : sl[j].on /\ sl[j].name = o.dir
      BY <2>1, Zenon DEF Tables, EntryMounted
    <3> QED BY <3>1, Zenon
  <2>2. \A o \in l : o.priv => o.dev \in ds
    BY Zenon DEF Tables, EntryMounted
  <2> QED BY <2>1, <2>2, Zenon DEF EntryMounted
<1>6. SlotListed(l \cup {e}, sl2)
  BY <1>1, Zenon DEF SlotListed
<1>7. SlotsApart(sl2)
  <2>1. ASSUME NEW i \in Mps, NEW j \in Mps, i # k, j # k, sl2[i].on, sl2[j].on,
               sl2[i].name = sl2[j].name \/ sl2[i].dev = sl2[j].dev
        PROVE  i = j
    <3>1. sl2[i] = sl[i] /\ sl2[j] = sl[j]
      BY <2>1, Zenon
    <3>2. \A x, y \in Mps : sl[x].on /\ sl[y].on /\ (sl[x].name = sl[y].name \/ sl[x].dev = sl[y].dev)
             => x = y
      BY Zenon DEF Tables, SlotsApart
    <3> QED BY <2>1, <3>1, <3>2, Zenon
  <2>2. ASSUME NEW j \in Mps, sl2[j].on, sl2[j].name = sl2[k].name \/ sl2[j].dev = sl2[k].dev
        PROVE  j = k
    BY <1>2, <2>2, Zenon
  <2>3. \A i, j \in Mps : sl2[i].on /\ sl2[j].on /\ (sl2[i].name = sl2[j].name \/ sl2[i].dev = sl2[j].dev)
           => i = j
    <3> SUFFICES ASSUME NEW i \in Mps, NEW j \in Mps, sl2[i].on, sl2[j].on,
                        sl2[i].name = sl2[j].name \/ sl2[i].dev = sl2[j].dev
                 PROVE  i = j
      BY Zenon
    <3>1. CASE i = k
      BY <2>2, <3>1
    <3>2. CASE j = k
      BY <2>2, <3>2, Zenon
    <3> QED BY <2>1, <3>1, <3>2, Zenon
  <2> QED BY <2>3, Zenon DEF SlotsApart
<1>8. SlotsOuterLast(sl2)
  <2> SUFFICES ASSUME NEW i \in Mps, NEW j \in Mps, sl2[i].on, sl2[j].on, i < j
               PROVE  ~IsStrPrefix(sl2[i].name, sl2[j].name)
    BY Zenon DEF SlotsOuterLast
  <2>1. CASE i = k
    <3>1. j < k
      BY <1>3, <2>1 DEF Mps
    <3> QED BY <2>1, <3>1 DEF Mps
  <2>2. CASE i # k /\ j = k
    BY <1>2, <2>2, Zenon
  <2>3. CASE i # k /\ j # k
    <3>1. sl2[i] = sl[i] /\ sl2[j] = sl[j]
      BY <2>3, Zenon
    <3>2. \A x, y \in Mps : sl[x].on /\ sl[y].on /\ x < y => ~IsStrPrefix(sl[x].name, sl[y].name)
      BY Zenon DEF Tables, SlotsOuterLast
    <3> QED BY <3>1, <3>2, Zenon
  <2> QED BY <2>1, <2>2, <2>3, Zenon
<1>9. DeviceListed(l \cup {e}, ds \cup {e.dev})
  BY Zenon DEF Tables, DeviceListed
<1>10. StateExact(sl2, st2)
  <2> SUFFICES ASSUME NEW d \in Devs
               PROVE  st2[d] = "ERROR" <=> \E j \in Mps : sl2[j].on /\ sl2[j].dev = d /\ ~sl2[j].ro
    BY Zenon DEF StateExact
  <2>1. st[d] = "ERROR" <=> \E j \in Mps : sl[j].on /\ sl[j].dev = d /\ ~sl[j].ro
    BY Zenon DEF Tables, StateExact
  <2>2. st[d] = "ERROR" <=> \E j \in Mps : j # k /\ sl2[j].on /\ sl2[j].dev = d /\ ~sl2[j].ro
    BY <2>1, Zenon
  <2>3. CASE d = e.dev
    <3>1. st[d] # "ERROR"
      BY <1>2, <2>2, <2>3, Zenon
    <3>2. st2[d] = IF sl2[k].ro THEN st[d] ELSE "ERROR"
      BY <2>3
    <3> QED BY <1>2, <2>3, <3>1, <3>2, Zenon
  <2>4. CASE d # e.dev
    <3>1. st2[d] = st[d]
      BY <2>4
    <3> QED BY <2>2, <2>4, <3>1, Zenon
  <2> QED BY <2>3, <2>4
<1>11. OffUnlisted(l \cup {e}, sl2)
  BY Zenon DEF Unbroken, OffUnlisted
<1>12. SlotsFilled(sl2)
  <2> SUFFICES ASSUME NEW i \in Mps, NEW j \in Mps, sl2[j].on, i < j PROVE sl2[i].on
    BY Zenon DEF SlotsFilled
  <2>1. j <= k
    BY <1>3 DEF Mps
  <2>2. i # k /\ i < k
    BY <2>1, MountsAssumption DEF Mps
  <2>3. sl[i].on
    BY <2>2, MountsAssumption DEF Mps
  <2> QED BY <2>2, <2>3, Zenon
<1> QED BY <1>4, <1>5, <1>6, <1>7, <1>8, <1>9, <1>10, <1>11, <1>12, ZenonT(40) DEF Tables, Unbroken

(* mount and kernel_mount keep the tables.                                   *)
LEMMA MountKeeps ==
  ASSUME NEW m, MountInv(m), ~m.held, NEW dev \in Devs, NEW dir \in DirNames, NEW sb
  PROVE  MountInv(Mount(m, dev, dir, sb))
<1> DEFINE e == [dir |-> dir, fs |-> "ext4", dev |-> dev, priv |-> FALSE]
           p == [e EXCEPT !.priv = TRUE]
           n == [m EXCEPT !.list = @ \cup {e}]
           r == Ext4FsMount(n, dev, dir, sb)
<1>1. /\ MountTypes(m) /\ Tables(m.list, m.devs, m.slots, m.state)
      /\ Unbroken(m.list, m.slots)
  BY Zenon DEF MountInv
<1>2. /\ m.list \in SUBSET Entries /\ m.devs \in SUBSET Devs /\ m.held = FALSE
      /\ m.slots \in [Mps -> MountSlots] /\ m.state \in [Devs -> {"VALID", "ERROR"}]
  BY <1>1 DEF MountTypes
<1>3. CASE Used(m, dir)
  BY <1>3, Zenon DEF Mount
<1>4. CASE ~Used(m, dir)
  <2>1. \A o \in m.list : o.dir # dir /\ ~IsStrPrefix(o.dir, dir)
    BY <1>1, <1>4, FindNone, Zenon
  <2>2. e \in Entries /\ p \in Entries
    BY Zenon DEF Entries
  <2>3. /\ n.list = m.list \cup {e} /\ n.held = FALSE /\ n.devs = m.devs
        /\ n.slots = m.slots /\ n.state = m.state /\ MountTypes(n)
    BY <1>1, <1>2, <2>2, Zenon DEF MountTypes
  <2>4. \A o \in m.list : o.dir # e.dir
    BY <2>1
  <2>5. ASSUME NEW x, MountTypes(x), x.list = m.list \cup {e}, x.held = FALSE, x.state = m.state,
               m.devs \subseteq x.devs, x.devs \subseteq m.devs \cup {dev},
               \A k \in Mps : \/ x.slots[k] = m.slots[k]
                              \/ ~m.slots[k].on /\ ~x.slots[k].on /\ x.slots[k].name = dir
        PROVE  MountInv(x)
    <3>1. ~e.priv /\ e.dev = dev /\ e.dir = dir
      OBVIOUS
    <3> HIDE DEF e
    <3>2. Tables(m.list \cup {e}, x.devs, x.slots, m.state) /\ Unbroken(m.list \cup {e}, x.slots)
      <4>1. x.devs \subseteq m.devs \cup {e.dev}
        BY <2>5, <3>1, Zenon
      <4>2. \A k \in Mps : \/ x.slots[k] = m.slots[k]
                           \/ ~m.slots[k].on /\ ~x.slots[k].on /\ x.slots[k].name = e.dir
        BY <2>5, <3>1, Zenon
      <4>3. EntryOnly(m.list, m.devs, m.slots, e, x.devs, x.slots)
        BY <2>4, <2>5, <3>1, <4>1, <4>2, Zenon DEF EntryOnly
      <4> QED BY <1>1, <4>3, NotMounted, Zenon
    <3> QED BY <2>5, <3>2, Zenon DEF MountInv
  <2>6. CASE ~Register(n, dev).ok
    <3>1. Register(n, dev) = [m |-> n, ok |-> FALSE]
      BY <2>6 DEF Register
    <3>2. r = [m |-> n, ok |-> FALSE]
      BY <2>6, <3>1, Zenon DEF Ext4FsMount
    <3>3. r.m = n /\ ~r.ok
      BY <3>2
    <3>4. Mount(m, dev, dir, sb) = n
      BY <1>4, <3>3, Zenon DEF Mount
    <3>5. MountInv(n)
      BY <2>3, <2>5, Zenon
    <3> QED BY <3>4, <3>5, Zenon
  <2>7. CASE Register(n, dev).ok
    <3> DEFINE g == [n EXCEPT !.devs = @ \cup {dev}]
    <3>1. dev \notin m.devs /\ Register(n, dev) = [m |-> g, ok |-> TRUE]
      BY <2>3, <2>7 DEF Register
    <3>2. r = Ext4Mount(g, dev, dir, sb)
      <4>1. Register(n, dev).m = g
        BY <3>1
      <4> QED BY <2>7, <4>1, Zenon DEF Ext4FsMount
    <3>3. /\ g.list = m.list \cup {e} /\ g.held = FALSE /\ g.devs = m.devs \cup {dev}
          /\ g.slots = m.slots /\ g.state = m.state /\ MountTypes(g)
      BY <1>2, <2>3, Zenon DEF MountTypes
    <3>4. MountInv(g)
      BY <2>5, <3>3, Zenon
    <3> DEFINE off == {k \in Mps : ~m.slots[k].on}
               same == {j \in Mps : m.slots[j].on /\ m.slots[j].name = dir}
               k == Min(off)
               fs == FsInit(sb)
    <3>5. same = {}
      BY <1>1, <2>1, Zenon DEF Tables, SlotListed
    <3>6. CASE ~dir.s \/ off = {}
      <4>1. r = [m |-> g, ok |-> FALSE]
        BY <3>2, <3>3, <3>5, <3>6, Zenon DEF Ext4Mount, Mps
      <4>2. r.m = g /\ ~r.ok
        BY <4>1
      <4>3. Mount(m, dev, dir, sb) = g
        BY <1>4, <4>2, Zenon DEF Mount
      <4> QED BY <3>4, <4>3, Zenon
    <3>7. CASE ~(~dir.s \/ off = {})
      <4> DEFINE slot == [name |-> dir, dev |-> dev, on |-> fs # "bad", ro |-> fs = "ro"]
                 x == [g EXCEPT !.slots[k] = slot,
                                !.state[dev] = IF fs = "rw" THEN "ERROR" ELSE @]
      <4>1. r = [m |-> x, ok |-> fs # "bad"]
        BY <3>2, <3>3, <3>5, <3>7, Zenon DEF Ext4Mount, Mps
      <4> HIDE DEF k, fs
      <4>2. r.m = x /\ (r.ok <=> fs # "bad")
        <5> HIDE DEF x, r
        <5> QED BY <4>1, Zenon
      <4>3. k \in Mps /\ ~m.slots[k].on /\ \A j \in Mps : ~m.slots[j].on => k <= j
        <5> USE DEF k
        <5>1. off \subseteq 1 .. MPS /\ off # {}
          BY <3>7, Zenon DEF Mps
        <5>2. k \in off /\ \A j \in off : k <= j
          BY <5>1, FirstSlot, Zenon
        <5> QED BY <5>2, Zenon
      <4>4. slot \in MountSlots
        BY DEF MountSlots
      <4>5. /\ x.list = m.list \cup {e} /\ x.held = FALSE /\ x.devs = m.devs \cup {dev}
            /\ x.slots = [m.slots EXCEPT ![k] = slot]
            /\ x.state = [m.state EXCEPT ![dev] = IF fs = "rw" THEN "ERROR" ELSE @]
            /\ DOMAIN x = {"list", "held", "devs", "slots", "state"}
        BY <3>3 DEF MountTypes
      <4>6. /\ x.slots \in [Mps -> MountSlots] /\ x.state \in [Devs -> {"VALID", "ERROR"}]
            /\ x.slots[k] = slot /\ \A j \in Mps : j # k => x.slots[j] = m.slots[j]
        BY <1>2, <4>3, <4>4, <4>5
      <4>7. MountTypes(x)
        BY <3>3, <4>6, Zenon DEF MountTypes
      <4>8. CASE fs = "bad"
        <5>1. Mount(m, dev, dir, sb) = x
          BY <1>4, <4>2, <4>8, Zenon DEF Mount
        <5>2. x.state = m.state
          <6> HIDE DEF x
          <6>1. fs # "rw"
            BY <4>8
          <6>2. \A d \in Devs : x.state[d] = m.state[d]
            BY <1>2, <4>5, <6>1
          <6> QED BY <1>2, <4>6, <6>2
        <5>3. ~x.slots[k].on /\ x.slots[k].name = dir
          <6>1. slot.name = dir /\ (slot.on <=> fs # "bad")
            BY Zenon
          <6> HIDE DEF x, slot
          <6> QED BY <4>6, <4>8, <6>1, Zenon
        <5>4. \A j \in Mps : \/ x.slots[j] = m.slots[j]
                             \/ ~m.slots[j].on /\ ~x.slots[j].on /\ x.slots[j].name = dir
          BY <4>3, <4>6, <5>3, Zenon
        <5>5. m.devs \subseteq x.devs /\ x.devs \subseteq m.devs \cup {dev}
          BY <4>5, Zenon
        <5> HIDE DEF x
        <5> QED BY <2>5, <4>5, <4>7, <5>1, <5>2, <5>4, <5>5, Zenon
      <4>9. CASE fs # "bad"
        <5> DEFINE y == [x EXCEPT !.list = (@ \ {e}) \cup {p}]
        <5>1. p.priv /\ p.dev = dev /\ p.dir = dir
          OBVIOUS
        <5>2. Mount(m, dev, dir, sb) = y
          <6>1. Mount(m, dev, dir, sb) = [r.m EXCEPT !.list = (@ \ {e}) \cup {p}]
            BY <1>4, <4>2, <4>9, Zenon DEF Mount
          <6> QED BY <4>2, <6>1, Zenon
        <5>3. e \notin m.list
          BY <2>4, Zenon
        <5> HIDE DEF x
        <5>4. /\ y.list = (x.list \ {e}) \cup {p} /\ y.held = x.held /\ y.devs = x.devs
              /\ y.slots = x.slots /\ y.state = x.state
          BY <4>7 DEF MountTypes
        <5>5. y.list = m.list \cup {p}
          BY <4>5, <5>3, <5>4, Zenon
        <5>6. MountTypes(y)
          BY <1>2, <2>2, <4>7, <5>5, Zenon DEF MountTypes
        <5>8. x.slots[k].on /\ x.slots[k].name = p.dir /\ x.slots[k].dev = p.dev /\ (x.slots[k].ro <=> fs = "ro")
          <6>1. slot.name = dir /\ slot.dev = dev /\ (slot.on <=> fs # "bad") /\ (slot.ro <=> fs = "ro")
            BY Zenon
          <6> HIDE DEF slot, p
          <6> QED BY <4>6, <4>9, <5>1, <6>1, Zenon
        <5>9. x.state = IF x.slots[k].ro THEN m.state ELSE [m.state EXCEPT ![dev] = "ERROR"]
          <6>1. fs \in {"bad", "ro", "rw"}
            BY DEF fs, FsInit, CheckFeatures
          <6>2. CASE fs = "rw"
            BY <4>5, <5>8, <6>2
          <6>3. CASE fs = "ro"
            BY <1>2, <4>5, <5>8, <6>3
          <6> QED BY <4>9, <6>1, <6>2, <6>3
        <5> HIDE DEF p, y
        <5>10. Tables(m.list \cup {p}, m.devs \cup {p.dev}, x.slots, x.state)
               /\ Unbroken(m.list \cup {p}, x.slots)
          <6>1. \A o \in m.list : o.dir # p.dir /\ ~IsStrPrefix(o.dir, p.dir)
            BY <2>1, <5>1, Zenon
          <6>2. x.state = IF x.slots[k].ro THEN m.state ELSE [m.state EXCEPT ![p.dev] = "ERROR"]
            BY <5>1, <5>9, Zenon
          <6>3. p.dev \in Devs /\ p.dev \notin m.devs
            BY <3>1, <5>1, Zenon
          <6>4. EntryAndSlot(m.list, m.devs, m.slots, m.state, p, k, x.slots, x.state)
            BY <1>2, <4>3, <4>6, <5>1, <5>8, <6>1, <6>2, <6>3, Zenon DEF EntryAndSlot
          <6> QED BY <1>1, <6>4, Mounted, Zenon
        <5>11. MountInv(y)
          BY <4>5, <5>4, <5>5, <5>6, <5>1, <5>10, Zenon DEF MountInv
        <5> QED BY <5>2, <5>11, Zenon
      <4> QED BY <4>8, <4>9, Zenon
    <3> QED BY <3>6, <3>7, Zenon
  <2> QED BY <2>6, <2>7, Zenon
<1> QED BY <1>3, <1>4, Zenon

(* umount2 keeps them too: it takes out the slot that holds the file system, *)
(* and only that one.                                                        *)
SlotFreed(l, sl, st, e, k, sl2, st2) ==
  /\ e \in l /\ e.priv /\ k \in Mps /\ sl[k].on /\ sl[k].name = e.dir
  /\ ~sl2[k].on /\ \A j \in Mps : j # k => sl2[j] = sl[j]
  /\ st \in [Devs -> {"VALID", "ERROR"}]
  /\ st2 = IF sl[k].ro THEN st ELSE [st EXCEPT ![sl[k].dev] = "VALID"]

LEMMA Unmounted ==
  ASSUME NEW l, NEW ds, NEW sl, NEW st, NEW e, NEW k, NEW sl2, NEW st2,
         Tables(l, ds, sl, st), SlotFreed(l, sl, st, e, k, sl2, st2)
  PROVE  Tables(l \ {e}, ds \ {e.dev}, sl2, st2)
<1> USE DEF SlotFreed
<1>1. \A o \in l : o.dir = e.dir => o = e
  BY Zenon DEF Tables, OneEntryEach
<1>2. \A j \in Mps : sl[j].on =>
        \E o \in l : o.dir = sl[j].name /\ o.dev = sl[j].dev /\ o.priv
  BY Zenon DEF Tables, SlotListed
<1>3. sl[k].dev = e.dev
  BY <1>1, <1>2, ZenonT(40)
<1>4. \A i, j \in Mps : sl[i].on /\ sl[j].on /\ (sl[i].name = sl[j].name \/ sl[i].dev = sl[j].dev) => i = j
  BY Zenon DEF Tables, SlotsApart
<1>5. \A j \in Mps : sl2[j].on => j # k /\ sl2[j] = sl[j]
  BY Zenon
<1>6. \A j \in Mps : sl2[j].on => sl2[j].name # e.dir /\ sl2[j].dev # e.dev
  <2> TAKE j \in Mps
  <2> HAVE sl2[j].on
  <2>1. j # k /\ sl2[j] = sl[j] /\ sl[j].on
    BY <1>5, Zenon
  <2> QED BY <1>3, <1>4, <2>1, Zenon
<1>7. OneEntryEach(l \ {e})
  BY Zenon DEF Tables, OneEntryEach
<1>8. EntryMounted(l \ {e}, ds \ {e.dev}, sl2)
  <2> SUFFICES ASSUME NEW o \in l \ {e}, o.priv
               PROVE  o.dev \in ds \ {e.dev} /\ \E j \in Mps : sl2[j].on /\ sl2[j].name = o.dir
    BY Zenon DEF EntryMounted
  <2>1. o \in l /\ o # e /\ o.dev \in ds
    BY Zenon DEF Tables, EntryMounted
  <2>2. PICK j \in Mps : sl[j].on /\ sl[j].name = o.dir
    BY <2>1, Zenon DEF Tables, EntryMounted
  <2>3. j # k
    BY <1>1, <2>1, <2>2, Zenon
  <2>4. sl2[j] = sl[j]
    BY <2>3, Zenon
  <2>5. PICK x \in l : x.dir = sl[j].name /\ x.dev = sl[j].dev
    BY <1>2, <2>2, Zenon
  <2>6. x = o
    BY <2>1, <2>2, <2>5, Zenon DEF Tables, OneEntryEach
  <2>7. o.dev # e.dev
    BY <1>6, <2>2, <2>4, <2>5, <2>6, Zenon
  <2> QED BY <2>1, <2>2, <2>4, <2>7, Zenon
<1>9. SlotListed(l \ {e}, sl2)
  <2> SUFFICES ASSUME NEW j \in Mps, sl2[j].on
               PROVE  \E o \in l \ {e} : o.dir = sl2[j].name /\ o.dev = sl2[j].dev /\ o.priv
    BY Zenon DEF SlotListed
  <2>1. sl2[j] = sl[j]
    BY <1>5, Zenon
  <2>2. PICK o \in l : o.dir = sl2[j].name /\ o.dev = sl2[j].dev /\ o.priv
    BY <1>2, <2>1, Zenon
  <2>3. o # e
    BY <1>6, <2>2, Zenon
  <2> QED BY <2>2, <2>3, Zenon
<1>10. SlotsApart(sl2)
  <2> SUFFICES ASSUME NEW i \in Mps, NEW j \in Mps, sl2[i].on, sl2[j].on,
                      sl2[i].name = sl2[j].name \/ sl2[i].dev = sl2[j].dev
               PROVE  i = j
    BY Zenon DEF SlotsApart
  <2>1. sl2[i] = sl[i] /\ sl2[j] = sl[j]
    BY <1>5, Zenon
  <2> QED BY <1>4, <2>1, Zenon
<1>11. SlotsOuterLast(sl2)
  <2> SUFFICES ASSUME NEW i \in Mps, NEW j \in Mps, sl2[i].on, sl2[j].on, i < j
               PROVE  ~IsStrPrefix(sl2[i].name, sl2[j].name)
    BY Zenon DEF SlotsOuterLast
  <2>1. sl2[i] = sl[i] /\ sl2[j] = sl[j]
    BY <1>5, Zenon
  <2>2. \A x, y \in Mps : sl[x].on /\ sl[y].on /\ x < y => ~IsStrPrefix(sl[x].name, sl[y].name)
    BY Zenon DEF Tables, SlotsOuterLast
  <2> QED BY <2>1, <2>2, Zenon
<1>12. DeviceListed(l \ {e}, ds \ {e.dev})
  BY Zenon DEF Tables, DeviceListed
<1>13. StateExact(sl2, st2)
  <2> SUFFICES ASSUME NEW d \in Devs
               PROVE  st2[d] = "ERROR" <=> \E j \in Mps : sl2[j].on /\ sl2[j].dev = d /\ ~sl2[j].ro
    BY Zenon DEF StateExact
  <2>1. st[d] = "ERROR" <=> \E j \in Mps : sl[j].on /\ sl[j].dev = d /\ ~sl[j].ro
    BY Zenon DEF Tables, StateExact
  <2>2. CASE d = e.dev
    <3>1. st2[d] # "ERROR"
      <4>1. CASE sl[k].ro
        <5>1. ASSUME st[d] = "ERROR" PROVE FALSE
          <6>1. PICK j \in Mps : sl[j].on /\ sl[j].dev = d /\ ~sl[j].ro
            BY <2>1, <5>1, Zenon
          <6>2. j = k
            BY <1>3, <1>4, <2>2, <6>1, Zenon
          <6> QED BY <4>1, <6>1, <6>2, Zenon
        <5> QED BY <4>1, <5>1, Zenon
      <4>2. CASE ~sl[k].ro
        BY <1>3, <2>2, <4>2
      <4> QED BY <4>1, <4>2, Zenon
    <3> QED BY <1>6, <2>2, <3>1, Zenon
  <2>3. CASE d # e.dev
    <3>1. st2[d] = st[d]
      BY <1>3, <2>3
    <3>2. \A j \in Mps : sl[j].on /\ sl[j].dev = d => sl2[j] = sl[j]
      BY <1>3, <2>3, Zenon
    <3> QED BY <1>5, <2>1, <3>1, <3>2, Zenon
  <2> QED BY <2>2, <2>3, Zenon
<1> QED BY <1>7, <1>8, <1>9, <1>10, <1>11, <1>12, <1>13, Zenon DEF Tables

LEMMA UmountKeeps ==
  ASSUME NEW m, MountInv(m), ~m.held, NEW q \in DirNames, Find(m, q).priv
  PROVE  MountInv(Umount(m, q))
<1>1. /\ MountTypes(m) /\ Tables(m.list, m.devs, m.slots, m.state)
      /\ Unbroken(m.list, m.slots)
  BY Zenon DEF MountInv
<1>2. /\ m.list \in SUBSET Entries /\ m.devs \in SUBSET Devs
      /\ m.slots \in [Mps -> MountSlots] /\ m.state \in [Devs -> {"VALID", "ERROR"}]
  BY <1>1 DEF MountTypes
<1>3. PICK e \in m.list : e = Find(m, q) /\ e.priv
  BY <1>1, FindNone, Zenon
<1> DEFINE named == {j \in Mps : m.slots[j].name = e.dir}
<1>4. PICK k : k = Min(named)
  BY Zenon
<1>5. k \in Mps /\ m.slots[k].name = e.dir
  <2>1. named \subseteq 1 .. MPS /\ named # {}
    BY <1>1, <1>3, Zenon DEF Tables, EntryMounted, Mps
  <2> QED BY <1>4, <2>1, FirstSlot, Zenon
<1>6. m.slots[k].on
  <2>1. ASSUME ~m.slots[k].on PROVE FALSE
    <3>1. PICK o \in m.list : o.dir = m.slots[k].name /\ ~o.priv
      BY <1>1, <1>5, <2>1, Zenon DEF Unbroken, OffUnlisted
    <3>2. o = e
      BY <1>1, <1>3, <1>5, <3>1, Zenon DEF Tables, OneEntryEach
    <3> QED BY <1>3, <3>1, <3>2, Zenon
  <2> QED BY <2>1, Zenon
<1>7. PICK slot : slot = m.slots[k]
  OBVIOUS
<1> DEFINE a == [m EXCEPT !.slots[k].on = FALSE]
           b == FsFini(a, slot)
           c == [b EXCEPT !.devs = @ \ {e.dev}]
           x == [c EXCEPT !.list = @ \ {e}, !.held = TRUE]
<1>8. Umount(m, q) = x
  <2>1. k = Min({j \in 1 .. MPS : m.slots[j].name = e.dir})
    BY <1>4, Zenon DEF Mps
  <2>2. Ext4Umount(m, e.dir) = b
    BY <1>7, <2>1, Zenon DEF Ext4Umount
  <2>3. Ext4FsUmount(m, e) = c
    BY <2>2, Zenon DEF Ext4FsUmount, Unregister
  <2> QED BY <1>3, <2>3, Zenon DEF Umount
<1>9. slot \in MountSlots /\ (slot.on <=> TRUE) /\ slot.dev \in Devs \cup {"none"}
  <2>1. slot \in MountSlots
    BY <1>2, <1>5, <1>7
  <2> QED BY <1>6, <1>7, <2>1 DEF MountSlots
<1>10. /\ MountTypes(a) /\ a.list = m.list /\ a.devs = m.devs /\ a.state = m.state
       /\ a.slots = [m.slots EXCEPT ![k].on = FALSE]
  <2>1. [m.slots EXCEPT ![k].on = FALSE] \in [Mps -> MountSlots]
    BY <1>2, <1>5, ZenonT(40) DEF MountSlots
  <2>2. /\ a.list = m.list /\ a.devs = m.devs /\ a.state = m.state /\ a.held = m.held
        /\ a.slots = [m.slots EXCEPT ![k].on = FALSE]
    BY <1>1 DEF MountTypes
  <2> QED BY <1>1, <2>1, <2>2, Zenon DEF MountTypes
<1>11. /\ ~a.slots[k].on /\ \A j \in Mps : j # k => a.slots[j] = m.slots[j]
  BY <1>2, <1>5, <1>10 DEF MountSlots
<1> HIDE DEF a
<1>12. slot.dev \in Devs
  <2>1. PICK o \in m.list : o.dev = slot.dev /\ o.priv
    BY <1>1, <1>5, <1>6, <1>7, Zenon DEF Tables, SlotListed
  <2>2. o.dev \in m.devs
    BY <1>1, <2>1, Zenon DEF Tables, EntryMounted
  <2> QED BY <1>2, <2>1, <2>2, Zenon
<1>13. /\ MountTypes(b) /\ b.list = m.list /\ b.devs = m.devs /\ b.slots = a.slots
       /\ b.state = IF slot.ro THEN m.state ELSE [m.state EXCEPT ![slot.dev] = "VALID"]
  <2>1. CASE slot.ro
    BY <1>10, <2>1, Zenon DEF FsFini
  <2>2. CASE ~slot.ro
    <3>1. b = [a EXCEPT !.state[slot.dev] = "VALID"]
      BY <2>2, Zenon DEF FsFini
    <3> HIDE DEF b
    <3>2. /\ b.list = a.list /\ b.devs = a.devs /\ b.slots = a.slots
          /\ b.state = [a.state EXCEPT ![slot.dev] = "VALID"]
      BY <1>10, <3>1 DEF MountTypes
    <3>3. MountTypes(b)
      BY <1>10, <1>12, <3>1 DEF MountTypes
    <3> QED BY <1>10, <2>2, <3>2, <3>3, Zenon
  <2> QED BY <2>1, <2>2, Zenon
<1> HIDE DEF b
<1>14. /\ MountTypes(c) /\ c.list = m.list /\ c.devs = m.devs \ {e.dev} /\ c.slots = a.slots
       /\ c.state = b.state
  BY <1>2, <1>13 DEF MountTypes
<1> HIDE DEF c
<1>15. /\ MountTypes(x) /\ x.list = m.list \ {e} /\ x.devs = m.devs \ {e.dev} /\ x.slots = a.slots
       /\ x.state = b.state /\ x.held = TRUE
  BY <1>2, <1>14, Zenon DEF MountTypes
<1> HIDE DEF x
<1>16. Tables(m.list \ {e}, m.devs \ {e.dev}, a.slots, b.state)
  <2>1. b.state = IF m.slots[k].ro THEN m.state ELSE [m.state EXCEPT ![m.slots[k].dev] = "VALID"]
    BY <1>7, <1>13, Zenon
  <2>2. SlotFreed(m.list, m.slots, m.state, e, k, a.slots, b.state)
    BY <1>2, <1>3, <1>5, <1>6, <1>11, <2>1, Zenon DEF SlotFreed
  <2> QED BY <1>1, <2>2, Unmounted, Zenon
<1> QED BY <1>8, <1>15, <1>16, Zenon DEF MountInv

(* With the tables in order the two resolvers find the same file system: of  *)
(* the slots that cover a path the first is the innermost.                   *)
LEMMA SameFileSystem ==
  ASSUME NEW m, MountInv(m), NEW q \in DirNames, Find(m, q).priv
  PROVE  GetMount(m, q).name = Find(m, q).dir /\ GetMount(m, q).dev = Find(m, q).dev
<1>1. MountTypes(m) /\ Tables(m.list, m.devs, m.slots, m.state)
  BY Zenon DEF MountInv
<1>2. \A k \in Mps : m.slots[k].name \in DirNames
  BY <1>1 DEF MountTypes, MountSlots
<1>3. \A o \in m.list : o.dir \in DirNames
  BY <1>1 DEF MountTypes, Entries
<1>4. PICK e \in m.list : e = Find(m, q) /\ e.priv /\ IsStrPrefix(e.dir, q)
  BY <1>1, FindNone, Zenon
<1>5. \A o \in m.list : IsStrPrefix(o.dir, q) => StrLen(o.dir) <= StrLen(e.dir)
  BY <1>1, <1>4, FindCovers, Zenon
<1>6. PICK k \in Mps : m.slots[k].on /\ m.slots[k].name = e.dir
  BY <1>1, <1>4, Zenon DEF Tables, EntryMounted
<1>7. m.slots[k].dev = e.dev
  BY <1>1, <1>4, <1>6, Zenon DEF Tables, SlotListed, OneEntryEach
<1> DEFINE hits == {j \in Mps : m.slots[j].on /\ IsStrPrefix(m.slots[j].name, q)}
<1>8. PICK n : n = Min(hits)
  BY Zenon
<1>9. n \in hits /\ n <= k
  <2>1. hits \subseteq 1 .. MPS /\ k \in hits
    BY <1>4, <1>6, Zenon DEF Mps
  <2> QED BY <1>8, <2>1, FirstSlot, Zenon
<1>10. n = k
  <2>1. ASSUME n # k PROVE FALSE
    <3>1. n < k
      BY <1>9, <2>1 DEF Mps
    <3>2. PICK o \in m.list : o.dir = m.slots[n].name
      BY <1>1, <1>9, Zenon DEF Tables, SlotListed
    <3>3. StrLen(m.slots[n].name) <= StrLen(m.slots[k].name)
      BY <1>5, <1>6, <1>9, <3>2, Zenon
    <3>4. IsStrPrefix(m.slots[n].name, q) /\ IsStrPrefix(m.slots[k].name, q)
      BY <1>4, <1>6, <1>9, Zenon
    <3>5. IsStrPrefix(m.slots[n].name, m.slots[k].name)
      BY <1>2, <1>9, <3>3, <3>4, PrefixesNested, Zenon
    <3> QED BY <1>1, <1>6, <1>9, <3>1, <3>5, Zenon DEF Tables, SlotsOuterLast
  <2> QED BY <2>1, Zenon
<1>11. hits # {} /\ GetMount(m, q) = m.slots[k]
  BY <1>8, <1>9, <1>10, Zenon DEF GetMount, Mps
<1> QED BY <1>4, <1>6, <1>7, <1>11, Zenon

(* What vfilesys_init leaves, devfs alone, is in order.                      *)
LEMMA BootTables == MountInv(VfilesysInit)
<1> DEFINE e == [dir |-> DevDir, fs |-> "devfs", dev |-> "none", priv |-> FALSE]
           m == VfilesysInit
<1>1. DevDir \in DirNames
  <2>1. <<"dev">> \in Seq(Parts)
    BY DEF Parts
  <2> QED BY <2>1 DEF DevDir, DirNames
<1>2. e \in Entries /\ NoSlot \in MountSlots
  BY <1>1 DEF Entries, MountSlots, NoSlot
<1>3. /\ m.list = {e} /\ m.held = FALSE /\ m.devs = {}
      /\ m.slots = [k \in Mps |-> NoSlot] /\ m.state = [d \in Devs |-> "VALID"]
  BY DEF VfilesysInit, Mps
<1>4. MountTypes(m)
  BY <1>2 DEF MountTypes, VfilesysInit, Mps
<1>5. \A k \in Mps : ~m.slots[k].on /\ m.slots[k].name = DevDir
  BY <1>3 DEF NoSlot
<1>6. e.dir = DevDir /\ ~e.priv
  OBVIOUS
<1>7. \A d \in Devs : m.state[d] # "ERROR"
  BY <1>3
<1> HIDE DEF e, m
<1>8. OneEntryEach(m.list) /\ EntryMounted(m.list, m.devs, m.slots) /\ DeviceListed(m.list, m.devs)
  BY <1>3, <1>6 DEF OneEntryEach, EntryMounted, DeviceListed
<1>9. SlotListed(m.list, m.slots) /\ SlotsApart(m.slots) /\ SlotsOuterLast(m.slots)
  BY <1>5, Zenon DEF SlotListed, SlotsApart, SlotsOuterLast
<1>10. StateExact(m.slots, m.state)
  BY <1>5, <1>7, Zenon DEF StateExact
<1>11. OffUnlisted(m.list, m.slots)
  BY <1>3, <1>5, <1>6 DEF OffUnlisted
<1>12. SlotsFilled(m.slots)
  BY <1>5, Zenon DEF SlotsFilled
<1>13. MountInv(m)
  BY <1>4, <1>8, <1>9, <1>10, <1>11, <1>12, Zenon DEF MountInv, Tables, Unbroken
<1> QED BY <1>13 DEF m

-----------------------------------------------------------------------------
(* The steps of the calls on files, by what they do to the mount points and  *)
(* the working directory.                                                    *)
Rest == UNCHANGED <<mnt, cwd, work>>

LEMMA CallSteps ==
  ASSUME [Next]_vars
  PROVE  \/ Rest
         \/ \E p \in CwdPaths : Chdir(p)
         \/ \E dev \in Devs, dir \in MountDirs, sb \in Sbs : MountCall(dev, dir, sb)
         \/ \E dir \in MountDirs : Umount2(dir)
<1>1. ASSUME NEW r, NEW g, NameCallGiven(r, g) PROVE Rest
  BY <1>1, Zenon DEF NameCallGiven, Rest
<1>2. ASSUME NEW r, NameCall(r) PROVE Rest
  BY <1>1, <1>2, Zenon DEF NameCall
<1>3. ASSUME IoCall PROVE Rest
  BY <1>3, Zenon DEF IoCall, Rest
<1>4. ASSUME NEW p, Symlinkat(p) \/ Mknod(p) \/ Unlinkat(p) \/ Rmdir(p) PROVE Rest
  BY <1>2, <1>4, Zenon DEF Symlinkat, Mknod, Unlinkat, Rmdir
<1>5. ASSUME NEW p, Mkdirat(p) PROVE Rest
  BY <1>1, <1>5, Zenon DEF Mkdirat
<1>6. ASSUME NEW p, NEW a, Setattr(p, a) PROVE Rest
  BY <1>6, Zenon DEF Setattr, Rest
<1>7. ASSUME NEW p, NEW q, Linkat(p, q) \/ Rename(p, q) PROVE Rest
  BY <1>2, <1>7, Zenon DEF Linkat, Rename
<1>8. ASSUME NEW d, NEW p, NEW flags, Openat(d, p, flags) PROVE Rest
  BY <1>2, <1>8, Zenon DEF Openat, Rest
<1>9. ASSUME NEW d, NEW n, SysRead(d, n) \/ Close(d) PROVE Rest
  BY <1>3, <1>9, Zenon DEF SysRead, Close
<1>10. ASSUME NEW d, NEW n, NEW pick, SysWrite(d, n, pick) PROVE Rest
  BY <1>3, <1>10, Zenon DEF SysWrite
<1>11. ASSUME NEW d, NEW off, NEW whence, Lseek(d, off, whence) PROVE Rest
  BY <1>3, <1>11, Zenon DEF Lseek
<1>12. ASSUME NEW p, NEW len, Truncate64(p, len) PROVE Rest
  BY <1>2, <1>3, <1>12, Zenon DEF Truncate64
<1>13. ASSUME AcquireHeld \/ DevCall \/ UNCHANGED vars PROVE Rest
  BY <1>13, Zenon DEF AcquireHeld, DevCall, vars, fileVars, Rest
<1>14. CASE FileCall
  BY <1>4, <1>5, <1>6, <1>7, <1>8, <1>9, <1>10, <1>11, <1>12, <1>13, <1>14, Zenon DEF FileCall
<1> QED BY <1>13, <1>14, Zenon DEF Next

(* The tables after boot, with or without a root file system.               *)
LEMMA MountInitially == Init => MountInv(mnt)
<1> SUFFICES ASSUME Init PROVE MountInv(mnt)
  OBVIOUS
<1>1. PICK sb : \/ mnt = VfilesysInit
                \/ mnt = Mount(VfilesysInit, CHOOSE d \in Devs : TRUE, Slash, sb)
  BY Zenon DEF Init
<1>2. (CHOOSE d \in Devs : TRUE) \in Devs
  BY MountsAssumption, Zenon
<1>3. Slash \in DirNames
  <2>1. <<>> \in Seq(Parts)
    OBVIOUS
  <2> QED BY <2>1 DEF Slash, DirNames
<1>4. ~VfilesysInit.held
  BY DEF VfilesysInit
<1> QED BY <1>1, <1>2, <1>3, <1>4, BootTables, MountKeeps, Zenon

LEMMA MountNext == MountInv(mnt) /\ [Next]_vars => MountInv(mnt')
<1> SUFFICES ASSUME MountInv(mnt), [Next]_vars PROVE MountInv(mnt')
  OBVIOUS
<1>1. MountDirs \subseteq DirNames
  BY VfsAssumption, Zenon DEF DirNames, Parts
<1>2. CASE mnt' = mnt
  BY <1>2, Zenon
<1>3. ASSUME NEW dev \in Devs, NEW dir \in MountDirs, NEW sb \in Sbs, MountCall(dev, dir, sb)
      PROVE  MountInv(mnt')
  BY <1>1, <1>3, MountKeeps, Zenon DEF MountCall
<1>4. ASSUME NEW dir \in MountDirs, Umount2(dir) PROVE MountInv(mnt')
  BY <1>1, <1>4, UmountKeeps, Zenon DEF Umount2
<1> QED BY <1>2, <1>3, <1>4, CallSteps, Zenon DEF Rest, Chdir

LEMMA MountAgrees == MountInv(mnt) => TablesAgree
<1> SUFFICES ASSUME MountInv(mnt) PROVE TablesAgree
  OBVIOUS
<1>1. Tables(mnt.list, mnt.devs, mnt.slots, mnt.state)
  BY Zenon DEF MountInv
<1>2. ASSUME NEW e \in mnt.list, e.priv
      PROVE  /\ e.dev \in mnt.devs
             /\ Cardinality({k \in 1 .. MPS : mnt.slots[k].on /\ mnt.slots[k].name = e.dir}) = 1
  <2>1. PICK k \in Mps : mnt.slots[k].on /\ mnt.slots[k].name = e.dir
    BY <1>1, <1>2, Zenon DEF Tables, EntryMounted
  <2>2. \A j \in Mps : mnt.slots[j].on /\ mnt.slots[j].name = e.dir => j = k
    BY <1>1, <2>1, Zenon DEF Tables, SlotsApart
  <2>3. {j \in Mps : mnt.slots[j].on /\ mnt.slots[j].name = e.dir} = {k}
    BY <2>1, <2>2
  <2>4. Cardinality({k}) = 1
    BY FinSingle, Zenon
  <2>5. e.dev \in mnt.devs
    BY <1>1, <1>2, Zenon DEF Tables, EntryMounted
  <2> QED BY <2>3, <2>4, <2>5, Zenon DEF Mps
<1>3. SlotListed(mnt.list, mnt.slots) /\ DeviceListed(mnt.list, mnt.devs)
      /\ StateExact(mnt.slots, mnt.state)
  BY <1>1, Zenon DEF Tables
<1> QED BY <1>2, <1>3, Zenon DEF TablesAgree, SlotListed, DeviceListed, StateExact, Mps

(* The inductive invariant of the mount points, as a state predicate.       *)
MountsSound == MountInv(mnt)

(***************************************************************************)
(* The two tables of mount points agree after any calls of mount and       *)
(* umount2, of any devices on any directories.                             *)
(***************************************************************************)
THEOREM MountTablesAgree == Spec => []TablesAgree
<1>1. Init => MountsSound
  BY MountInitially, Zenon DEF MountsSound
<1>2. MountsSound /\ [Next]_vars => MountsSound'
  BY MountNext, Zenon DEF MountsSound
<1>3. MountsSound => TablesAgree
  BY MountAgrees, Zenon DEF MountsSound
<1> QED BY <1>1, <1>2, <1>3, PTL DEF Spec

-----------------------------------------------------------------------------
(* The working directory is one chdir was given.                             *)
Cwds == CwdPaths \cup {<<"/">>}
PathInv == MountsSound /\ cwd \in Cwds /\ work \in Workloads

LEMMA CwdEnds ==
  ASSUME NEW c \in Cwds
  PROVE  /\ c \in Seq(Names \cup {"/"}) /\ c # <<>>
         /\ c[Len(c)] = "/" <=> c = <<"/">>
<1>1. <<"/">> \in Seq(Names \cup {"/"}) /\ <<"/">> # <<>> /\ <<"/">>[Len(<<"/">>)] = "/"
  OBVIOUS
<1>2. CASE c = <<"/">>
  BY <1>1, <1>2, Zenon
<1>3. CASE c \in CwdPaths
  BY <1>1, <1>3, VfsAssumption, Zenon
<1> QED BY <1>2, <1>3, Zenon DEF Cwds

(* fullpath_connect on one name: one turn of its loop.                       *)
LEMMA OneName ==
  ASSUME NEW n \in Names, NEW c \in Cwds
  PROVE  FullpathConnect(<<n>>, c) = (IF c = <<"/">> THEN <<>> ELSE c) \o <<"/", n>>
<1> DEFINE start == IF c[Len(c)] = "/" THEN c ELSE Append(c, "/")
           path == <<n>>
           dot(k) == path[k] = "." /\ k < Len(path)
           Body(f) == [k \in 0 .. Len(path) |->
                         IF k = 0 THEN start
                         ELSE LET full == f[k - 1]
                              IN  IF path[k] = "/" \/ dot(k) THEN full
                                  ELSE IF path[k] = ".." THEN SubSeq(full, 1, Strip(full, Len(full)))
                                  ELSE Append(full, path[k])]
           w == CHOOSE f : f = Body(f)
           g == [k \in 0 .. 1 |-> IF k = 0 THEN start ELSE Append(start, n)]
<1>1. FullpathConnect(<<n>>, c) = w[Len(path)]
  BY DEF FullpathConnect
<1>2. Len(path) = 1 /\ path[1] = n /\ ~dot(1) /\ n # "/" /\ n # ".."
  BY VfsAssumption
<1>3. c \in Seq(Names \cup {"/"}) /\ (c[Len(c)] = "/" <=> c = <<"/">>)
  BY CwdEnds, Zenon
<1> HIDE DEF start, path, dot
<1>4. ASSUME NEW f PROVE Body(f) = [k \in 0 .. 1 |-> IF k = 0 THEN start ELSE Append(f[0], n)]
  <2>1. \A k \in 0 .. 1 : Body(f)[k] = IF k = 0 THEN start ELSE Append(f[0], n)
    <3>1. Body(f)[0] = start
      BY <1>2
    <3>2. Body(f)[1] = Append(f[0], n)
      BY <1>2
    <3> HIDE DEF Body
    <3>3. 1 # 0 /\ \A k \in 0 .. 1 : k = 0 \/ k = 1
      OBVIOUS
    <3> QED BY <3>1, <3>2, <3>3, Zenon
  <2> QED BY <1>2, <2>1
<1> HIDE DEF Body
<1>5. g = Body(g)
  <2>1. g[0] = start
    OBVIOUS
  <2> QED BY <1>4, <2>1, Zenon
<1>6. w = Body(w)
  BY <1>5, Zenon
<1> HIDE DEF w
<1>7. w = [k \in 0 .. 1 |-> IF k = 0 THEN start ELSE Append(w[0], n)]
  BY <1>4, <1>6, Zenon
<1>8. w[0] = start /\ w[1] = Append(w[0], n)
  BY <1>7
<1>9. FullpathConnect(<<n>>, c) = Append(start, n)
  BY <1>1, <1>2, <1>8, Zenon
<1>10. Append(start, n) = (IF c = <<"/">> THEN <<>> ELSE c) \o <<"/", n>>
  <2>1. CASE c = <<"/">>
    <3>1. start = <<"/">>
      BY <1>3, <2>1, Zenon DEF start
    <3>2. Append(<<"/">>, n) = <<>> \o <<"/", n>>
      <4>1. PICK a : a = Append(<<"/">>, n)
        BY Zenon
      <4>2. PICK b : b = <<>> \o <<"/", n>>
        BY Zenon
      <4>3. a \in Seq(Names \cup {"/"}) /\ Len(a) = 2 /\ a[1] = "/" /\ a[2] = n
        BY <4>1
      <4>4. b \in Seq(Names \cup {"/"}) /\ Len(b) = 2 /\ b[1] = "/" /\ b[2] = n
        BY <4>2
      <4>5. a = b
        BY <4>3, <4>4
      <4> QED BY <4>1, <4>2, <4>5, Zenon
    <3> QED BY <2>1, <3>1, <3>2, Zenon
  <2>2. CASE c # <<"/">>
    <3>1. start = Append(c, "/")
      BY <1>3, <2>2, Zenon DEF start
    <3>2. Append(Append(c, "/"), n) = c \o <<"/", n>>
      <4>1. c \in Seq(Names \cup {"/"})
        BY <1>3, Zenon
      <4> QED BY <4>1
    <3> QED BY <2>2, <3>1, <3>2, Zenon
  <2> QED BY <2>1, <2>2, Zenon
<1> QED BY <1>9, <1>10, Zenon

LEMMA PathInitially == Init => PathInv
<1> SUFFICES ASSUME Init PROVE PathInv
  OBVIOUS
<1>1. cwd = <<"/">> /\ work \in Workloads
  BY Zenon DEF Init
<1> QED BY <1>1, MountInitially, Zenon DEF PathInv, MountsSound, Cwds

LEMMA PathNext == PathInv /\ [Next]_vars => PathInv'
<1> SUFFICES ASSUME PathInv, [Next]_vars PROVE PathInv'
  OBVIOUS
<1>1. MountsSound'
  BY MountNext, Zenon DEF PathInv, MountsSound
<1>2. cwd' \in Cwds /\ work' \in Workloads
  <2>1. CASE Rest
    BY <2>1, Zenon DEF PathInv, Rest
  <2>2. ASSUME NEW p \in CwdPaths, Chdir(p) PROVE cwd' \in Cwds /\ work' \in Workloads
    BY <2>2, Zenon DEF PathInv, Chdir, Cwds
  <2>3. ASSUME NEW dev, NEW dir, NEW sb, MountCall(dev, dir, sb) \/ Umount2(dir)
        PROVE  cwd' \in Cwds /\ work' \in Workloads
    BY <2>3, Zenon DEF PathInv, MountCall, Umount2
  <2> QED BY <2>1, <2>2, <2>3, CallSteps, Zenon
<1> QED BY <1>1, <1>2, Zenon DEF PathInv

(***************************************************************************)
(* Every path leads to one file system and one name: mountpoint_find and   *)
(* ext4_get_mount answer the same mount, and fullpath_connect puts a plain *)
(* name below the working directory.                                       *)
(***************************************************************************)
THEOREM EveryPathResolved == Spec => []PathsResolved
<1>1. PathInv => PathsResolved
  <2> SUFFICES ASSUME PathInv PROVE PathsResolved
    OBVIOUS
  <2>1. ASSUME NEW p \in work.paths
        PROVE  LET q == [p |-> p, s |-> p = <<>>]
                   e == Find(mnt, q)
               IN  e.priv => GetMount(mnt, q).name = e.dir /\ GetMount(mnt, q).dev = e.dev
    <3> DEFINE q == [p |-> p, s |-> p = <<>>]
    <3>1. p \in Seq(Names)
      BY VfsAssumption, Zenon DEF PathInv
    <3>2. p \in Seq(Parts)
      BY <3>1 DEF Parts
    <3>3. q \in DirNames
      BY <3>2 DEF DirNames
    <3> HIDE DEF q
    <3>4. Find(mnt, q).priv => GetMount(mnt, q).name = Find(mnt, q).dir
                               /\ GetMount(mnt, q).dev = Find(mnt, q).dev
      BY <3>3, SameFileSystem, Zenon DEF PathInv, MountsSound
    <3> QED BY <3>4, Zenon DEF q
  <2>2. ResolversAgree
    BY <2>1, Zenon DEF ResolversAgree
  <2>3. NameBelowCwd
    BY OneName, Zenon DEF NameBelowCwd, PathInv
  <2> QED BY <2>2, <2>3, Zenon DEF PathsResolved
<1> QED BY <1>1, PathInitially, PathNext, PTL DEF Spec

-----------------------------------------------------------------------------
(* A path that is only looked up: ext4_generic_open2 without O_CREAT changes *)
(* nothing.  The walk along the path is a recursive function; it exists, by  *)
(* induction on the part of the path that was walked.                        *)
LEMMA WalkKeeps ==
  ASSUME NEW tr, NEW path, Len(path) \in Nat, NEW ftype, NEW fault
  PROVE  Open2(tr, path, FALSE, ftype, fault).t = tr
<1> DEFINE N == Len(path)
           Step(w, k) == IF w.err # "EOK" THEN w ELSE OpenStep(w, path, k, FALSE, ftype, fault)
           start == Done(tr, Root, Root)
           Walks(f, n) == f = [k \in 0 .. n |-> IF k = 0 THEN start ELSE Step(f[k - 1], k)]
           Walk == CHOOSE f : Walks(f, N)
<1>1. start.t = tr /\ \A e : Fail(tr, e).t = tr
  BY DEF Done, Fail
<1>2. ASSUME NEW w, NEW k PROVE Step(w, k).t = w.t
  <2>1. \A e, a, b : Fail(w.t, e).t = w.t /\ Done(w.t, a, b).t = w.t
    BY DEF Done, Fail
  <2>2. ASSUME NEW x, NEW goal, x.t = w.t PROVE Checked(x, goal, ftype).t = w.t
    BY <2>1, <2>2, Zenon DEF Checked
  <2>3. \A n, goal, what : FindStep(w, n, goal, ftype, FALSE, what).t = w.t
    BY <2>1, <2>2, Zenon DEF FindStep
  <2>4. OpenStep(w, path, k, FALSE, ftype, fault).t = w.t
    <3>1. PICK goal : goal = (k = Len(path))
      OBVIOUS
    <3>2. PICK what : what = IF fault[1] = k THEN fault[2] ELSE "none"
      OBVIOUS
    <3>3. OpenStep(w, path, k, FALSE, ftype, fault) = FindStep(w, path[k], goal, ftype, FALSE, what)
      BY <3>1, <3>2 DEF OpenStep
    <3> QED BY <2>3, <3>3, Zenon
  <2> QED BY <2>4, Zenon
<1>3. \/ Open2(tr, path, FALSE, ftype, fault) = Walk[N]
      \/ \E e : Open2(tr, path, FALSE, ftype, fault) = Fail(tr, e)
  BY Zenon DEF Open2
<1>4. N \in Nat
  OBVIOUS
<1> HIDE DEF N, Step, start
<1>5. \A n \in 0 .. N : \E f : Walks(f, n)
  <2> DEFINE T == {n \in 0 .. N : ~\E f : Walks(f, n)}
  <2>1. ASSUME T # {} PROVE FALSE
    <3>1. T \in SUBSET Nat
      BY <1>4
    <3>2. PICK n \in T : \A m \in T : n <= m
      BY <2>1, <3>1, LeastElement, Zenon
    <3>3. n # 0
      <4> DEFINE f == [k \in 0 .. 0 |-> start]
      <4>1. \A k \in 0 .. 0 : k = 0
        OBVIOUS
      <4>2. Walks(f, 0)
        BY <4>1, Zenon
      <4> QED BY <3>2, <4>2, Zenon
    <3>4. n \in Nat /\ n - 1 \in 0 .. N /\ n - 1 < n
      BY <1>4, <3>2, <3>3
    <3>5. PICK f : Walks(f, n - 1)
      <4>1. ~(n <= n - 1)
        BY <3>4
      <4> QED BY <3>2, <3>4, <4>1, Zenon
    <3> DEFINE g == [k \in 0 .. n |-> IF k < n THEN f[k] ELSE Step(f[n - 1], n)]
    <3>6. \A k \in 0 .. n - 1 : f[k] = IF k = 0 THEN start ELSE Step(f[k - 1], k)
      BY <3>5
    <3>7. \A k \in 0 .. n - 1 : g[k] = f[k]
      BY <3>4
    <3>8. g[n] = Step(f[n - 1], n) /\ g[n - 1] = f[n - 1]
      BY <3>4
    <3>9. g = [k \in 0 .. n |-> g[k]]
      OBVIOUS
    <3> HIDE DEF g
    <3>10. \A k \in 0 .. n : g[k] = IF k = 0 THEN start ELSE Step(g[k - 1], k)
      <4> TAKE k \in 0 .. n
      <4>1. CASE k = n
        BY <3>3, <3>8, <4>1, Zenon
      <4>2. CASE k # n /\ k = 0
        <5>1. k \in 0 .. n - 1
          BY <3>4, <4>2
        <5> QED BY <3>6, <3>7, <4>2, <5>1, Zenon
      <4>3. CASE k # n /\ k # 0
        <5>1. k \in 0 .. n - 1 /\ k - 1 \in 0 .. n - 1
          BY <3>4, <4>3
        <5> QED BY <3>6, <3>7, <4>3, <5>1, Zenon
      <4> QED BY <4>1, <4>2, <4>3, Zenon
    <3>11. Walks(g, n)
      BY <3>9, <3>10, Zenon
    <3> QED BY <3>2, <3>11, Zenon
  <2> QED BY <2>1, Zenon
<1>6. Walks(Walk, N)
  <2>1. N \in 0 .. N
    BY <1>4
  <2> QED BY <1>5, <2>1, Zenon
<1> HIDE DEF Walk
<1>7. \A k \in 0 .. N : Walk[k] = IF k = 0 THEN start ELSE Step(Walk[k - 1], k)
  BY <1>6, Zenon
<1>8. \A k \in 0 .. N : Walk[k].t = tr
  <2> DEFINE T == {k \in 0 .. N : Walk[k].t # tr}
  <2>1. ASSUME T # {} PROVE FALSE
    <3>1. T \in SUBSET Nat
      BY <1>4
    <3>2. PICK k \in T : \A m \in T : k <= m
      BY <2>1, <3>1, LeastElement, Zenon
    <3>3. k \in 0 .. N /\ Walk[k].t # tr
      BY <3>2
    <3>4. k # 0
      BY <1>1, <1>7, <3>3, Zenon
    <3>5. k - 1 \in 0 .. N /\ ~(k <= k - 1)
      BY <1>4, <3>3, <3>4
    <3>6. Walk[k - 1].t = tr
      BY <3>2, <3>5, Zenon
    <3>7. Walk[k] = Step(Walk[k - 1], k)
      BY <1>7, <3>3, <3>4, Zenon
    <3> QED BY <1>2, <3>3, <3>6, <3>7, Zenon
  <2> QED BY <2>1, Zenon
<1>9. N \in 0 .. N
  BY <1>4
<1> QED BY <1>1, <1>3, <1>8, <1>9, Zenon

(* The assumption that nobody opens a file with O_TRUNC on a read-only file  *)
(* system.                                                                   *)
NoTruncOnRo == "rotrunc" \notin Defects

(* Every call on a read-only file system leaves it as it was.                *)
LEMMA ReadOnlyCalls ==
  ASSUME t.ro
  PROVE  /\ \A r : Writable(t, r).t = t /\ Writable(t, r).err # "EOK"
         /\ \A p, a, v : SetAttr(t, p, a, v).t = t
         /\ \A p, m, fault : Ext4Mkdir(t, p, m, fault).t = t
         /\ \A f, n, byte, pick : Write(t, f, n, byte, pick).t = t
         /\ \A f, len : Ext4Truncate(t, f, len).err # "EOK"
<1>1. \A r : Writable(t, r) = Fail(t, "EROFS")
  BY Zenon DEF Writable
<1>2. Fail(t, "EROFS").t = t /\ Fail(t, "EROFS").err # "EOK"
  BY DEF Fail
<1>3. \A p, a, v : SetAttr(t, p, a, v).t = t
  BY <1>1, <1>2, Zenon DEF SetAttr
<1>4. \A p, m, fault : Ext4Mkdir(t, p, m, fault).t = t
  <2>1. ASSUME NEW p, NEW fault PROVE DirMk(t, p, fault) = Fail(t, "EROFS")
    <3>1. PICK r : DirMk(t, p, fault) = Writable(t, r)
      BY Zenon DEF DirMk
    <3> QED BY <1>1, <3>1, Zenon
  <2> QED BY <1>2, <2>1, Zenon DEF Ext4Mkdir, MadeMode
<1>5. \A f, n, byte, pick : Write(t, f, n, byte, pick).t = t
  <2>1. ASSUME NEW f, NEW n, NEW byte, NEW pick PROVE Write(t, f, n, byte, pick).t = t
    <3>1. PICK s : s = FSeek(f, f.pos, "SET")
      OBVIOUS
    <3>2. Write(t, f, n, byte, pick) = [err |-> "FAIL", t |-> t, f |-> s.f, cnt |-> 0]
      BY <3>1, Zenon DEF Write, WriteFrom
    <3> QED BY <3>2
  <2> QED BY <2>1, Zenon
<1>6. \A f, len : Ext4Truncate(t, f, len).err # "EOK"
  <2>1. \A f, len : Ext4Truncate(t, f, len) = [err |-> "EROFS", t |-> t]
    BY Zenon DEF Ext4Truncate
  <2> QED BY <2>1
<1> QED BY <1>1, <1>2, <1>3, <1>4, <1>5, <1>6, Zenon

(* openat: with O_CREAT it fails, without it the path is only looked up.     *)
LEMMA ReadOnlyOpen ==
  ASSUME t.ro, NEW d, NEW p, Len(p) \in Nat, NEW flags, NoTruncOnRo, Openat(d, p, flags)
  PROVE  t' = t
<1> DEFINE o == Ext4Openat(t, p, flags, MODE)
<1>0. PICK c \in BOOLEAN : c = ("CREAT" \in flags)
  <2>1. ("CREAT" \in flags) \in BOOLEAN
    OBVIOUS
  <2> QED BY <2>1, Zenon
<1>1. PICK w : w = Open2(t, p, c, "FILE", NoFault)
  OBVIOUS
<1>2. w.t = t /\ ("CREAT" \in flags => w.err # "EOK")
  <2>1. CASE c = TRUE
    <3>1. w = Fail(t, "EROFS")
      BY <1>1, <2>1, Zenon DEF Open2
    <3> QED BY <3>1 DEF Fail
  <2>2. CASE c = FALSE
    <3>1. w = Open2(t, p, FALSE, "FILE", NoFault)
      BY <1>1, <2>2, Zenon
    <3>2. w.t = t
      BY <3>1, WalkKeeps, Zenon
    <3> QED BY <1>0, <2>2, <3>2, Zenon
  <2> QED BY <2>1, <2>2, Zenon
<1>3. PICK x : x = OpenFound(w, p, flags)
  OBVIOUS
<1>4. o = OpenedMode(x, p, flags, MODE)
  BY <1>0, <1>1, <1>3, Zenon DEF Ext4Openat, FOpen2
<1>5. ASSUME w.err # "EOK" PROVE o = x /\ x.t = t /\ x.err # "EOK"
  <2>1. x = [err |-> w.err, t |-> w.t, f |-> NoFile]
    BY <1>3, <1>5, Zenon DEF OpenFound
  <2>2. x.t = t /\ x.err # "EOK"
    BY <1>2, <1>5, <2>1
  <2> QED BY <1>4, <2>2, Zenon DEF OpenedMode
<1>6. ASSUME w.err = "EOK", "TRUNC" \notin flags PROVE o = x /\ x.t = t
  <2>1. x = OpenFile(w.t, w, p, flags)
    BY <1>3, <1>6, Zenon DEF OpenFound
  <2>2. x.t = w.t
    BY <2>1 DEF OpenFile
  <2> QED BY <1>2, <1>4, <1>6, <2>2, Zenon DEF OpenedMode
<1>7. ASSUME w.err = "EOK", "TRUNC" \in flags PROVE FALSE
  <2>1. x.err = "EOK"
    <3>1. PICK new : x = OpenFile(new, w, p, flags)
      BY <1>3, <1>7, Zenon DEF OpenFound
    <3> QED BY <3>1 DEF OpenFile
  <2>2. o = x
    BY <1>2, <1>4, <1>7, Zenon DEF OpenedMode
  <2>3. Allowed("rotrunc")
    BY <1>7, <2>1, <2>2, Zenon DEF Openat
  <2> QED BY <2>3, Zenon DEF Allowed, NoTruncOnRo
<1>8. t' = o.t
  BY Zenon DEF Openat, NameCall, NameCallGiven
<1> QED BY <1>5, <1>6, <1>7, <1>8, Zenon

LEMMA ReadOnlyStep ==
  ASSUME PathInv, NoTruncOnRo, t.ro, [Next]_vars
  PROVE  t' = t
<1>1. \A p \in work.paths : Len(p) \in Nat
  <2>1. \A p \in work.paths : p \in Seq(Names)
    BY VfsAssumption, Zenon DEF PathInv
  <2> QED BY <2>1
<1>2. \A r : Writable(t, r).t = t
  BY ReadOnlyCalls, Zenon
<1>3. ASSUME NEW r, NameCall(Writable(t, r)) PROVE t' = t
  BY <1>2, <1>3, Zenon DEF NameCall, NameCallGiven
<1>4. ASSUME NEW p, Symlinkat(p) \/ Mknod(p) PROVE t' = t
  BY <1>3, <1>4, Zenon DEF Symlinkat, Mknod, FSymlink, MkNod
<1>5. ASSUME NEW p, Unlinkat(p) \/ Rmdir(p) PROVE t' = t
  BY <1>3, <1>5, Zenon DEF Unlinkat, Rmdir, FRemove, DirRm
<1>6. ASSUME NEW p, Mkdirat(p) PROVE t' = t
  <2>1. PICK fault, g : NameCallGiven(Ext4Mkdir(t, p, MODE, fault), g)
    BY <1>6, Zenon DEF Mkdirat
  <2> QED BY <2>1, ReadOnlyCalls, Zenon DEF NameCallGiven
<1>7. ASSUME NEW p, NEW a, Setattr(p, a) PROVE t' = t
  <2>1. PICK v : t' = (CASE a = "mode" -> ModeSet(t, p, v)
                         [] a = "owner" -> OwnerSet(t, p, v)
                         [] OTHER -> TimeSet(t, p, a, v)).t
    BY <1>7 DEF Setattr
  <2>2. ModeSet(t, p, v).t = t /\ OwnerSet(t, p, v).t = t /\ TimeSet(t, p, a, v).t = t
    BY ReadOnlyCalls, Zenon DEF ModeSet, OwnerSet, TimeSet
  <2> QED BY <2>1, <2>2
<1>8. ASSUME NEW p, NEW q, Linkat(p, q) \/ Rename(p, q) PROVE t' = t
  BY <1>3, <1>8, Zenon DEF Linkat, Rename, FLink, FRename
<1>9. ASSUME NEW d, NEW n, SysRead(d, n) \/ Close(d) PROVE t' = t
  BY <1>9, Zenon DEF SysRead, Close
<1>10. ASSUME NEW d, NEW n, NEW pick, SysWrite(d, n, pick) PROVE t' = t
  BY <1>10, ReadOnlyCalls, Zenon DEF SysWrite
<1>11. ASSUME NEW d, NEW off, NEW whence, Lseek(d, off, whence) PROVE t' = t
  BY <1>11, Zenon DEF Lseek
<1>12. ASSUME NEW p, NEW len, Truncate64(p, len) PROVE t' = t
  <2>1. NameCall(Fail(t, "FAIL"))
    BY <1>12, ReadOnlyCalls, Zenon DEF Truncate64
  <2>2. Fail(t, "FAIL").t = t
    BY DEF Fail
  <2> QED BY <2>1, <2>2, Zenon DEF NameCall, NameCallGiven
<1>13. ASSUME NEW p, Chdir(p) PROVE t' = t
  BY <1>13, Zenon DEF Chdir
<1>14. ASSUME NEW dev, NEW dir, NEW sb, MountCall(dev, dir, sb) \/ Umount2(dir) PROVE t' = t
  BY <1>14, Zenon DEF MountCall, Umount2
<1>15. ASSUME AcquireHeld \/ DevCall \/ UNCHANGED vars PROVE t' = t
  BY <1>15, Zenon DEF AcquireHeld, DevCall, vars, fileVars
<1>16. ASSUME NEW d, NEW p \in work.paths, NEW flags, Openat(d, p, flags) PROVE t' = t
  BY <1>1, <1>16, ReadOnlyOpen, Zenon
<1>17. CASE FileCall
  BY <1>4, <1>5, <1>6, <1>7, <1>8, <1>9, <1>10, <1>11, <1>12, <1>13, <1>14, <1>15, <1>16, <1>17,
     Zenon DEF FileCall
<1> QED BY <1>15, <1>17, Zenon DEF Next

(***************************************************************************)
(* A file system that lwext4 mounted read-only never changes, whatever     *)
(* calls are made on it: the EROFS checks of ext4.c, of which O_TRUNC      *)
(* without O_CREAT has none.                                               *)
(***************************************************************************)
THEOREM ReadOnlyNeverWritten ==
  ASSUME NoTruncOnRo PROVE Spec => ReadOnlyKeeps
<1>1. PathInv /\ [Next]_vars => [t.ro => t' = t]_vars
  BY ReadOnlyStep, Zenon
<1> QED BY <1>1, PathInitially, PathNext, PTL DEF Spec, ReadOnlyKeeps
=============================================================================

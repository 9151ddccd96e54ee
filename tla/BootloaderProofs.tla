---------------------------- MODULE BootloaderProofs ----------------------------
(***************************************************************************)
(* Proofs about the flash that the bootloader programs: its state keeps    *)
(* its types, and the pages hold what was sent for them.  The host's script *)
(* is taken apart first, command by command.  And about the messages: what  *)
(* is acted on was sent.                                                    *)
(***************************************************************************)
EXTENDS MCBootloader, TLAPS, SequenceTheorems, WellFoundedInduction

(* The constants. *)
LEMMA BootBounds ==
  /\ AppEnd \in Nat /\ ImageSize \in Nat \ {0} /\ MaxLostAnswers \in Nat /\ ImageSize <= AppEnd
  /\ ImageSize + MaxLostAnswers <= AppEnd
BY BootloaderAssumption DEF Flash!BootConstants

(* One sequence after another, by the length of the first.                   *)
LEMMA Joined ==
  ASSUME NEW C, NEW s \in Seq(C), NEW t \in Seq(C)
  PROVE  /\ s \o t \in Seq(C) /\ Len(s \o t) = Len(s) + Len(t)
         /\ \A i \in 1 .. Len(s) : (s \o t)[i] = s[i]
         /\ \A i \in 1 .. Len(t) : (s \o t)[Len(s) + i] = t[i]
<1>1. /\ s \o t \in Seq(C) /\ Len(s \o t) = Len(s) + Len(t)
      /\ \A i \in 1 .. Len(s) + Len(t) : (s \o t)[i] = IF i <= Len(s) THEN s[i] ELSE t[i - Len(s)]
  BY ConcatProperties
<1>0. Len(s) \in Nat /\ Len(t) \in Nat
  OBVIOUS
<1>2. \A i \in 1 .. Len(s) : i \in 1 .. Len(s) + Len(t) /\ i <= Len(s)
  BY <1>0
<1>3. \A i \in 1 .. Len(t) :
        /\ Len(s) + i \in 1 .. Len(s) + Len(t) /\ ~(Len(s) + i <= Len(s))
        /\ Len(s) + i - Len(s) = i
  BY <1>0
<1> QED BY <1>1, <1>2, <1>3

(* The host's script, command by command. *)
LEMMA ScriptCommands ==
  /\ Len(Flash!Script) = 2 * ImageSize + 5
  /\ Flash!Script[1] = <<"sign on", 0>>
  /\ Flash!Script[2] = <<"erase", 0>> /\ Flash!Script[3] = <<"load", 0>>
  /\ \A i \in 1 .. ImageSize : Flash!Script[3 + i] = <<"program", i - 1>>
  /\ Flash!Script[ImageSize + 4] = <<"load", 0>>
  /\ Flash!Script[2 * ImageSize + 5] = <<"leave", 0>>
  /\ \A i \in 1 .. ImageSize : Flash!Script[ImageSize + 4 + i] = <<"read", i - 1>>
<1> DEFINE x == <<"sign on", 0>>
           y == <<"erase", 0>>
           z == <<"load", 0>>
           v == <<"leave", 0>>
           b == [p \in 1 .. ImageSize |-> <<"program", p - 1>>]
           d == [p \in 1 .. ImageSize |-> <<"read", p - 1>>]
           C == {x, y, z, v} \cup {b[p] : p \in 1 .. ImageSize} \cup {d[p] : p \in 1 .. ImageSize}
<1>1. x \in C /\ y \in C /\ z \in C /\ v \in C
  OBVIOUS
<1>2. b \in [1 .. ImageSize -> C] /\ d \in [1 .. ImageSize -> C]
  OBVIOUS
<1>3. \A i \in 1 .. ImageSize : b[i] = <<"program", i - 1>> /\ d[i] = <<"read", i - 1>>
  OBVIOUS
<1>4. Flash!Script = <<x, y, z>> \o b \o <<z>> \o d \o <<v>>
  BY DEF Flash!Script
<1>5. ImageSize \in Nat
  BY BootBounds
<1>6. x = <<"sign on", 0>> /\ y = <<"erase", 0>> /\ z = <<"load", 0>> /\ v = <<"leave", 0>>
  OBVIOUS
<1> HIDE DEF x, y, z, v, b, d, C
<1> DEFINE a == <<x, y, z>>
           c == <<z>>
           e == <<v>>
           ab == a \o b
           abc == ab \o c
           abcd == abc \o d
           Concat(s, t, st) ==
             /\ st \in Seq(C) /\ Len(st) = Len(s) + Len(t)
             /\ (\A i \in 1 .. Len(s) : st[i] = s[i])
             /\ (\A i \in 1 .. Len(t) : st[Len(s) + i] = t[i])
<1>21. a \in Seq(C) /\ Len(a) = 3 /\ a[1] = x /\ a[2] = y /\ a[3] = z
  BY <1>1, <1>2, <1>4, <1>5
<1>22. b \in Seq(C) /\ Len(b) = ImageSize
  BY <1>1, <1>2, <1>4, <1>5
<1>23. c \in Seq(C) /\ Len(c) = 1 /\ c[1] = z
  BY <1>1, <1>2, <1>4, <1>5
<1>24. d \in Seq(C) /\ Len(d) = ImageSize
  BY <1>1, <1>2, <1>4, <1>5
<1>25. e \in Seq(C) /\ Len(e) = 1 /\ e[1] = v
  BY <1>1, <1>2, <1>4, <1>5
<1>26. Flash!Script = abcd \o e
  BY <1>1, <1>2, <1>4, <1>5
<1>20. \A s, t \in Seq(C) : Concat(s, t, s \o t)
  BY Joined
<1> HIDE DEF a, c, e, Concat
<1>27. /\ ab \in Seq(C) /\ Len(ab) = 3 + ImageSize
      /\ (\A i \in 1 .. 3 : ab[i] = a[i]) /\ (\A i \in 1 .. ImageSize : ab[3 + i] = b[i])
  <2>1. Concat(a, b, ab)
    BY <1>20, <1>21, <1>22
  <2> QED BY <1>5, <1>21, <1>22, <2>1, Zenon DEF Concat
<1> HIDE DEF ab
<1>28. /\ abc \in Seq(C) /\ Len(abc) = (3 + ImageSize) + 1
      /\ (\A i \in 1 .. 3 + ImageSize : abc[i] = ab[i])
      /\ (\A i \in 1 .. 1 : abc[(3 + ImageSize) + i] = c[i])
  <2>1. Concat(ab, c, abc)
    BY <1>20, <1>23, <1>27
  <2> QED BY <1>23, <1>27, <2>1, Zenon DEF Concat
<1> HIDE DEF abc
<1>29. /\ abcd \in Seq(C) /\ Len(abcd) = ((3 + ImageSize) + 1) + ImageSize
      /\ (\A i \in 1 .. (3 + ImageSize) + 1 : abcd[i] = abc[i])
      /\ (\A i \in 1 .. ImageSize : abcd[((3 + ImageSize) + 1) + i] = d[i])
  <2>1. Concat(abc, d, abcd)
    BY <1>20, <1>24, <1>28
  <2> QED BY <1>24, <1>28, <2>1, Zenon DEF Concat
<1> HIDE DEF abcd
<1>30. /\ Len(Flash!Script) = (((3 + ImageSize) + 1) + ImageSize) + 1
       /\ (\A i \in 1 .. ((3 + ImageSize) + 1) + ImageSize : Flash!Script[i] = abcd[i])
       /\ (\A i \in 1 .. 1 : Flash!Script[(((3 + ImageSize) + 1) + ImageSize) + i] = e[i])
  <2>1. Concat(abcd, e, Flash!Script)
    BY <1>20, <1>26, <1>25, <1>29
  <2> QED BY <1>25, <1>29, <2>1, Zenon DEF Concat
<1>31. \A i \in 1 .. 3 + ImageSize : Flash!Script[i] = ab[i]
  <2> TAKE i \in 1 .. 3 + ImageSize
  <2>1. i \in 1 .. (3 + ImageSize) + 1 /\ i \in 1 .. ((3 + ImageSize) + 1) + ImageSize
    BY <1>5
  <2> QED BY <1>28, <1>29, <1>30, <2>1
<1>32. Flash!Script[1] = x /\ Flash!Script[2] = y /\ Flash!Script[3] = z
  <2>1. \A i \in 1 .. 3 : i \in 1 .. 3 + ImageSize
    BY <1>5
  <2>2. 1 \in 1 .. 3 /\ 2 \in 1 .. 3 /\ 3 \in 1 .. 3
    BY <1>5
  <2> QED BY <1>5, <1>21, <1>27, <1>31, <2>1
<1>33. \A i \in 1 .. ImageSize : Flash!Script[3 + i] = b[i]
  <2>1. \A i \in 1 .. ImageSize : 3 + i \in 1 .. 3 + ImageSize
    BY <1>5
  <2> QED BY <1>27, <1>31, <2>1
<1>34. Flash!Script[ImageSize + 4] = z
  <2>1. /\ (3 + ImageSize) + 1 \in 1 .. (3 + ImageSize) + 1
        /\ (3 + ImageSize) + 1 \in 1 .. ((3 + ImageSize) + 1) + ImageSize /\ 1 \in 1 .. 1
        /\ (3 + ImageSize) + 1 = ImageSize + 4
    BY <1>5
  <2>2. Flash!Script[ImageSize + 4] = abcd[ImageSize + 4]
    BY <1>30, <2>1
  <2>3. abcd[ImageSize + 4] = abc[ImageSize + 4]
    BY <1>29, <2>1
  <2>4. abc[ImageSize + 4] = c[1]
    BY <1>28, <2>1
  <2> QED BY <1>23, <2>2, <2>3, <2>4
<1>35. Flash!Script[2 * ImageSize + 5] = v
  <2>1. (((3 + ImageSize) + 1) + ImageSize) + 1 = 2 * ImageSize + 5 /\ 1 \in 1 .. 1
    BY <1>5
  <2>2. Flash!Script[2 * ImageSize + 5] = e[1]
    BY <1>30, <2>1
  <2> QED BY <1>25, <2>2
<1>36. \A i \in 1 .. ImageSize : Flash!Script[ImageSize + 4 + i] = d[i]
  <2> TAKE i \in 1 .. ImageSize
  <2>1. /\ ((3 + ImageSize) + 1) + i = ImageSize + 4 + i
        /\ ImageSize + 4 + i \in 1 .. ((3 + ImageSize) + 1) + ImageSize
    BY <1>5
  <2>2. Flash!Script[ImageSize + 4 + i] = abcd[ImageSize + 4 + i]
    BY <1>30, <2>1
  <2>3. abcd[ImageSize + 4 + i] = d[i]
    BY <1>29, <2>1
  <2> QED BY <2>2, <2>3
<1>37. Len(Flash!Script) = 2 * ImageSize + 5
  <2>1. (((3 + ImageSize) + 1) + ImageSize) + 1 = 2 * ImageSize + 5
    BY <1>5
  <2> QED BY <1>30, <2>1
<1> QED BY <1>3, <1>6, <1>32, <1>33, <1>34, <1>35, <1>36, <1>37, Zenon

(* The same, apart. *)
LEMMA ScriptLength == Len(Flash!Script) = 2 * ImageSize + 5
BY ScriptCommands

(* Signing on, erasing and loading the address. *)
LEMMA ScriptStart ==
  /\ Flash!Script[1] = <<"sign on", 0>>
  /\ Flash!Script[2] = <<"erase", 0>> /\ Flash!Script[3] = <<"load", 0>>
BY ScriptCommands, Zenon

(* The address is loaded again; the host leaves. *)
LEMMA ScriptEnd ==
  /\ Flash!Script[ImageSize + 4] = <<"load", 0>>
  /\ Flash!Script[2 * ImageSize + 5] = <<"leave", 0>>
BY ScriptCommands, Zenon

(* The pages in turn. *)
LEMMA ScriptPages == \A i \in 1 .. ImageSize : Flash!Script[3 + i] = <<"program", i - 1>>
BY ScriptCommands, Zenon

(* They are read back in turn. *)
LEMMA ScriptReads == \A i \in 1 .. ImageSize : Flash!Script[ImageSize + 4 + i] = <<"read", i - 1>>
BY ScriptCommands, Zenon

(* What the commands of the script do to the addresses and the flash.        *)
LEMMA Carried ==
  ASSUME NEW c, Flash!Carry(c)
  PROVE  /\ c = <<"erase", 0>> => Flash!ChipErase
         /\ c = <<"load", 0>> => Flash!LoadAddress(0)
         /\ \A p : c = <<"program", p>> => Flash!ProgramFlash(Flash!New(p))
         /\ c[1] # "program" => flash' = flash
<1>1. c = <<"erase", 0>> => Flash!ChipErase
  BY DEF Flash!Carry
<1>2. c = <<"load", 0>> => Flash!LoadAddress(0)
  BY DEF Flash!Carry
<1>3. \A p : c = <<"program", p>> => Flash!ProgramFlash(Flash!New(p))
  BY DEF Flash!Carry
<1>4. c[1] # "program" => flash' = flash
  BY DEF Flash!Carry, Flash!ChipErase, Flash!LoadAddress, Flash!ReadFlash, Flash!LeaveProgmode,
         Flash!OtherCommand
<1> QED BY <1>1, <1>2, <1>3, <1>4

(* Behind the pages are the commands that write none. *)
LEMMA AfterThePages ==
  ASSUME NEW n \in ImageSize + 4 .. 2 * ImageSize + 5
  PROVE  Flash!Script[n][1] # "program"
<1>1. CASE n = ImageSize + 4
  BY <1>1, ScriptEnd
<1>2. CASE n = 2 * ImageSize + 5
  BY <1>2, ScriptEnd
<1>3. CASE n # ImageSize + 4 /\ n # 2 * ImageSize + 5
  <2>1. n - ImageSize - 4 \in 1 .. ImageSize /\ ImageSize + 4 + (n - ImageSize - 4) = n
    BY <1>3, BootBounds
  <2>2. Flash!Script[n] = <<"read", n - ImageSize - 4 - 1>>
    BY <2>1, ScriptReads
  <2> QED BY <2>2
<1> QED BY <1>1, <1>2, <1>3

(* The pages that were answered hold what was sent, and both addresses stand  *)
(* at the next one.                                                            *)
InStep ==
  /\ step = 3 => eraseAddress = 0
  /\ step \in 4 .. ImageSize + 4 => address = step - 4 /\ eraseAddress = step - 4
  /\ \A p \in 0 .. ImageSize - 1 : p < step - 4 => flash[p] = {Flash!New(p)}

BootInv ==
  /\ DOMAIN flash = Flash!Pages /\ flash = [p \in Flash!Pages |-> flash[p]]
  /\ step \in Nat \ {0}
  /\ command # Flash!NONE => step <= Len(Flash!Script) /\ command = Flash!Script[step]
  /\ untouched => InStep

(* A session begins with nothing written and no command. *)
LEMMA BootStarts == BothInit => BootInv
<1> SUFFICES ASSUME BothInit PROVE BootInv
  OBVIOUS
<1>1. flash = [p \in Flash!Pages |-> flash[p]] /\ DOMAIN flash = Flash!Pages
  BY DEF BothInit, Flash!Init
<1>2. step = 1 /\ command = Flash!NONE
  BY DEF BothInit, Flash!Init
<1>3. InStep
  BY <1>2, BootBounds DEF InStep
<1> QED BY <1>1, <1>2, <1>3 DEF BootInv

(* A command is carried out on a flash of the same pages. *)
LEMMA SamePages ==
  ASSUME flash = [p \in Flash!Pages |-> flash[p]], DOMAIN flash = Flash!Pages,
         NEW c, Flash!Carry(c)
  PROVE  flash' = [p \in Flash!Pages |-> flash'[p]] /\ DOMAIN flash' = Flash!Pages
<1>1. CASE c[1] = "program"
  <2>1. Flash!ProgramFlash(Flash!New(c[2]))
    BY <1>1 DEF Flash!Carry
  <2> QED BY <2>1 DEF Flash!ProgramFlash, Flash!EraseNext
<1>2. CASE c[1] # "program"
  BY <1>2, Carried
<1> QED BY <1>1, <1>2

(* The answer to a page advances the script and both addresses together.     *)
LEMMA PageProgrammed ==
  ASSUME BootInv, untouched, step \in 4 .. ImageSize + 3, Flash!Answer
  PROVE  InStep'
<1> DEFINE n == step - 4
<1>1. /\ n \in 0 .. ImageSize - 1 /\ n \in Flash!Pages /\ n < AppEnd /\ n \in Nat /\ step = n + 4
      /\ step - 3 \in 1 .. ImageSize /\ 3 + (step - 3) = step /\ step - 3 - 1 = n
      /\ step \in 4 .. ImageSize + 4 /\ step # 3
  BY BootBounds DEF Flash!Pages
<1>2. address = n /\ eraseAddress = n
  BY <1>1 DEF BootInv, InStep
<1>3. command = <<"program", n>>
  BY <1>1, ScriptPages DEF BootInv, Flash!Answer
<1>4. Flash!ProgramFlash(Flash!New(n)) /\ step' = step + 1
  BY <1>3, Carried DEF Flash!Answer
<1> HIDE DEF n
<1>5. address' = n + 1 /\ eraseAddress' = n + 1
  BY <1>1, <1>2, <1>4 DEF Flash!ProgramFlash
<1>6. flash' = [[flash EXCEPT ![n] = {}] EXCEPT ![n] = @ \cup {Flash!New(n)}]
  BY <1>1, <1>2, <1>4 DEF Flash!ProgramFlash, Flash!EraseNext
<1>7. flash'[n] = {Flash!New(n)}
  BY <1>1, <1>6 DEF BootInv
<1>8. \A p \in Flash!Pages : p # n => flash'[p] = flash[p]
  BY <1>6 DEF BootInv
<1>9. step' = n + 5 /\ step' # 3 /\ n + 1 = step' - 4
  <2>1. step' = n + 4 + 1
    BY <1>1, <1>4
  <2> QED BY <1>1, <2>1
<1>10. ASSUME NEW p \in 0 .. ImageSize - 1, p < step' - 4
       PROVE  flash'[p] = {Flash!New(p)}
  <2>1. p \in Flash!Pages
    BY BootBounds DEF Flash!Pages
  <2>2. p = n \/ (p # n /\ p < step - 4)
    BY <1>1, <1>9, <1>10
  <2>3. p < step - 4 => flash[p] = {Flash!New(p)}
    BY DEF BootInv, InStep
  <2> QED BY <1>7, <1>8, <2>1, <2>2, <2>3
<1>11. (\A p \in 0 .. ImageSize - 1 : p < step - 4 => flash[p] = {Flash!New(p)})'
  BY <1>10 DEF Flash!New
<1> QED BY <1>5, <1>9, <1>11 DEF InStep

(* The answer to any command. *)
LEMMA AnswerKept ==
  ASSUME BootInv, Flash!Answer
  PROVE  BootInv'
<1>1. /\ step \in Nat \ {0} /\ step <= 2 * ImageSize + 5 /\ command = Flash!Script[step]
      /\ step' = step + 1 /\ command' = Flash!NONE /\ Flash!Carry(command) /\ untouched' = untouched
  BY ScriptLength DEF BootInv, Flash!Answer
<1>2. flash' = [p \in Flash!Pages |-> flash'[p]] /\ DOMAIN flash' = Flash!Pages
  BY <1>1, SamePages DEF BootInv
<1>3. step' \in Nat \ {0}
  BY <1>1
<1>4. ASSUME untouched PROVE InStep'
  <2>1. CASE step = 1
    <3>1. step' = 2
      BY <1>1, <2>1
    <3> QED BY <3>1, BootBounds DEF InStep
  <2>2. CASE step = 2
    <3>0. command = <<"erase", 0>>
      BY <1>1, <2>2, ScriptStart, Zenon
    <3>1. step' = 3 /\ eraseAddress' = 0
      BY <1>1, <2>2, <3>0, Carried DEF Flash!ChipErase
    <3> QED BY <3>1, BootBounds DEF InStep
  <2>3. CASE step = 3
    <3>0. command = <<"load", 0>>
      BY <1>1, <2>3, ScriptStart, Zenon
    <3>1. step' = 4 /\ eraseAddress' = 0 /\ address' = 0
      BY <1>1, <1>4, <2>3, <3>0, Carried DEF Flash!LoadAddress, BootInv, InStep
    <3> QED BY <3>1, BootBounds DEF InStep
  <2>4. CASE step \in 4 .. ImageSize + 3
    BY <1>4, <2>4, PageProgrammed
  <2>5. CASE step \in ImageSize + 4 .. 2 * ImageSize + 5
    <3>1. flash' = flash
      BY <1>1, <2>5, AfterThePages, Carried
    <3>2. step' # 3 /\ step' \notin 4 .. ImageSize + 4
      BY <1>1, <2>5, BootBounds
    <3>3. \A p \in 0 .. ImageSize - 1 : p < step - 4
      BY <2>5, BootBounds
    <3>4. \A p \in 0 .. ImageSize - 1 : flash[p] = {Flash!New(p)}
      BY <1>4, <3>3 DEF BootInv, InStep
    <3>5. (\A p \in 0 .. ImageSize - 1 : p < step - 4 => flash[p] = {Flash!New(p)})'
      BY <3>1, <3>4 DEF Flash!New
    <3> QED BY <3>2, <3>5 DEF InStep
  <2> QED BY <1>1, <2>1, <2>2, <2>3, <2>4, <2>5, BootBounds
<1> QED BY <1>1, <1>2, <1>3, <1>4 DEF BootInv

(* A board that is reset has no command; its host no longer counts on it,    *)
(* or starts over.                                                            *)
LEMMA BoardReset ==
  ASSUME BootInv, NEW why, Flash!ResetBoard(why), step' = step, untouched' = FALSE
  PROVE  BootInv'
BY DEF BootInv, Flash!ResetBoard

(* What leaves the flash, the addresses and the command alone keeps it. *)
LEMMA Untouched ==
  ASSUME BootInv, flash' = flash, step' = step, address' = address, eraseAddress' = eraseAddress,
         untouched' = untouched, command' = command
  PROVE  BootInv'
BY DEF BootInv, InStep, Flash!New

(* Every step keeps it. *)
LEMMA BootKept ==
  ASSUME BootInv, BothNext
  PROVE  BootInv'
<1>1. CASE OnLine(Next)
  BY <1>1, Untouched DEF OnLine, flashVars
<1>2. CASE OnFlash(Flash!BootTimeout)
  BY <1>2, Untouched DEF OnFlash, Flash!BootTimeout, Flash!hostVars
<1>3. CASE OnFlash(Flash!LineSilent)
  BY <1>3, Untouched DEF OnFlash, Flash!LineSilent, Flash!hostVars
<1>4. CASE OnFlash(Flash!Request)
  <2>1. /\ flash' = flash /\ step' = step /\ address' = address /\ eraseAddress' = eraseAddress
        /\ untouched' = untouched /\ step <= Len(Flash!Script) /\ command' = Flash!Script[step]
    BY <1>4 DEF OnFlash, Flash!Request, Flash!hostVars
  <2> QED BY <2>1 DEF BootInv, InStep, Flash!New
<1>5. CASE OnFlash(Flash!RequestLost)
  BY <1>5, Untouched DEF OnFlash, Flash!RequestLost, Flash!bootVars
<1>6. CASE OnFlash(Flash!Answer)
  BY <1>6, AnswerKept DEF OnFlash
<1>7. CASE OnFlash(Flash!AnswerLost)
  <2>1. /\ Flash!Carry(command) /\ command' = Flash!NONE /\ step' = step /\ untouched' = FALSE
    BY <1>7 DEF OnFlash, Flash!AnswerLost
  <2>2. flash' = [p \in Flash!Pages |-> flash'[p]] /\ DOMAIN flash' = Flash!Pages
    BY <2>1, SamePages DEF BootInv
  <2> QED BY <2>1, <2>2 DEF BootInv
<1>8. CASE OnFlash(Flash!StartOver)
  <2>1. step' = 1 /\ command' = Flash!NONE /\ flash' = flash
    BY <1>8 DEF OnFlash, Flash!StartOver, Flash!ResetBoard, Flash!bootVars
  <2>2. InStep'
    BY <2>1, BootBounds DEF InStep
  <2> QED BY <2>1, <2>2 DEF BootInv
<1>9. CASE OnFlash(Flash!Reset)
  BY <1>9, BoardReset DEF OnFlash, Flash!Reset
<1>10. CASE OnFlash(Flash!HostGone)
  BY <1>10, Untouched DEF OnFlash, Flash!HostGone, Flash!bootVars
<1> QED BY <1>1, <1>2, <1>3, <1>4, <1>5, <1>6, <1>7, <1>8, <1>9, <1>10
        DEF BothNext, OnFlash, Flash!Next

(* The flash holds what the answers say it does. *)
LEMMA BootAlways == BothSpec => []BootInv
<1>1. BothInit => BootInv
  BY BootStarts
<1>2. BootInv /\ [BothNext]_bothVars => BootInv'
  BY BootKept, Untouched DEF bothVars, flashVars
<1> QED BY <1>1, <1>2, PTL DEF BothSpec

(* When the last page is answered, each page holds what was sent for it and  *)
(* nothing else, although two addresses advance apart (stk500boot.c: address  *)
(* and eraseAddress of the main loop).                                        *)
THEOREM ProgramCorrect == BothSpec => []ProgramExact
<1>1. BootInv => ProgramExact
  <2> SUFFICES ASSUME BootInv, Flash!Written, untouched, NEW p \in 0 .. ImageSize - 1
               PROVE  flash[p] = {Flash!New(p)}
    BY DEF ProgramExact, Flash!ProgramExact
  <2>1. p < step - 4
    BY BootBounds DEF BootInv, Flash!Written
  <2> QED BY <2>1 DEF BootInv, InStep
<1> QED BY <1>1, BootAlways, PTL

-----------------------------------------------------------------------------
(* How far the address may be: what was answered since it was loaded, and   *)
(* what was carried out without an answer.                                   *)
Within(s, a, l) ==
  /\ l \in 0 .. MaxLostAnswers
  /\ s \in 4 .. ImageSize + 4 => a <= s - 4 + l
  /\ s \in ImageSize + 5 .. 2 * ImageSize + 5 => a <= s - ImageSize - 5 + l

Reach == Within(step, address, lostAnswers)

(* What was written to some page. *)
Held == {Flash!New(q) : q \in Flash!Pages}
FlashInv == BootInv /\ Flash!TypeOK /\ Reach

(* The first state. *)
LEMMA FlashStarts == BothInit => FlashInv
<1> SUFFICES ASSUME BothInit PROVE FlashInv
  OBVIOUS
<1>1. BootInv
  BY BootStarts
<1>2. Flash!TypeOK
  <2>1. /\ mode = "waiting" /\ address = 0 /\ eraseAddress = 0 /\ isLeave = FALSE /\ alive = TRUE
        /\ untouched = TRUE /\ step = 1 /\ verified = {}
        /\ flash \in {[p \in Flash!Pages |-> {Flash!Old(p)}], [p \in Flash!Pages |-> {}]}
    BY DEF BothInit, Flash!Init
  <2>2. \A p \in Flash!Pages :
          flash[p] \subseteq {Flash!New(q) : q \in Flash!Pages} \cup {Flash!Old(p)}
    BY <2>1
  <2>3. step \in 1 .. Len(Flash!Script) + 1 /\ 0 \in 0 .. AppEnd
    BY <2>1, ScriptLength, BootBounds
  <2> QED BY <2>1, <2>2, <2>3 DEF Flash!TypeOK
<1>3. Reach
  BY BootBounds DEF BothInit, Flash!Init, Reach, Within
<1> QED BY <1>1, <1>2, <1>3 DEF FlashInv

(* What a command is called. *)
LEMMA FirstOfPair == ASSUME NEW x, NEW y, NEW c, c = <<x, y>> PROVE c[1] = x
OBVIOUS

(* Each step of the script, and what it does to the address. *)
LEMMA CommandOf ==
  ASSUME step \in 1 .. 2 * ImageSize + 5, command = Flash!Script[step], Flash!Carry(command)
  PROVE  \/ /\ step \in {1, 2, 2 * ImageSize + 5} /\ command[1] \notin {"program", "read"}
            /\ address' = address
         \/ /\ step \in {3, ImageSize + 4} /\ command[1] \notin {"program", "read"}
            /\ address' = 0
         \/ /\ step \in 4 .. ImageSize + 3 /\ command = <<"program", step - 4>>
            /\ address' = address + 1 /\ Flash!ProgramFlash(Flash!New(step - 4))
         \/ /\ step \in ImageSize + 5 .. 2 * ImageSize + 4
            /\ command = <<"read", step - ImageSize - 5>>
            /\ address' = address + 1 /\ Flash!ReadFlash
<1>1. CASE step = 1 \/ step = 2 \/ step = 2 * ImageSize + 5
  <2>2. command[1] \in {"sign on", "erase", "leave"}
    <3>1. CASE step = 1
      <4>1. command = <<"sign on", 0>>
        BY <3>1, ScriptStart, Zenon
      <4>3. command[1] = "sign on"
        BY <4>1, FirstOfPair, Zenon
      <4> QED BY <4>3, Zenon
    <3>2. CASE step = 2
      <4>1. command = <<"erase", 0>>
        BY <3>2, ScriptStart, Zenon
      <4> QED BY <4>1
    <3>3. CASE step = 2 * ImageSize + 5
      <4>1. command = <<"leave", 0>>
        BY <3>3, ScriptEnd, Zenon
      <4> QED BY <4>1
    <3> QED BY <1>1, <3>1, <3>2, <3>3
  <2>3. address' = address
    BY <2>2 DEF Flash!Carry, Flash!ChipErase, Flash!LeaveProgmode, Flash!OtherCommand
  <2> QED BY <1>1, <2>2, <2>3
<1>2. CASE step = 3 \/ step = ImageSize + 4
  <2>1. command = <<"load", 0>>
    BY <1>2, ScriptStart, ScriptEnd, Zenon
  <2>2. address' = 0 /\ command[1] \notin {"program", "read"}
    BY <2>1, Carried DEF Flash!LoadAddress
  <2> QED BY <1>2, <2>2
<1>3. CASE step \in 4 .. ImageSize + 3
  <2>1. step - 3 \in 1 .. ImageSize /\ 3 + (step - 3) = step /\ step - 3 - 1 = step - 4
    BY <1>3, BootBounds
  <2>2. command = <<"program", step - 4>>
    BY <2>1, ScriptPages
  <2>3. Flash!ProgramFlash(Flash!New(step - 4))
    BY <2>2, Carried
  <2>4. address' = address + 1
    BY <2>3 DEF Flash!ProgramFlash
  <2> QED BY <1>3, <2>2, <2>3, <2>4
<1>4. CASE step \in ImageSize + 5 .. 2 * ImageSize + 4
  <2>1. /\ step - ImageSize - 4 \in 1 .. ImageSize /\ ImageSize + 4 + (step - ImageSize - 4) = step
        /\ step - ImageSize - 4 - 1 = step - ImageSize - 5
    BY <1>4, BootBounds
  <2>2. command = <<"read", step - ImageSize - 5>>
    BY <2>1, ScriptReads
  <2>3. Flash!ReadFlash
    BY <2>2 DEF Flash!Carry
  <2>4. address' = address + 1
    BY <2>3 DEF Flash!ReadFlash
  <2> QED BY <1>4, <2>2, <2>3, <2>4
<1> QED BY <1>1, <1>2, <1>3, <1>4, BootBounds

(* A command is carried out, answered or not: it reads and writes below the  *)
(* bootloader.                                                                *)
CarriedOut ==
  /\ command # Flash!NONE /\ Flash!Carry(command)
  /\ \/ step' = step + 1 /\ lostAnswers' = lostAnswers
     \/ step' = step /\ lostAnswers < MaxLostAnswers /\ lostAnswers' = lostAnswers + 1

(* The reach after a command, by the place in the script. *)
LEMMA StillWithin ==
  ASSUME NEW s \in 1 .. 2 * ImageSize + 5, NEW a \in 0 .. AppEnd, NEW l, Within(s, a, l),
         NEW t \in Int, NEW m \in Int,
         (t = s + 1 /\ m = l) \/ (t = s /\ l < MaxLostAnswers /\ m = l + 1)
  PROVE  /\ s \in {1, 2, 2 * ImageSize + 5} => Within(t, a, m)
         /\ s \in {3, ImageSize + 4} => Within(t, 0, m)
         /\ s \in 4 .. ImageSize + 3 => a \in 0 .. AppEnd - 1 /\ Within(t, a + 1, m)
         /\ s \in ImageSize + 5 .. 2 * ImageSize + 4 => a \in 0 .. AppEnd - 1 /\ Within(t, a + 1, m)
<1>1. l \in 0 .. MaxLostAnswers /\ m \in 0 .. MaxLostAnswers
  BY BootBounds DEF Within
<1>2. s \in {1, 2, 2 * ImageSize + 5} => Within(t, a, m)
  BY <1>1, BootBounds DEF Within
<1>3. s \in {3, ImageSize + 4} => Within(t, 0, m)
  BY <1>1, BootBounds DEF Within
<1>4. s \in 4 .. ImageSize + 3 => a \in 0 .. AppEnd - 1 /\ Within(t, a + 1, m)
  BY <1>1, BootBounds DEF Within
<1>5. s \in ImageSize + 5 .. 2 * ImageSize + 4 => a \in 0 .. AppEnd - 1 /\ Within(t, a + 1, m)
  BY <1>1, BootBounds DEF Within
<1> QED BY <1>2, <1>3, <1>4, <1>5

(* A command is carried out below the bootloader, and leaves the address     *)
(* within reach.                                                              *)
LEMMA WithinReach ==
  ASSUME FlashInv, CarriedOut
  PROVE  /\ Reach' /\ address' \in 0 .. AppEnd
         /\ command[1] \in {"program", "read"} => address \in 0 .. AppEnd - 1
         /\ step \in 1 .. 2 * ImageSize + 5 /\ step' \in 1 .. 2 * ImageSize + 6
<1>1. /\ step \in 1 .. 2 * ImageSize + 5 /\ command = Flash!Script[step] /\ Flash!Carry(command)
      /\ address \in 0 .. AppEnd /\ lostAnswers \in 0 .. MaxLostAnswers
      /\ Within(step, address, lostAnswers)
  BY ScriptLength, BootBounds DEF FlashInv, BootInv, Flash!TypeOK, Reach, Within, CarriedOut
<1>2. lostAnswers' \in Int /\ step' \in 1 .. 2 * ImageSize + 6 /\ step' \in Int
  BY <1>1, BootBounds DEF CarriedOut
<1>4. \/ step' = step + 1 /\ lostAnswers' = lostAnswers
      \/ step' = step /\ lostAnswers < MaxLostAnswers /\ lostAnswers' = lostAnswers + 1
  BY DEF CarriedOut
<1>5. /\ step \in {1, 2, 2 * ImageSize + 5} => Within(step', address, lostAnswers')
      /\ step \in {3, ImageSize + 4} => Within(step', 0, lostAnswers')
      /\ (step \in 4 .. ImageSize + 3 \/ step \in ImageSize + 5 .. 2 * ImageSize + 4)
         => address \in 0 .. AppEnd - 1 /\ Within(step', address + 1, lostAnswers')
  BY <1>1, <1>2, <1>4, StillWithin
<1>6. address \in 0 .. AppEnd - 1 => address + 1 \in 0 .. AppEnd
  BY BootBounds
<1>7. 0 \in 0 .. AppEnd
  BY BootBounds
<1>8. Reach' <=> Within(step', address', lostAnswers')
  BY DEF Reach, Within
<1> QED BY <1>1, <1>2, <1>5, <1>6, <1>7, <1>8, CommandOf

(* The types of the rest after a command. *)
LEMMA CarriedTyped ==
  ASSUME FlashInv, CarriedOut
  PROVE  /\ mode' \in {"waiting", "commands", "app"} /\ eraseAddress' \in 0 .. AppEnd
         /\ isLeave' \in BOOLEAN
         /\ \A p \in Flash!Pages : flash'[p] \subseteq Held \cup {Flash!Old(p)}
         /\ command[1] = "read" => command[2] \in Flash!Pages
<1>1. /\ step \in 1 .. 2 * ImageSize + 5 /\ command = Flash!Script[step] /\ Flash!Carry(command)
  BY WithinReach DEF FlashInv, BootInv, CarriedOut
<1>2. /\ eraseAddress \in 0 .. AppEnd /\ isLeave \in BOOLEAN
      /\ \A p \in Flash!Pages : flash[p] \subseteq Held \cup {Flash!Old(p)}
  BY DEF FlashInv, Flash!TypeOK, Held
<1>3. mode' \in {"waiting", "commands", "app"}
  BY <1>1 DEF Flash!Carry
<1>4. isLeave' \in BOOLEAN
  BY <1>1, <1>2 DEF Flash!Carry, Flash!ChipErase, Flash!LoadAddress, Flash!ProgramFlash,
       Flash!ReadFlash,
     Flash!LeaveProgmode, Flash!OtherCommand
<1>5. eraseAddress' \in 0 .. AppEnd
  <2>1. \/ eraseAddress' \in {0, eraseAddress}
        \/ eraseAddress < AppEnd /\ eraseAddress' = eraseAddress + 1
    BY <1>1 DEF Flash!Carry, Flash!ChipErase, Flash!LoadAddress, Flash!ProgramFlash,
       Flash!ReadFlash,
       Flash!LeaveProgmode, Flash!OtherCommand
  <2> QED BY <1>2, <2>1, BootBounds
<1>6. \A p \in Flash!Pages : flash'[p] \subseteq Held \cup {Flash!Old(p)}
  <2>1. CASE command[1] # "program"
    BY <1>1, <1>2, <2>1, Carried
  <2>2. CASE command[1] = "program"
    <3>1. step \in 4 .. ImageSize + 3 /\ Flash!ProgramFlash(Flash!New(step - 4))
      BY <1>1, <2>2, CommandOf
    <3>2. Flash!New(step - 4) \in Held
      BY <3>1, BootBounds DEF Held, Flash!Pages
    <3>3. \A p \in Flash!Pages : flash'[p] \subseteq flash[p] \cup {Flash!New(step - 4)}
      BY <3>1 DEF Flash!ProgramFlash, Flash!EraseNext, FlashInv, BootInv
    <3> QED BY <1>2, <3>2, <3>3
  <2> QED BY <2>1, <2>2
<1>7. command[1] = "read" => command[2] \in Flash!Pages
  <2> SUFFICES ASSUME command[1] = "read" PROVE command[2] \in Flash!Pages
    OBVIOUS
  <2>1. step \in ImageSize + 5 .. 2 * ImageSize + 4 /\ command = <<"read", step - ImageSize - 5>>
    BY <1>1, CommandOf
  <2>2. step - ImageSize - 5 \in Flash!Pages
    BY <2>1, BootBounds DEF Flash!Pages
  <2> QED BY <2>1, <2>2
<1> QED BY <1>3, <1>4, <1>5, <1>6, <1>7

(* A command that is carried out, answered or not. *)
LEMMA CarriedKept ==
  ASSUME FlashInv, CarriedOut, BootInv',
         command[1] = "read" /\ alive' => verified' \subseteq verified \cup {command[2]},
         ~(command[1] = "read" /\ alive') => verified' = verified,
         alive' \in BOOLEAN, untouched' \in BOOLEAN
  PROVE  FlashInv'
<1>1. verified' \subseteq Flash!Pages
  BY CarriedTyped DEF FlashInv, Flash!TypeOK
<1>2. step' \in 1 .. Len(Flash!Script) + 1
  <2>1. 2 * ImageSize + 6 = Len(Flash!Script) + 1
    BY ScriptLength, BootBounds
  <2> QED BY <2>1, WithinReach
<1>3. (Flash!TypeOK)'
  <2>1. \A p \in Flash!Pages :
          flash'[p] \subseteq {Flash!New(q) : q \in Flash!Pages} \cup {Flash!Old(p)}
    BY CarriedTyped DEF Held
  <2>2. address' \in 0 .. AppEnd
    BY WithinReach
  <2>3. /\ mode' \in {"waiting", "commands", "app"} /\ eraseAddress' \in 0 .. AppEnd
        /\ isLeave' \in BOOLEAN
    BY CarriedTyped
  <2> QED BY <1>1, <1>2, <2>1, <2>2, <2>3, CarriedTyped
         DEF Flash!TypeOK, Flash!Pages, Flash!New, Flash!Old, Flash!Script
<1> QED BY <1>3, WithinReach DEF FlashInv

(* A step that carries no command out changes neither address, or resets     *)
(* both.                                                                      *)
LEMMA OthersKept ==
  ASSUME FlashInv, BootInv', flash' = flash,
         mode' \in {"waiting", "commands", "app"}, isLeave' \in BOOLEAN,
         alive' \in BOOLEAN, untouched' \in BOOLEAN,
         \/ address' = address /\ eraseAddress' = eraseAddress
         \/ address' = 0 /\ eraseAddress' = 0,
         lostAnswers' = lostAnswers, step' \in {1, step}, verified' \in {{}, verified}
  PROVE  FlashInv'
<1>1. /\ address \in 0 .. AppEnd /\ eraseAddress \in 0 .. AppEnd /\ 0 \in 0 .. AppEnd
      /\ verified \subseteq Flash!Pages /\ step \in 1 .. Len(Flash!Script) + 1
      /\ 1 \in 1 .. Len(Flash!Script) + 1 /\ step \in Int
      /\ \A p \in Flash!Pages :
          flash[p] \subseteq {Flash!New(q) : q \in Flash!Pages} \cup {Flash!Old(p)}
  BY BootBounds, ScriptLength DEF FlashInv, BootInv, Flash!TypeOK
<1>2. Within(step, address, lostAnswers)
  BY DEF FlashInv, Reach
<1>3. Within(step', address', lostAnswers)
  BY <1>1, <1>2, BootBounds DEF Within
<1>4. Reach'
  <2>1. Reach' <=> Within(step', address', lostAnswers')
    BY DEF Reach, Within
  <2> QED BY <1>3, <2>1
<1>5. (Flash!TypeOK)'
  BY <1>1 DEF Flash!TypeOK, Flash!Pages, Flash!New, Flash!Old, Flash!Script
<1> QED BY <1>4, <1>5 DEF FlashInv

(* Every step keeps the types. *)
LEMMA FlashKept ==
  ASSUME FlashInv, [BothNext]_bothVars
  PROVE  FlashInv'
<1>0. /\ BootInv' /\ BootInv
  BY BootKept, Untouched DEF FlashInv, bothVars, flashVars
<1>1. /\ mode \in {"waiting", "commands", "app"} /\ isLeave \in BOOLEAN /\ alive \in BOOLEAN
      /\ untouched \in BOOLEAN
  BY DEF FlashInv, Flash!TypeOK
<1>2. CASE OnLine(Next) \/ UNCHANGED bothVars
  BY <1>0, <1>1, <1>2, OthersKept DEF OnLine, flashVars, bothVars
<1>3. CASE OnFlash(Flash!BootTimeout)
  BY <1>0, <1>1, <1>3, OthersKept DEF OnFlash, Flash!BootTimeout, Flash!hostVars
<1>4. CASE OnFlash(Flash!LineSilent)
  BY <1>0, <1>1, <1>4, OthersKept DEF OnFlash, Flash!LineSilent, Flash!hostVars
<1>5. CASE OnFlash(Flash!Request)
  BY <1>0, <1>1, <1>5, OthersKept DEF OnFlash, Flash!Request, Flash!hostVars
<1>6. CASE OnFlash(Flash!RequestLost)
  BY <1>0, <1>1, <1>6, OthersKept DEF OnFlash, Flash!RequestLost, Flash!bootVars
<1>7. CASE OnFlash(Flash!Answer)
  <2>1. CarriedOut
    BY <1>7 DEF OnFlash, Flash!Answer, CarriedOut
  <2>2. /\ alive' \in BOOLEAN /\ untouched' = untouched
        /\ verified' = IF command[1] = "read" /\ alive'
                         THEN verified \cup {command[2]} ELSE verified
    BY <1>1, <1>7, Zenon DEF OnFlash, Flash!Answer
  <2> QED BY <1>0, <1>1, <2>1, <2>2, CarriedKept
<1>8. CASE OnFlash(Flash!AnswerLost)
  <2>1. CarriedOut
    BY <1>8 DEF OnFlash, Flash!AnswerLost, CarriedOut
  <2>2. alive' = alive /\ untouched' = FALSE /\ verified' = verified
    BY <1>8 DEF OnFlash, Flash!AnswerLost
  <2> QED BY <1>0, <1>1, <2>1, <2>2, CarriedKept
<1>9. CASE OnFlash(Flash!StartOver)
  BY <1>0, <1>1, <1>9, OthersKept DEF OnFlash, Flash!StartOver, Flash!ResetBoard, Flash!bootVars
<1>10. CASE OnFlash(Flash!Reset)
  BY <1>0, <1>1, <1>10, OthersKept DEF OnFlash, Flash!Reset, Flash!ResetBoard
<1>11. CASE OnFlash(Flash!HostGone)
  BY <1>0, <1>1, <1>11, OthersKept DEF OnFlash, Flash!HostGone, Flash!bootVars
<1> QED BY <1>2, <1>3, <1>4, <1>5, <1>6, <1>7, <1>8, <1>9, <1>10, <1>11
        DEF BothNext, OnFlash, Flash!Next

(* The variables of main, the flash and the host keep their types: above all, *)
(* neither address passes the end of the application's flash, however the     *)
(* commands and answers are lost (within MaxLostAnswers), and the host starts *)
(* over.                                                                       *)
THEOREM FlashTypeCorrect == BothSpec => []Flash!TypeOK
<1>1. BothInit => FlashInv
  BY FlashStarts
<1>2. FlashInv /\ [BothNext]_bothVars => FlashInv'
  BY FlashKept
<1>3. FlashInv => Flash!TypeOK
  BY DEF FlashInv
<1> QED BY <1>1, <1>2, <1>3, PTL DEF BothSpec

-----------------------------------------------------------------------------
(* A set of naturals that holds 0 and each number's successor holds them all. *)
LEMMA SetInduction ==
  ASSUME NEW T, 0 \in T, \A n \in Nat : n \in T => n + 1 \in T
  PROVE  Nat \subseteq T
<1> DEFINE less == {ss \in Nat \X Nat : ss[1] < ss[2]}
           Bad  == Nat \ T
<1>1. IsWellFoundedOn(less, Nat)
  BY NatLessThanWellFounded DEF OpToRel
<1>2. SUFFICES ASSUME Bad # {} PROVE FALSE
  OBVIOUS
<1>3. PICK n \in Bad : \A j \in Bad : ~(<<j, n>> \in less)
  <2> HIDE DEF less
  <2> QED BY <1>1, <1>2, WFMin
<1>4. n \in Nat /\ n \notin T
  OBVIOUS
<1>5. n - 1 \in Nat
  BY <1>4
<1>6. <<n - 1, n>> \in less
  BY <1>4, <1>5
<1>7. n - 1 \in T
  <2> HIDE DEF less
  <2> QED BY <1>3, <1>5, <1>6
<1> QED BY <1>4, <1>5, <1>7

(* The bits of a byte. *)
LEMMA Bits ==
  ASSUME NEW a \in 0 .. 7
  PROVE  \E x, y, z \in 0 .. 1 : a = x + 2 * y + 4 * z
OBVIOUS

(* (What XorRight proves of two bytes.)                                       *)
XorIsRight(a, b) ==
  /\ Xor(a, b) \in Bytes
  /\ Xor(0, a) = a
  /\ Xor(Xor(a, b), b) = a
  /\ Xor(a, b) = Xor(b, a)

(* What the assumptions on the bytes say.                                     *)
LEMMA ByteFacts ==
  /\ ByteSize = 8 /\ Bytes = 0 .. 7 /\ ByteSize ^ 2 - 1 = 63
  /\ MESSAGE_START \in Bytes /\ TOKEN \in Bytes /\ Bang \in Bytes /\ Noise \subseteq Bytes
<1>1. ByteSize = 8
  BY MessageAssumption
<1>2. ByteSize - 1 = 7 /\ ByteSize ^ 2 - 1 = 63
  BY <1>1
<1>3. Bytes = 0 .. 7
  BY <1>2 DEF Bytes
<1>4. {MESSAGE_START, TOKEN, Bang} \cup Noise \subseteq Bytes
  BY MessageAssumption DEF Bytes
<1> QED BY <1>1, <1>2, <1>3, <1>4

(* Exclusive or, bit by bit.                                                  *)
LEMMA XorBits ==
  ASSUME NEW x \in 0 .. 1, NEW y \in 0 .. 1, NEW z \in 0 .. 1,
         NEW x2 \in 0 .. 1, NEW y2 \in 0 .. 1, NEW z2 \in 0 .. 1
  PROVE  Xor(x + 2 * y + 4 * z, x2 + 2 * y2 + 4 * z2)
           = ((x + x2) % 2) + 2 * ((y + y2) % 2) + 4 * ((z + z2) % 2)
<1> DEFINE a == x + 2 * y + 4 * z
           b == x2 + 2 * y2 + 4 * z2
<1>1. a \in Int /\ b \in Int /\ a \div 1 = a /\ b \div 1 = b
  OBVIOUS
<1>2. a \div 2 = y + 2 * z /\ b \div 2 = y2 + 2 * z2
  OBVIOUS
<1>3. a \div 4 = z /\ b \div 4 = z2
  OBVIOUS
<1>4. (a + b) % 2 = (x + x2) % 2
  OBVIOUS
<1>5. ((y + 2 * z) + (y2 + 2 * z2)) % 2 = (y + y2) % 2
  OBVIOUS
<1>6. Xor(a, b) = 1 * (((a \div 1) + (b \div 1)) % 2) + 2 * (((a \div 2) + (b \div 2)) % 2)
                    + 4 * (((a \div 4) + (b \div 4)) % 2)
  BY DEF Xor
<1> HIDE DEF a, b
<1>7. Xor(a, b) = ((x + x2) % 2) + 2 * ((y + y2) % 2) + 4 * ((z + z2) % 2)
  BY <1>1, <1>2, <1>3, <1>4, <1>5, <1>6
<1> QED BY <1>7 DEF a, b

(* Exclusive or can be undone. *)
LEMMA XorRight ==
  ASSUME NEW a \in 0 .. 7, NEW b \in 0 .. 7
  PROVE  XorIsRight(a, b)
<1> DEFINE plus(x, y) == (x + y) % 2
<1>0. Bytes = 0 .. 7
  BY MessageAssumption DEF Bytes
<1>1. PICK x \in 0 .. 1, y \in 0 .. 1, z \in 0 .. 1 : a = x + 2 * y + 4 * z
  BY Bits
<1>2. PICK x2 \in 0 .. 1, y2 \in 0 .. 1, z2 \in 0 .. 1 : b = x2 + 2 * y2 + 4 * z2
  BY Bits
<1>3. \A u, v \in 0 .. 1 :
        plus(u, v) \in 0 .. 1 /\ plus(u, v) = plus(v, u) /\ plus(0, u) = u
        /\ plus(plus(u, v), v) = u
  OBVIOUS
<1>4. Xor(a, b) = plus(x, x2) + 2 * plus(y, y2) + 4 * plus(z, z2)
  BY <1>1, <1>2, XorBits
<1>5. Xor(b, a) = plus(x2, x) + 2 * plus(y2, y) + 4 * plus(z2, z)
  BY <1>1, <1>2, XorBits
<1>6. Xor(0, a) = plus(0, x) + 2 * plus(0, y) + 4 * plus(0, z)
  <2>1. 0 = 0 + 2 * 0 + 4 * 0 /\ 0 \in 0 .. 1
    OBVIOUS
  <2> QED BY <1>1, <2>1, XorBits
<1> DEFINE p == plus(x, x2)
           q == plus(y, y2)
           r == plus(z, z2)
<1>7. p \in 0 .. 1 /\ q \in 0 .. 1 /\ r \in 0 .. 1
  BY <1>3
<1>8. Xor(p + 2 * q + 4 * r, x2 + 2 * y2 + 4 * z2) = plus(p, x2) + 2 * plus(q, y2) + 4 * plus(r, z2)
  <2> HIDE DEF p, q, r
  <2> QED BY <1>7, XorBits
<1>9. plus(p, x2) = x /\ plus(q, y2) = y /\ plus(r, z2) = z
  BY <1>3
<1>10. Xor(a, b) = p + 2 * q + 4 * r
  BY <1>4
<1>11. Xor(Xor(a, b), b) = a
  <2> HIDE DEF p, q, r, plus
  <2> QED BY <1>1, <1>2, <1>8, <1>9, <1>10
<1>12. Xor(a, b) \in Bytes
  <2> HIDE DEF p, q, r, plus
  <2> QED BY <1>0, <1>7, <1>10
<1>13. Xor(0, a) = a
  <2> HIDE DEF plus
  <2> QED BY <1>1, <1>3, <1>6
<1>14. Xor(a, b) = Xor(b, a)
  <2>1. plus(x, x2) = plus(x2, x) /\ plus(y, y2) = plus(y2, y) /\ plus(z, z2) = plus(z2, z)
    BY <1>3
  <2> HIDE DEF plus
  <2> QED BY <1>4, <1>5, <2>1
<1> QED BY <1>11, <1>12, <1>13, <1>14 DEF XorIsRight

(* Bytes that differ are told apart by their exclusive or with a third.      *)
LEMMA XorApart ==
  ASSUME NEW a \in Bytes, NEW b \in Bytes, NEW c \in Bytes
  PROVE  /\ Xor(a, c) \in Bytes /\ Xor(0, a) = a
         /\ (Xor(a, c) = Xor(b, c) \/ Xor(c, a) = Xor(c, b)) => a = b
<1>1. a \in 0 .. 7 /\ b \in 0 .. 7 /\ c \in 0 .. 7
  BY MessageAssumption DEF Bytes
<1>2. XorIsRight(a, c) /\ XorIsRight(b, c)
  BY <1>1, XorRight
<1> QED BY <1>2 DEF XorIsRight

(* The exclusive or of the first k elements of a sequence, for each k.        *)
Sums(s, sum) ==
  /\ sum \in [0 .. Len(s) -> Bytes] /\ sum[0] = 0
  /\ \A k \in 1 .. Len(s) : sum[k] = Xor(sum[k - 1], s[k])
  /\ XorAll(s) = sum[Len(s)]

HasSums(s) == \E sum : Sums(s, sum)

(* The fold of XorAll, by induction over the length: it takes the last        *)
(* element first.                                                             *)
LEMMA SumsExist ==
  ASSUME NEW s \in Seq(Bytes)
  PROVE  HasSums(s)
<1> DEFINE n == Len(s)
           S == 1 .. n
           last(set) == CHOOSE x \in set : \A y \in set : x >= y
           unfold(f) == [set \in SUBSET S |->
                         IF set = {} THEN 0 ELSE Xor(f[set \ {last(set)}], s[last(set)])]
           iter == CHOOSE f : f = unfold(f)
           Upto(f, i) == \A set \in SUBSET (1 .. i) :
                           f[set] = IF set = {} THEN 0
                                    ELSE Xor(f[set \ {last(set)}], s[last(set)])
           Has(i) == \E f \in [SUBSET S -> Bytes] : Upto(f, i)
           T == {i \in Nat : i <= n => Has(i)}
<1>0. n \in Nat /\ (\A k \in S : s[k] \in Bytes) /\ DOMAIN s = S
  OBVIOUS
<1>a. n \in Nat
  BY <1>0
<1>1. XorAll(s) = iter[S]
  BY <1>0 DEF XorAll, FoldLeft, MapThenFoldSet, Max
<1>2. 0 \in T
  <2> DEFINE f == [set \in SUBSET S |-> 0]
  <2>1. f \in [SUBSET S -> Bytes]
    BY MessageAssumption DEF Bytes
  <2>2. Upto(f, 0)
    <3>1. \A set \in SUBSET (1 .. 0) : set = {} /\ set \in SUBSET S
      OBVIOUS
    <3> QED BY <3>1
  <2> HIDE DEF Upto, f
  <2> QED BY <2>1, <2>2
<1>3. ASSUME NEW i \in Nat, i \in T PROVE i + 1 \in T
  <2>1. SUFFICES ASSUME i + 1 <= n PROVE Has(i + 1)
    <3> HIDE DEF Has, n
    <3> QED OBVIOUS
  <2>2. PICK f \in [SUBSET S -> Bytes] : Upto(f, i)
    <3>1. i <= n
      <4> HIDE DEF T
      <4> QED BY <1>a, <2>1
    <3> HIDE DEF Upto, n
    <3> QED BY <1>3, <3>1
  <2> DEFINE h == [set \in SUBSET S |->
                     IF i + 1 \in set THEN Xor(f[set \ {i + 1}], s[i + 1]) ELSE f[set]]
  <2>3. h \in [SUBSET S -> Bytes]
    <3>1. s[i + 1] \in Bytes
      BY <1>0, <2>1
    <3>2. \A set \in SUBSET S : f[set \ {i + 1}] \in Bytes
      OBVIOUS
    <3>3. \A a, b \in Bytes : Xor(a, b) \in Bytes
      BY XorApart
    <3> QED BY <3>1, <3>2, <3>3
  <2>4. \A set \in SUBSET S :
          /\ i + 1 \in set => h[set] = Xor(f[set \ {i + 1}], s[i + 1])
          /\ i + 1 \notin set => h[set] = f[set]
    OBVIOUS
  <2> HIDE DEF h
  <2>5. ASSUME NEW set \in SUBSET (1 .. i + 1)
        PROVE  h[set] = IF set = {} THEN 0 ELSE Xor(h[set \ {last(set)}], s[last(set)])
    <3>0. set \in SUBSET S
      BY <1>0, <2>1
    <3>1. CASE i + 1 \in set
      <4>1. \A x \in set : (\A y \in set : x >= y) <=> x = i + 1
        BY <3>1
      <4>2. last(set) = i + 1
        BY <3>1, <4>1
      <4>3. h[set \ {i + 1}] = f[set \ {i + 1}]
        <5>1. set \ {i + 1} \in SUBSET S /\ i + 1 \notin set \ {i + 1}
          BY <3>0
        <5> QED BY <2>4, <5>1
      <4>4. h[set] = Xor(f[set \ {i + 1}], s[i + 1])
        BY <2>4, <3>0, <3>1
      <4> HIDE DEF last
      <4> QED BY <3>1, <4>2, <4>3, <4>4
    <3>2. CASE i + 1 \notin set
      <4> HIDE DEF last
      <4>1. set \in SUBSET (1 .. i)
        BY <3>2
      <4>2. f[set] = IF set = {} THEN 0 ELSE Xor(f[set \ {last(set)}], s[last(set)])
        BY <2>2, <4>1
      <4>3. h[set] = f[set]
        BY <2>4, <3>0, <3>2
      <4>4. h[set \ {last(set)}] = f[set \ {last(set)}]
        <5>1. set \ {last(set)} \in SUBSET S /\ i + 1 \notin set \ {last(set)}
          BY <3>0, <3>2
        <5> QED BY <2>4, <5>1
      <4> QED BY <4>2, <4>3, <4>4
    <3> QED BY <3>1, <3>2
  <2>6. Upto(h, i + 1)
    BY <2>5
  <2> HIDE DEF Upto
  <2> QED BY <2>3, <2>6
<1>4. n \in T
  <2> HIDE DEF T
  <2>1. \A i \in Nat : i \in T => i + 1 \in T
    BY <1>3
  <2> QED BY <1>0, <1>2, <2>1, SetInduction
<1>5. PICK f \in [SUBSET S -> Bytes] : Upto(f, n)
  <2>1. n <= n
    BY <1>a
  <2> HIDE DEF Upto, n
  <2> QED BY <1>4, <2>1
<1>6. f = unfold(f)
  <2> HIDE DEF last, n
  <2> QED BY <1>5
<1>7. iter = unfold(iter)
  <2> HIDE DEF unfold
  <2> QED BY <1>6
<1> HIDE DEF iter
<1>8. \A set \in SUBSET S :
        iter[set] = IF set = {} THEN 0 ELSE Xor(iter[set \ {last(set)}], s[last(set)])
  <2> HIDE DEF last, n
  <2> QED BY <1>7
<1>9. iter[1 .. 0] = 0
  <2>1. 1 .. 0 = {} /\ {} \in SUBSET S
    OBVIOUS
  <2> HIDE DEF last, n
  <2> QED BY <1>8, <2>1
<1>10. \A k \in 1 .. n : iter[1 .. k] = Xor(iter[1 .. k - 1], s[k])
  <2> TAKE k \in 1 .. n
  <2>0. k \in Nat /\ k >= 1 /\ k <= n
    BY <1>a
  <2>1. 1 .. k \in SUBSET S /\ k \in 1 .. k /\ (1 .. k) \ {k} = 1 .. k - 1
    <3> HIDE DEF n
    <3> QED BY <1>a, <2>0
  <2>2. \A x \in 1 .. k : (\A y \in 1 .. k : x >= y) <=> x = k
    BY <2>0
  <2>3. last(1 .. k) = k
    BY <2>0, <2>2
  <2> HIDE DEF last, n
  <2> QED BY <1>8, <2>1, <2>3
<1> DEFINE sum == [k \in 0 .. n |-> iter[1 .. k]]
           G == {k \in Nat : k <= n => iter[1 .. k] \in Bytes}
<1>11. 0 \in G
  BY <1>9, MessageAssumption DEF Bytes
<1>12. ASSUME NEW k \in Nat, k \in G PROVE k + 1 \in G
  <2> SUFFICES ASSUME k + 1 <= n PROVE iter[1 .. k + 1] \in Bytes
    OBVIOUS
  <2>1. iter[1 .. k] \in Bytes /\ s[k + 1] \in Bytes
    BY <1>0, <1>12
  <2>2. iter[1 .. k + 1] = Xor(iter[1 .. k], s[k + 1])
    <3>1. k + 1 \in 1 .. n /\ k + 1 - 1 = k
      BY <1>0
    <3> QED BY <1>10, <3>1
  <2> QED BY <2>1, <2>2, XorApart
<1>13. Nat \subseteq G
  <2> HIDE DEF G
  <2> QED BY <1>11, <1>12, SetInduction
<1>14. sum \in [0 .. n -> Bytes]
  BY <1>0, <1>13
<1>15. sum[0] = 0 /\ XorAll(s) = sum[n]
  BY <1>0, <1>1, <1>9
<1>16. \A k \in 1 .. n : sum[k] = Xor(sum[k - 1], s[k])
  BY <1>0, <1>10
<1>17. Sums(s, sum)
  <2> HIDE DEF sum, iter
  <2> QED BY <1>14, <1>15, <1>16 DEF Sums
<1> HIDE DEF sum
<1> QED BY <1>17 DEF HasSums

(* Those of the sequences it begins with are the same.                        *)
LEMMA SumOfPrefix ==
  ASSUME NEW s \in Seq(Bytes), NEW sum, Sums(s, sum), NEW k \in 0 .. Len(s)
  PROVE  XorAll(SubSeq(s, 1, k)) = sum[k]
<1> DEFINE t == SubSeq(s, 1, k)
<1>0. Len(s) \in Nat /\ k \in Nat /\ k <= Len(s)
  OBVIOUS
<1>1. t \in Seq(Bytes) /\ Len(t) = k /\ \A i \in 1 .. k : t[i] = s[i]
  BY <1>0, SubSeqProperties
<1>2. PICK other : Sums(t, other)
  <2> HIDE DEF t
  <2> QED BY <1>1, SumsExist DEF HasSums
<1> HIDE DEF t
<1> DEFINE G == {i \in Nat : i <= k => other[i] = sum[i]}
<1>3. 0 \in G
  BY <1>2 DEF Sums
<1>4. ASSUME NEW i \in Nat, i \in G PROVE i + 1 \in G
  <2> SUFFICES ASSUME i + 1 <= k PROVE other[i + 1] = sum[i + 1]
    OBVIOUS
  <2>1. i + 1 \in 1 .. k /\ i + 1 \in 1 .. Len(s) /\ i + 1 - 1 = i /\ i <= k
    <3> HIDE DEF G
    <3> QED BY <1>0
  <2>2. other[i + 1] = Xor(other[i], t[i + 1])
    BY <1>1, <1>2, <2>1 DEF Sums
  <2>3. sum[i + 1] = Xor(sum[i], s[i + 1])
    BY <2>1 DEF Sums
  <2> QED BY <1>1, <1>4, <2>1, <2>2, <2>3
<1>5. k \in G
  <2> HIDE DEF G
  <2>1. \A i \in Nat : i \in G => i + 1 \in G
    BY <1>4
  <2> QED BY <1>0, <1>3, <2>1, SetInduction
<1>6. XorAll(t) = other[k]
  BY <1>1, <1>2 DEF Sums
<1> QED BY <1>0, <1>5, <1>6 DEF t

(* What a frame is made of.                                                   *)
Framed(F, s, b) ==
  /\ F \in Seq(Bytes) /\ Len(F) = Len(b) + 6
  /\ F[1] = MESSAGE_START /\ F[2] = s /\ F[3] = Len(b) \div ByteSize
  /\ F[4] = Len(b) % ByteSize /\ F[5] = TOKEN
  /\ \A i \in 1 .. Len(b) : F[5 + i] = b[i]
  /\ F[Len(b) + 6] = XorAll(SubSeq(F, 1, Len(b) + 5))

(* Frame makes such a frame, and its checksum is that of all before it.       *)
LEMMA Frames ==
  ASSUME NEW s \in Bytes, NEW b \in Seq(Bytes), Len(b) \in 1 .. 63
  PROVE  Framed(Frame(s, b), s, b)
<1> DEFINE n == Len(b)
           head == <<MESSAGE_START, s, n \div ByteSize, n % ByteSize, TOKEN>>
           text == head \o b
           F == text \o <<XorAll(text)>>
<1>0. ByteSize = 8 /\ Bytes = 0 .. 7 /\ MESSAGE_START \in Bytes /\ TOKEN \in Bytes
  BY ByteFacts
<1>1. n \in Nat /\ n \in 1 .. 63
  OBVIOUS
<1>2. n \div ByteSize \in Bytes /\ n % ByteSize \in Bytes
  <2> HIDE DEF n
  <2> QED BY <1>0, <1>1
<1>3. /\ head \in Seq(Bytes) /\ Len(head) = 5
      /\ head[1] = MESSAGE_START /\ head[2] = s /\ head[3] = n \div ByteSize
      /\ head[4] = n % ByteSize /\ head[5] = TOKEN
  <2> HIDE DEF n
  <2> QED BY <1>0, <1>2
<1> HIDE DEF head
<1>4. /\ text \in Seq(Bytes) /\ Len(text) = 5 + n
      /\ \A i \in 1 .. 5 : text[i] = head[i]
      /\ \A i \in 1 .. n : text[5 + i] = b[i]
  <2>1. /\ text \in Seq(Bytes) /\ Len(text) = Len(head) + Len(b)
        /\ \A i \in 1 .. Len(head) : text[i] = head[i]
        /\ \A i \in 1 .. Len(b) : text[Len(head) + i] = b[i]
    <3>1. head \in Seq(Bytes) /\ b \in Seq(Bytes)
      BY <1>3
    <3> QED BY <3>1, Joined DEF text
  <2> QED BY <1>3, <2>1
<1> HIDE DEF text
<1>5. XorAll(text) \in Bytes
  <2>1. PICK sum : Sums(text, sum)
    BY <1>4, SumsExist DEF HasSums
  <2>2. sum \in [0 .. Len(text) -> Bytes] /\ XorAll(text) = sum[Len(text)]
    BY <2>1 DEF Sums
  <2>3. Len(text) \in 0 .. Len(text)
    BY <1>1, <1>4
  <2> QED BY <2>2, <2>3
<1>6. /\ F \in Seq(Bytes) /\ Len(F) = n + 6
      /\ \A i \in 1 .. n + 5 : F[i] = text[i]
      /\ F[n + 6] = XorAll(text)
  <2> DEFINE x == XorAll(text)
  <2> HIDE DEF x
  <2>1. Append(text, x) = text \o <<x>>
    BY <1>4
  <2>2. /\ Append(text, x) \in Seq(Bytes) /\ Len(Append(text, x)) = Len(text) + 1
        /\ \A i \in 1 .. Len(text) : Append(text, x)[i] = text[i]
        /\ Append(text, x)[Len(text) + 1] = x
    BY <1>4, <1>5, AppendProperties DEF x
  <2> HIDE DEF n
  <2>3. Len(text) = n + 5 /\ Len(text) + 1 = n + 6
    BY <1>1, <1>4
  <2> QED BY <2>1, <2>2, <2>3 DEF x
<1>7. Frame(s, b) = F
  BY DEF Frame, text, head
<1> HIDE DEF F
<1>8. SubSeq(F, 1, n + 5) = text
  <2> DEFINE t == SubSeq(F, 1, n + 5)
  <2>1. n + 5 \in Nat /\ n + 5 <= Len(F)
    BY <1>1, <1>6
  <2>2. t \in Seq(Bytes) /\ Len(t) = n + 5 /\ \A i \in 1 .. n + 5 : t[i] = F[i]
    <3> HIDE DEF n
    <3> QED BY <1>6, <2>1, SubSeqProperties
  <2>3. Len(text) = n + 5
    BY <1>1, <1>4
  <2> HIDE DEF n, t
  <2>4. t = text
    BY <1>4, <1>6, <2>2, <2>3, SeqEqual
  <2> QED BY <2>4 DEF t
<1>9. \A i \in 1 .. n : F[5 + i] = b[i]
  <2> TAKE i \in 1 .. n
  <2>1. 5 + i \in 1 .. n + 5
    BY <1>1
  <2> QED BY <1>4, <1>6, <2>1
<1>10. \A i \in 1 .. 5 : F[i] = head[i]
  <2> HIDE DEF n
  <2> QED BY <1>1, <1>4, <1>6
<1>11. /\ F[1] = MESSAGE_START /\ F[2] = s /\ F[3] = n \div ByteSize
       /\ F[4] = n % ByteSize /\ F[5] = TOKEN
  <2> HIDE DEF n
  <2> QED BY <1>3, <1>10
<1>12. F \in Seq(Bytes) /\ Len(F) = n + 6 /\ F[n + 6] = XorAll(SubSeq(F, 1, n + 5))
  <2> HIDE DEF n
  <2> QED BY <1>6, <1>8
<1> QED
  <2>1. Framed(F, s, b)
    <3> QED BY <1>9, <1>11, <1>12 DEF Framed
  <2> QED BY <1>7, <2>1

-----------------------------------------------------------------------------
(* The messages of a session.                                                 *)
Messages == {<<1, SignOn>>} \cup ((2 .. MaxMessages) \X Bodies)

(* The numbers of messages are bytes, and the byte that starts a message is   *)
(* nowhere else in one, nor a mark of the operator's.                         *)
StartsApart ==
  /\ MaxMessages \in 1 .. 7 /\ Bodies \cup {SignOn} \subseteq Seq(Bytes)
  /\ Bang # MESSAGE_START
  /\ \A m \in Messages : \A i \in 2 .. Len(m[2]) + 6 : Frame(m[1], m[2])[i] # MESSAGE_START

(* The exclusive or of the bytes that the host has sent.                      *)
SumTo(k) == XorAll(SubSeq(frame, 1, k))

HostRight ==
  /\ <<seq, body>> \in Messages /\ frame = Frame(seq, body)
  /\ sent \in 0 .. Len(body) + 6
  /\ noise \in Nat /\ torn \in BOOLEAN
  /\ torn => noise > 0

(* The receiver waits for a message: one that begins, that follows or, after  *)
(* a byte was lost or changed, the one the host sends again.                  *)
Waiting ==
  /\ msgParseState = "ST_START"
  /\ sent = 0 \/ sent = Len(body) + 6 \/ noise > 0

(* What was received is what was sent, or the checksum tells that it is not.  *)
Received ==
  \/ /\ checksum = SumTo(sent)
     /\ sent >= 2 => seqNum = seq
     /\ sent >= 5 => \A i \in 1 .. sent - 5 : msgBuffer[i] = body[i]
  \/ noise > 0 /\ checksum # SumTo(sent)

(* The receiver is where the host is.                                         *)
Place ==
  \/ sent = 1 /\ msgParseState = "ST_GET_SEQ_NUM" /\ checksum = SumTo(1)
  \/ sent = 2 /\ msgParseState = "ST_MSG_SIZE_1"
  \/ sent = 3 /\ msgParseState = "ST_MSG_SIZE_2" /\ msgLength = (Len(body) \div ByteSize) * ByteSize
  \/ sent = 4 /\ msgParseState = "ST_GET_TOKEN" /\ msgLength = Len(body)
  \/ /\ sent \in 5 .. Len(body) + 4 /\ msgParseState = "ST_GET_DATA" /\ msgLength = Len(body)
     /\ msgBuffer \in Seq(Bytes) /\ Len(msgBuffer) = sent - 5
  \/ /\ sent = Len(body) + 5 /\ msgParseState = "ST_GET_CHECK"
     /\ msgBuffer \in Seq(Bytes) /\ Len(msgBuffer) = Len(body)

InMessage == checksum \in Bytes /\ Place /\ Received

Complete ==
  /\ msgParseState = "ST_PROCESS" /\ sent = Len(body) + 6
  /\ msgBuffer = body /\ seqNum = seq

(* Up to the first byte that is lost or changed, and with one that was        *)
(* changed and can be told by the checksum, the receiver keeps in step.       *)
InStepWithHost ==
  /\ HostRight
  /\ msgParseState = "ST_PROCESS" => line = "messages"
  /\ answered => msgParseState = "ST_START"
  /\ line = "messages" /\ noise < 2 /\ ~torn => Waiting \/ InMessage \/ Complete

(* The exclusive or of what was sent, a byte later.                           *)
SumIs(k) ==
  /\ SumTo(k) \in Bytes
  /\ k < Len(body) + 6 =>
       /\ frame[k + 1] \in Bytes
       /\ SumTo(k + 1) = Xor(SumTo(k), frame[k + 1])

(* What is known of it, and of the checksum as it is sent.                    *)
LEMMA MessageRight ==
  ASSUME StartsApart, HostRight
  PROVE  /\ seq \in Bytes /\ body \in Seq(Bytes) /\ Len(body) \in 1 .. 63
         /\ Framed(frame, seq, body)
         /\ SumTo(0) = 0 /\ \A k \in 0 .. Len(body) + 6 : SumIs(k)
         /\ \A i \in 2 .. Len(body) + 6 : frame[i] # MESSAGE_START
<1>0. seq \in 1 .. MaxMessages /\ body \in Bodies \cup {SignOn}
  BY DEF StartsApart, HostRight, Messages
<1>1. seq \in 1 .. 7 /\ seq \in Bytes /\ body \in Seq(Bytes)
  BY <1>0, ByteFacts DEF StartsApart
<1>2. Len(body) \in 1 .. 63
  <2>1. \A b \in Bodies \cup {SignOn} : Len(b) \in 1 .. ByteSize ^ 2 - 1
    BY MessageAssumption
  <2>2. ByteSize ^ 2 - 1 = 63
    BY ByteFacts
  <2> QED BY <1>0, <2>1, <2>2
<1>3. Framed(frame, seq, body)
  BY <1>1, <1>2, Frames DEF HostRight
<1>4. PICK sum : Sums(frame, sum)
  BY <1>3, SumsExist DEF Framed, HasSums
<1>5. \A k \in 0 .. Len(body) + 6 : SumTo(k) = sum[k]
  BY <1>3, <1>4, SumOfPrefix DEF Framed, SumTo
<1>6. SumTo(0) = 0
  <2>1. 0 \in 0 .. Len(body) + 6
    BY <1>2
  <2> QED BY <1>4, <1>5, <2>1 DEF Sums
<1>7. ASSUME NEW k \in 0 .. Len(body) + 6 PROVE SumIs(k)
  <2>1. SumTo(k) = sum[k] /\ sum[k] \in Bytes
    BY <1>3, <1>4, <1>5 DEF Sums, Framed
  <2>2. ASSUME k < Len(body) + 6
        PROVE  frame[k + 1] \in Bytes /\ SumTo(k + 1) = Xor(SumTo(k), frame[k + 1])
    <3>1. k + 1 \in 1 .. Len(frame) /\ k + 1 \in 0 .. Len(body) + 6 /\ k + 1 - 1 = k
      BY <1>2, <1>3, <2>2 DEF Framed
    <3>2. frame[k + 1] \in Bytes
      BY <1>3, <3>1 DEF Framed
    <3>3. sum[k + 1] = Xor(sum[k], frame[k + 1])
      BY <1>4, <3>1 DEF Sums
    <3> QED BY <1>5, <2>1, <3>1, <3>2, <3>3
  <2> QED BY <2>1, <2>2 DEF SumIs
<1>8. \A i \in 2 .. Len(body) + 6 : frame[i] # MESSAGE_START
  <2> DEFINE m == <<seq, body>>
  <2>1. m \in Messages /\ m[1] = seq /\ m[2] = body /\ frame = Frame(seq, body)
    BY DEF HostRight
  <2> HIDE DEF m
  <2> QED BY <2>1 DEF StartsApart
<1> QED BY <1>1, <1>2, <1>3, <1>6, <1>7, <1>8

(* A byte that comes as it was sent, or one that the line changed: the first, *)
(* and none that the frame hangs on.                                          *)
Comes(c) ==
  \/ c = frame[sent + 1] /\ noise' = noise
  \/ c # frame[sent + 1] /\ noise = 0 /\ noise' = 1 /\ sent \notin {0, 2, 3, 4}

(* What the checksum is after a byte.                                         *)
SumKept(c) ==
  /\ checksum' \in Bytes
  /\ \/ c = frame[sent + 1] /\ checksum = SumTo(sent) /\ checksum' = SumTo(sent + 1)
     \/ noise' > 0 /\ checksum' # SumTo(sent + 1)

(* A checksum that was right is right after the byte that was sent; one that  *)
(* was wrong, or that takes up another byte, is wrong.                        *)
LEMMA Absorbed ==
  ASSUME StartsApart, HostRight, NEW c \in Bytes, Absorb(c), sent < Len(body) + 6,
         checksum \in Bytes, checksum = SumTo(sent) \/ noise > 0, Comes(c)
  PROVE  SumKept(c)
<1>1. SumIs(sent)
  BY MessageRight DEF HostRight
<1>2. /\ SumTo(sent) \in Bytes /\ frame[sent + 1] \in Bytes
      /\ SumTo(sent + 1) = Xor(SumTo(sent), frame[sent + 1])
  BY <1>1 DEF SumIs
<1>3. checksum' = Xor(checksum, c) /\ checksum' \in Bytes
  BY XorApart DEF Absorb
<1>4. noise \in Nat
  BY DEF HostRight
<1>5. CASE c = frame[sent + 1] /\ noise' = noise
  <2>1. CASE checksum = SumTo(sent)
    BY <1>2, <1>3, <1>5, <2>1 DEF SumKept
  <2>2. CASE checksum # SumTo(sent)
    <3>1. checksum' # SumTo(sent + 1)
      BY <1>2, <1>3, <1>5, <2>2, XorApart
    <3> QED BY <1>3, <1>5, <2>2, <3>1 DEF SumKept
  <2> QED BY <2>1, <2>2
<1>6. CASE c # frame[sent + 1] /\ noise = 0 /\ noise' = 1
  <2>1. checksum = SumTo(sent)
    BY <1>6
  <2>2. checksum' # SumTo(sent + 1)
    <3> DEFINE x == SumTo(sent)
               d == frame[sent + 1]
    <3>1. x \in Bytes /\ d \in Bytes /\ c # d
      BY <1>2, <1>6
    <3> HIDE DEF x, d
    <3>2. Xor(x, c) # Xor(x, d)
      BY <3>1, XorApart
    <3> QED BY <1>2, <1>3, <2>1, <3>2 DEF x, d
  <2> QED BY <1>3, <1>6, <2>2 DEF SumKept
<1> QED BY <1>5, <1>6 DEF Comes

(* One pass over a byte, in each state of the parser                          *)
(* (stk500boot.c:741-814): the receiver keeps in step, or refuses the       *)
(* message at its end.                                                        *)
LEMMA ByteTaken ==
  ASSUME StartsApart, HostRight, NEW c \in Bytes, Parse(c), sent < Len(body) + 6,
         sent' = sent + 1, UNCHANGED <<seq, body, frame>>, Comes(c), Waiting \/ InMessage
  PROVE  Waiting' \/ InMessage' \/ Complete'
<1> DEFINE n == Len(body)
<1>0. /\ n \in 1 .. 63 /\ sent \in Nat /\ noise \in Nat /\ body \in Seq(Bytes)
      /\ sent' = sent + 1 /\ seq' = seq /\ body' = body /\ frame' = frame
  BY MessageRight DEF HostRight
<1>1. Framed(frame, seq, body) /\ SumTo(0) = 0 /\ \A k \in 0 .. n + 6 : SumIs(k)
  BY MessageRight
<1>2. \A k : SumTo(k)' = SumTo(k)
  BY <1>0 DEF SumTo
<1>3. CASE Waiting
  <2>1. msgParseState = "ST_START" /\ c = frame[sent + 1] /\ noise' = noise
    BY <1>0, <1>3 DEF Waiting, Comes
  <2>2. CASE sent = 0
    <3>1. c = MESSAGE_START
      BY <1>1, <2>1, <2>2 DEF Framed
    <3>2. msgParseState' = "ST_GET_SEQ_NUM" /\ checksum' = MESSAGE_START
      BY <2>1, <3>1 DEF Parse, Goto
    <3>3. SumTo(1) = MESSAGE_START
      <4>1. SumIs(0) /\ 0 + 1 = 1
        BY <1>0, <1>1
      <4>2. SumTo(1) = Xor(0, MESSAGE_START)
        BY <1>0, <1>1, <4>1, <3>1, <2>1, <2>2 DEF SumIs
      <4> QED BY <4>2, XorApart, ByteFacts
    <3>4. sent' = 1 /\ checksum' = SumTo(1)' /\ checksum' \in Bytes
      BY <1>0, <1>2, <2>2, <3>2, <3>3, ByteFacts
    <3>5. Received' /\ Place'
      BY <3>2, <3>4 DEF Received, Place
    <3> QED BY <3>4, <3>5 DEF InMessage
  <2>3. CASE sent # 0
    <3>1. noise > 0 /\ c # MESSAGE_START
      <4>1. sent + 1 \in 2 .. n + 6
        BY <1>0, <2>3
      <4>2. c # MESSAGE_START
        BY <2>1, <4>1, MessageRight
      <4> QED BY <1>0, <1>3, <2>3, <4>2 DEF Waiting
    <3>2. msgParseState' = "ST_START"
      BY <2>1, <3>1 DEF Parse
    <3> QED BY <2>1, <3>1, <3>2 DEF Waiting
  <2> QED BY <2>2, <2>3
<1>4. ASSUME InMessage PROVE checksum \in Bytes /\ (checksum = SumTo(sent) \/ noise > 0)
  BY <1>4 DEF InMessage, Received
<1>5. ASSUME InMessage, Absorb(c) PROVE SumKept(c)
  BY <1>4, <1>5, Absorbed
<1>6. CASE InMessage /\ sent = 1
  <2>1. msgParseState = "ST_GET_SEQ_NUM"
    BY <1>0, <1>6 DEF InMessage, Place
  <2>2. msgParseState' = "ST_MSG_SIZE_1" /\ seqNum' = c /\ SumKept(c)
    BY <1>5, <1>6, <2>1 DEF Parse, Goto
  <2>3. sent' = 2 /\ SumTo(sent)' = SumTo(sent + 1)
    BY <1>0, <1>6 DEF SumTo
  <2>4. c = frame[sent + 1] => c = seq
    BY <1>1, <1>6 DEF Framed
  <2>5. Received'
    BY <1>0, <2>2, <2>3, <2>4 DEF Received, SumKept
  <2>6. Place' /\ checksum' \in Bytes
    BY <2>2, <2>3 DEF Place, SumKept
  <2> QED BY <2>5, <2>6 DEF InMessage
<1>7. CASE InMessage /\ sent = 2
  <2>1. msgParseState = "ST_MSG_SIZE_1"
    BY <1>0, <1>7 DEF InMessage, Place
  <2>2. msgParseState' = "ST_MSG_SIZE_2" /\ msgLength' = c * ByteSize /\ seqNum' = seqNum
        /\ SumKept(c)
    BY <1>5, <1>7, <2>1 DEF Parse, Goto
  <2>3. sent' = 3 /\ SumTo(sent)' = SumTo(sent + 1)
    BY <1>0, <1>7 DEF SumTo
  <2>4. c = n \div ByteSize /\ noise' = noise
    BY <1>1, <1>7 DEF Framed, Comes
  <2>5. Received'
    BY <1>0, <1>7, <2>2, <2>3 DEF InMessage, Received, SumKept
  <2>6. Place' /\ checksum' \in Bytes
    BY <1>0, <2>2, <2>3, <2>4 DEF Place, SumKept
  <2> QED BY <2>5, <2>6 DEF InMessage
<1>8. CASE InMessage /\ sent = 3
  <2>1. msgParseState = "ST_MSG_SIZE_2" /\ msgLength = (n \div ByteSize) * ByteSize
    BY <1>0, <1>8 DEF InMessage, Place
  <2>2. msgParseState' = "ST_GET_TOKEN" /\ msgLength' = msgLength + c /\ seqNum' = seqNum
        /\ SumKept(c)
    BY <1>5, <1>8, <2>1 DEF Parse, Goto
  <2>3. sent' = 4 /\ SumTo(sent)' = SumTo(sent + 1)
    BY <1>0, <1>8 DEF SumTo
  <2>4. c = n % ByteSize /\ noise' = noise
    BY <1>1, <1>8 DEF Framed, Comes
  <2>5. Received'
    BY <1>0, <1>8, <2>2, <2>3 DEF InMessage, Received, SumKept
  <2>6. msgLength' = n
    BY <1>0, <2>1, <2>2, <2>4, ByteFacts
  <2>7. Place' /\ checksum' \in Bytes
    BY <1>0, <2>2, <2>3, <2>6 DEF Place, SumKept
  <2> QED BY <2>5, <2>7 DEF InMessage
<1>9. CASE InMessage /\ sent = 4
  <2>1. msgParseState = "ST_GET_TOKEN" /\ msgLength = n
    BY <1>0, <1>9 DEF InMessage, Place
  <2>2. c = TOKEN /\ noise' = noise
    BY <1>1, <1>9 DEF Framed, Comes
  <2>3. msgParseState' = "ST_GET_DATA" /\ msgLength' = n /\ seqNum' = seqNum /\ msgBuffer' = <<>>
        /\ SumKept(c)
    BY <1>5, <1>9, <2>1, <2>2 DEF Parse, Goto
  <2>4. sent' = 5 /\ SumTo(sent)' = SumTo(sent + 1)
    BY <1>0, <1>9 DEF SumTo
  <2>5. Received'
    BY <1>0, <1>9, <2>3, <2>4 DEF InMessage, Received, SumKept
  <2>6. Place' /\ checksum' \in Bytes
    BY <1>0, <2>3, <2>4 DEF Place, SumKept
  <2> QED BY <2>5, <2>6 DEF InMessage
<1>10. CASE InMessage /\ sent \in 5 .. n + 4
  <2>1. /\ msgParseState = "ST_GET_DATA" /\ msgLength = n
        /\ msgBuffer \in Seq(Bytes) /\ Len(msgBuffer) = sent - 5
    BY <1>0, <1>10 DEF InMessage, Place
  <2>2. /\ msgParseState' = IF EndOfBody(n) THEN "ST_GET_CHECK" ELSE "ST_GET_DATA"
        /\ msgLength' = n /\ seqNum' = seqNum /\ msgBuffer' = Append(msgBuffer, c)
    BY <2>1 DEF Parse, Goto
  <2>3. SumKept(c)
    BY <1>5, <1>10, <2>1 DEF Parse
  <2>4. SumTo(sent)' = SumTo(sent + 1)
    BY <1>0 DEF SumTo
  <2>5. /\ msgBuffer' \in Seq(Bytes) /\ Len(msgBuffer') = sent - 4
        /\ \A i \in 1 .. sent - 5 : msgBuffer'[i] = msgBuffer[i]
        /\ msgBuffer'[sent - 4] = c
    <3>1. Len(msgBuffer) + 1 = sent - 4
      BY <1>0, <2>1
    <3> QED BY <2>1, <2>2, <3>1, AppendProperties
  <2>6. c = frame[sent + 1] => c = body[sent - 4]
    <3>1. sent - 4 \in 1 .. n /\ 5 + (sent - 4) = sent + 1
      BY <1>0, <1>10
    <3> QED BY <1>1, <3>1 DEF Framed
  <2>7. Received'
    <3>1. CASE c = frame[sent + 1] /\ checksum = SumTo(sent) /\ checksum' = SumTo(sent + 1)
      <4>1. seqNum = seq /\ \A i \in 1 .. sent - 5 : msgBuffer[i] = body[i]
        BY <1>0, <1>10, <3>1 DEF InMessage, Received
      <4>2. ASSUME NEW i \in 1 .. sent' - 5 PROVE msgBuffer'[i] = body[i]
        <5>1. i = sent - 4 \/ i \in 1 .. sent - 5
          BY <1>0
        <5> QED BY <2>5, <2>6, <3>1, <4>1, <5>1
      <4>3. checksum' = SumTo(sent)' /\ seqNum' = seq'
        BY <1>0, <2>2, <2>4, <3>1, <4>1
      <4> QED BY <1>0, <4>2, <4>3 DEF Received
    <3>2. CASE noise' > 0 /\ checksum' # SumTo(sent + 1)
      BY <2>4, <3>2 DEF Received
    <3> QED BY <2>3, <3>1, <3>2 DEF SumKept
  <2>8. Place'
    <3>1. EndOfBody(n) <=> sent = n + 4
      BY <1>0, <1>10, <2>1 DEF EndOfBody
    <3>2. CASE sent = n + 4
      BY <1>0, <2>2, <2>5, <3>1, <3>2 DEF Place
    <3>3. CASE sent # n + 4
      <4>1. sent' \in 5 .. n + 4 /\ Len(msgBuffer') = sent' - 5
        BY <1>0, <1>10, <2>5, <3>3
      <4> QED BY <1>0, <2>2, <2>5, <3>1, <3>3, <4>1 DEF Place
    <3> QED BY <3>2, <3>3
  <2> QED BY <2>3, <2>7, <2>8 DEF InMessage, SumKept
<1>11. CASE InMessage /\ sent = n + 5
  <2>1. /\ msgParseState = "ST_GET_CHECK"
        /\ msgBuffer \in Seq(Bytes) /\ Len(msgBuffer) = n
    BY <1>0, <1>11 DEF InMessage, Place
  <2>2. /\ msgParseState' = IF c = checksum THEN "ST_PROCESS" ELSE "ST_START"
        /\ msgBuffer' = msgBuffer /\ seqNum' = seqNum
    BY <2>1 DEF Parse, Goto, Checked
  <2>3. frame[sent + 1] = SumTo(sent) /\ sent' = n + 6
    <3>1. sent + 1 = n + 6
      BY <1>0, <1>11
    <3> QED BY <1>0, <1>1, <1>11, <3>1 DEF Framed, SumTo
  <2>4. CASE c = checksum
    <3>1. checksum = SumTo(sent)
      BY <1>0, <1>11, <2>3, <2>4 DEF InMessage, Received, Comes
    <3>2. seqNum = seq /\ \A i \in 1 .. n : msgBuffer[i] = body[i]
      <4>1. sent - 5 = n /\ sent >= 5
        BY <1>0, <1>11
      <4> QED BY <1>0, <1>11, <3>1, <4>1 DEF InMessage, Received
    <3>3. msgBuffer = body
      BY <1>0, <2>1, <3>2, SeqEqual
    <3> QED BY <1>0, <2>2, <2>3, <2>4, <3>2, <3>3 DEF Complete
  <2>5. CASE c # checksum
    BY <1>0, <2>2, <2>3, <2>5 DEF Waiting
  <2> QED BY <2>4, <2>5
<1>12. sent = 1 \/ sent = 2 \/ sent = 3 \/ sent = 4 \/ sent \in 5 .. n + 4 \/ sent = n + 5
       \/ ~InMessage
  BY <1>0 DEF InMessage, Place
<1> QED
  <2> HIDE DEF n
  <2> QED BY <1>3, <1>6, <1>7, <1>8, <1>9, <1>10, <1>11, <1>12

(* A byte of the host's, whatever the line makes of it.                       *)
LEMMA HostStep ==
  ASSUME StartsApart, InStepWithHost, SendByte
  PROVE  InStepWithHost'
<1>0. /\ line = "messages" /\ msgParseState # "ST_PROCESS"
      /\ sent < Len(frame) /\ sent' = sent + 1
      /\ seq' = seq /\ body' = body /\ frame' = frame /\ ~answered' /\ HostRight
  BY DEF SendByte, Listening, InStepWithHost
<1>1. /\ Framed(frame, seq, body) /\ Len(body) \in 1 .. 63 /\ sent < Len(body) + 6
      /\ sent \in Nat /\ noise \in Nat
  BY <1>0, MessageRight DEF Framed, HostRight
<1>2. ASSUME NEW c, Receive(c)
      PROVE  \/ line' = "monitor" /\ msgParseState' # "ST_PROCESS"
             \/ line' = "messages" /\ Parse(c)
  BY <1>0, <1>2 DEF Receive, bufferVars
<1>3. ASSUME HostRight', noise' >= noise, NEW c \in Bytes, Receive(c),
             noise' < 2 /\ ~torn' => noise < 2 /\ ~torn /\ Comes(c)
      PROVE  InStepWithHost'
  <2>1. CASE line' = "monitor" /\ msgParseState' # "ST_PROCESS"
    BY <1>0, <1>3, <2>1 DEF InStepWithHost
  <2>2. CASE line' = "messages" /\ Parse(c)
    <3>1. ASSUME noise' < 2, ~torn' PROVE Waiting' \/ InMessage' \/ Complete'
      <4>1. Waiting \/ InMessage
        BY <1>0, <1>3, <3>1 DEF InStepWithHost, Complete
      <4> QED BY <1>0, <1>1, <1>3, <2>2, <3>1, <4>1, ByteTaken
    <3> QED BY <1>0, <1>3, <2>2, <3>1 DEF InStepWithHost
  <2> QED BY <1>2, <1>3, <2>1, <2>2
<1>4. CASE Receive(frame[sent + 1]) /\ UNCHANGED <<noise, torn>>
  <2>1. HostRight'
    BY <1>0, <1>1, <1>4 DEF HostRight
  <2>2. frame[sent + 1] \in Bytes
    BY <1>1 DEF Framed
  <2>3. Comes(frame[sent + 1])
    BY <1>4 DEF Comes
  <2> QED BY <1>1, <1>3, <1>4, <2>1, <2>2, <2>3
<1>5. CASE /\ noise' = noise + 1 /\ sent \notin {2, 3} /\ torn' = (torn \/ sent \in {0, 4})
           /\ \E d \in Noise \ {frame[sent + 1]} : Receive(d)
  <2>1. HostRight'
    BY <1>0, <1>1, <1>5 DEF HostRight
  <2>2. PICK d \in Noise \ {frame[sent + 1]} : Receive(d)
    BY <1>5
  <2>3. d \in Bytes /\ d # frame[sent + 1]
    BY ByteFacts
  <2>4. noise' < 2 /\ ~torn' => noise < 2 /\ ~torn /\ Comes(d)
    <3> SUFFICES ASSUME noise' < 2, ~torn' PROVE noise < 2 /\ ~torn /\ Comes(d)
      OBVIOUS
    <3>1. noise = 0 /\ noise' = 1
      BY <1>1, <1>5
    <3>2. ~torn /\ sent \notin {0, 4}
      <4>1. ~(torn \/ sent \in {0, 4})
        BY <1>5
      <4> QED BY <4>1
    <3> QED BY <1>5, <2>3, <3>1, <3>2 DEF Comes
  <2> QED BY <1>1, <1>3, <1>5, <2>1, <2>2, <2>3, <2>4
<1>6. CASE /\ noise' = noise + 1 /\ torn' = TRUE
           /\ UNCHANGED <<line, bufferVars, rcvdCharCntr, exPointCntr, monitorVars>>
  <2>1. HostRight'
    BY <1>0, <1>1, <1>6 DEF HostRight
  <2> QED BY <1>0, <1>6, <2>1 DEF InStepWithHost, bufferVars
<1> QED BY <1>4, <1>5, <1>6 DEF SendByte

(* The other steps: the host that waits, an answer, the operator.             *)
LEMMA OtherSteps ==
  ASSUME StartsApart, InStepWithHost, SendAgain \/ NextMessage \/ Process \/ StrikeBang \/ Monitor
  PROVE  InStepWithHost'
<1>0. HostRight /\ Framed(frame, seq, body) /\ Len(body) \in 1 .. 63
  BY MessageRight DEF InStepWithHost
<1>1. CASE SendAgain
  <2>1. HostRight'
    BY <1>0, <1>1 DEF SendAgain, HostRight
  <2>2. /\ sent = Len(body) + 6 /\ sent' = 0 /\ ~answered'
        /\ UNCHANGED <<line, msgParseState, noise, torn>>
    BY <1>0, <1>1 DEF SendAgain, Framed, bufferVars
  <2>3. ~InMessage /\ ~Complete
    BY <1>0, <1>1, <2>2 DEF SendAgain, Listening, InMessage, Place, Complete
  <2> QED BY <2>1, <2>2, <2>3 DEF InStepWithHost, Waiting
<1>2. CASE NextMessage
  <2>1. /\ seq < MaxMessages /\ seq' = seq + 1 /\ body' \in Bodies /\ frame' = Frame(seq', body')
        /\ sent' = 0 /\ UNCHANGED <<line, msgParseState, noise, torn>>
        /\ msgParseState # "ST_PROCESS"
    BY <1>2 DEF NextMessage, bufferVars, Listening
  <2>2. <<seq', body'>> \in Messages
    <3>1. seq' \in 2 .. MaxMessages
      BY <1>0, <2>1 DEF HostRight, StartsApart, Messages
    <3> QED BY <2>1, <3>1 DEF Messages
  <2>3. Len(body') \in 1 .. 63
    <3>1. \A b \in Bodies \cup {SignOn} : Len(b) \in 1 .. ByteSize ^ 2 - 1
      BY MessageAssumption
    <3>2. ByteSize ^ 2 - 1 = 63
      BY ByteFacts
    <3> QED BY <2>1, <3>1, <3>2
  <2>4. HostRight'
    BY <1>0, <2>1, <2>2, <2>3 DEF HostRight
  <2>5. msgParseState' = "ST_START"
    BY <1>2, <2>1 DEF NextMessage, InStepWithHost
  <2>6. ~answered'
    BY <1>2 DEF NextMessage
  <2> QED BY <2>1, <2>4, <2>5, <2>6 DEF InStepWithHost, Waiting
<1>3. CASE Process
  <2>1. /\ msgParseState = "ST_PROCESS" /\ line = "messages" /\ msgParseState' = "ST_START"
        /\ torn' = FALSE /\ UNCHANGED <<line, noise, seq, body, frame, sent>>
    BY <1>3 DEF Process
  <2>2. HostRight'
    BY <1>0, <2>1 DEF HostRight
  <2>3. noise < 2 => noise > 0 \/ sent = Len(body) + 6
    <3>1. CASE torn
      BY <1>0, <3>1 DEF HostRight
    <3>2. CASE ~torn
      BY <2>1, <3>2 DEF InStepWithHost, Waiting, InMessage, Place, Complete
    <3> QED BY <3>1, <3>2
  <2> QED BY <2>1, <2>2, <2>3 DEF InStepWithHost, Waiting
<1>4. CASE StrikeBang
  <2>1. /\ line = "messages" /\ msgParseState # "ST_PROCESS" /\ sent = 0 /\ Receive(Bang)
        /\ UNCHANGED <<seq, body, frame, sent, answered, torn, noise>>
    BY <1>4 DEF StrikeBang, Listening, hostVars
  <2>2. HostRight'
    BY <1>0, <2>1 DEF HostRight
  <2>3. msgParseState = "ST_START" => msgParseState' = "ST_START"
    BY <2>1 DEF Receive, Parse, StartsApart, bufferVars
  <2>4. CASE line' = "monitor" /\ msgParseState' = msgParseState
    BY <2>1, <2>2, <2>4 DEF InStepWithHost
  <2>5. CASE line' = "messages"
    <3>1. ASSUME noise < 2, ~torn PROVE Waiting'
      <4>1. ~InMessage /\ ~Complete
        BY <1>0, <2>1 DEF InMessage, Place, Complete
      <4> QED BY <2>1, <2>3, <3>1, <4>1 DEF InStepWithHost, Waiting
    <3> QED BY <2>1, <2>2, <2>3, <2>5, <3>1 DEF InStepWithHost
  <2> QED BY <2>1, <2>4, <2>5 DEF Receive, bufferVars
<1>5. CASE Monitor
  <2>1. /\ line = "monitor" /\ line' # "messages"
        /\ UNCHANGED <<msgParseState, seq, body, frame, sent, answered, torn, noise>>
    BY <1>5 DEF Monitor, FromTheStart, DumpFlash, DumpEeprom, Show, TestEeprom, Blink, AskPort,
                PortOutput, AnyKey, Quit, Strike, bufferVars, hostVars
  <2> QED BY <1>0, <2>1 DEF InStepWithHost, HostRight
<1> QED BY <1>1, <1>2, <1>3, <1>4, <1>5

(* If the line has changed or lost at most one byte so far, and of the        *)
(* message itself none but one that only the checksum tells, what the         *)
(* bootloader acts on is what the host sent: a message that is refused is     *)
(* read to its end, and the next one from its start (stk500boot.c:741-814). *)
THEOREM SentCorrect == StartsApart => (BothSpec => []OnlySent)
<1> SUFFICES ASSUME StartsApart PROVE BothSpec => []OnlySent
  OBVIOUS
<1>1. BothInit => InStepWithHost
  <2> SUFFICES ASSUME Init PROVE InStepWithHost
    BY DEF BothInit
  <2>1. /\ line = "messages" /\ msgParseState = "ST_START" /\ ~answered /\ torn = FALSE
        /\ seq = 1 /\ body = SignOn /\ frame = Frame(1, SignOn) /\ sent = 0 /\ noise = 0
    BY DEF Init
  <2>2. Len(body) + 6 \in Nat
    BY <2>1 DEF StartsApart
  <2>3. HostRight
    <3>1. <<1, SignOn>> \in Messages
      BY DEF Messages
    <3>2. 0 \in 0 .. Len(body) + 6 /\ 0 \in Nat
      BY <2>2
    <3>3. torn \in BOOLEAN /\ ~torn
      BY <2>1
    <3> QED BY <2>1, <3>1, <3>2, <3>3, Zenon DEF HostRight
  <2> QED BY <2>1, <2>3 DEF InStepWithHost, Waiting
<1>2. InStepWithHost /\ [BothNext]_bothVars => InStepWithHost'
  <2> SUFFICES ASSUME InStepWithHost, [BothNext]_bothVars PROVE InStepWithHost'
    OBVIOUS
  <2>1. CASE Next
    <3>1. SendByte \/ SendAgain \/ NextMessage \/ Process \/ StrikeBang \/ Monitor
      BY <2>1 DEF Next, Host
    <3> QED BY <3>1, HostStep, OtherSteps
  <2>2. CASE UNCHANGED vars
    BY <2>2 DEF vars, bufferVars, hostVars, InStepWithHost, HostRight, Waiting, InMessage, Received,
                Place, Complete, SumTo
  <2> QED BY <2>1, <2>2 DEF BothNext, OnLine, OnFlash, bothVars
<1>3. InStepWithHost => OnlySent
  BY DEF InStepWithHost, OnlySent, Waiting, InMessage, Place, Complete
<1> QED BY <1>1, <1>2, <1>3, PTL DEF BothSpec
=============================================================================

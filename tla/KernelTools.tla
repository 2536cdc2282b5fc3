----------------------------- MODULE KernelTools -----------------------------
(***************************************************************************)
(* The sequential algorithms around the ucore kernel, each called once on  *)
(* every small input: the boot loader's copy of the kernel image, the      *)
(* printing and reading of numbers, the search of the debugging tables,    *)
(* and the kernel monitor's command line.                                  *)
(*                                                                         *)
(* A byte of the image is represented by its offset in the file.  A string *)
(* is a sequence of characters.  An entry of the debugging tables is       *)
(* [type, value].                                                          *)
(***************************************************************************)
EXTENDS Integers, Sequences, SequencesExt, FiniteSetsExt

CONSTANTS SECTSIZE, MemSize, BUFSIZE, MAXARGS, MaxKeys

VARIABLES call, result

toolVars == <<call, result>>

-----------------------------------------------------------------------------
(* The boot loader.  readseg copies whole sectors, from the one that holds *)
(* the segment's first byte to the one that holds its last.                *)
Memory == 0..(MemSize - 1)
Junk == -1
Zero == -2

(* Mutant for ToolsSound: only as many bytes as asked are copied, counted  *)
(* from the start of the first sector.                                     *)
readsegShort(mem, seg) ==
  LET first == seg.va - (seg.offset % SECTSIZE)
  IN [a \in Memory |-> IF first <= a /\ a < first + seg.memsz
                       THEN a - first + (seg.offset \div SECTSIZE) * SECTSIZE ELSE mem[a]]

readseg(mem, seg) ==
  LET first == seg.va - (seg.offset % SECTSIZE)
      sectors == (seg.va + seg.memsz - first + SECTSIZE - 1) \div SECTSIZE
  IN [a \in Memory |-> IF first <= a /\ a < first + sectors * SECTSIZE
                       THEN a - first + (seg.offset \div SECTSIZE) * SECTSIZE ELSE mem[a]]

(* bootmain loads the segments in the order of the file, or nothing if it  *)
(* is not an ELF file; kern_init then clears what the last segment has in  *)
(* memory and not in the file.                                             *)
bootmain(elf, segs) == FoldLeft(readseg, [a \in Memory |-> Junk], IF elf THEN segs ELSE <<>>)

ClearBss(mem, seg) ==
  [a \in Memory |-> IF seg.va + seg.filesz <= a /\ a < seg.va + seg.memsz THEN Zero ELSE mem[a]]

(* Images as the linker lays them out: both addresses and offsets ascend,  *)
(* a segment starts at the same place in its sector in the file and in     *)
(* memory, only the last one is larger in memory than in the file, and two *)
(* segments share a sector of memory only if they do in the file.          *)
Segments == {s \in [va : 0..(MemSize - 2 * SECTSIZE), offset : 0..(MemSize - 2 * SECTSIZE),
                    filesz : 1..SECTSIZE, memsz : 1..(SECTSIZE + 1)] :
               s.filesz <= s.memsz /\ s.va % SECTSIZE = s.offset % SECTSIZE}

Image(s, t) ==
  /\ s.filesz = s.memsz
  /\ s.va + s.memsz <= t.va /\ s.offset + s.filesz <= t.offset
  /\ \/ t.va - s.va = t.offset - s.offset
     \/ (s.va + s.memsz - 1) \div SECTSIZE < t.va \div SECTSIZE

Boot ==
  \E s, t \in Segments, elf \in BOOLEAN :
    /\ Image(s, t)
    /\ call' = [fn |-> IF elf THEN "boot" ELSE "bad", segs |-> <<s, t>>]
    /\ result' = [memory |-> IF elf THEN ClearBss(bootmain(elf, <<s, t>>), t) ELSE bootmain(elf, <<s, t>>)]

(* The kernel in memory is the kernel of the file, although readseg writes *)
(* whole sectors and thereby over the neighbours of a segment.             *)
ImageLoaded ==
  call.fn = "boot" =>
    \A k \in 1..2 : \A i \in 0..(call.segs[k].memsz - 1) :
      result.memory[call.segs[k].va + i] =
        IF i < call.segs[k].filesz THEN call.segs[k].offset + i ELSE Zero

-----------------------------------------------------------------------------
(* Numbers.  printnum pads before the first digit; of vprintfmt the        *)
(* conversions of numbers.                                                 *)
Numerals == <<"0", "1", "2", "3", "4", "5", "6", "7", "8", "9", "a", "b", "c", "d", "e", "f">>

printnum(num, base, width, padc) ==
  LET print[n \in Nat, w \in Int] ==
        Append(IF n >= base THEN print[n \div base, w - 1]
               ELSE [i \in 1..(IF w > 1 THEN w - 1 ELSE 0) |-> padc],
               Numerals[(n % base) + 1])
  IN print[num, width]

vprintfmt(conv, num, width, padc) ==
  IF conv = "d" /\ num < 0 THEN <<"-">> \o printnum(-num, 10, width, padc)
  ELSE printnum(num, CASE conv \in {"d", "u"} -> 10 [] conv = "o" -> 8 [] conv = "x" -> 16, width, padc)

Value(c) == CHOOSE d \in 0..15 : Numerals[d + 1] = c
Digit(c, base) == \E d \in 0..(base - 1) : Numerals[d + 1] = c

Starts(prefix, s) == Len(s) >= Len(prefix) /\ SubSeq(s, 1, Len(prefix)) = prefix
From(s, k) == SubSeq(s, k, Len(s))

(* The value of the digits that s starts with, and what follows them.      *)
Digits(s, base) ==
  LET n == Max({k \in 0..Len(s) : \A i \in 1..k : Digit(s[i], base)})
  IN [val |-> FoldLeft(LAMBDA val, c : val * base + Value(c), 0, SubSeq(s, 1, n)),
      rest |-> From(s, n + 1)]

SkipSpaces(s) == From(s, Max({k \in 0..Len(s) : \A i \in 1..k : s[i] = " "}) + 1)

strtol(text, base) ==
  LET t == SkipSpaces(text)
      signed == Starts(<<"+">>, t) \/ Starts(<<"-">>, t)
      s == IF signed THEN Tail(t) ELSE t
      n == IF base \in {0, 16} /\ Starts(<<"0", "x">>, s) THEN Digits(From(s, 3), 16)
           ELSE IF base = 0 /\ Starts(<<"0">>, s) THEN Digits(Tail(s), 8)
           ELSE Digits(s, IF base = 0 THEN 10 ELSE base)
  IN [n EXCEPT !.val = IF Starts(<<"-">>, t) THEN -n.val ELSE n.val]

(* A number printed with and without the prefix of its base.               *)
PrintNumber ==
  \E num \in {-17, -1, 0, 1, 7, 8, 9, 10, 15, 16, 255, 256, 1000}, conv \in {"d", "u", "o", "x"},
     width \in {-1, 0, 1, 3, 5}, padc \in {" ", "0"}, prefixed \in BOOLEAN :
    /\ conv = "d" \/ num >= 0
    /\ prefixed => width = -1
    /\ call' = [fn |-> "print", num |-> num, width |-> width, padc |-> padc, conv |-> conv,
                prefixed |-> prefixed]
    /\ result' = [text |-> (IF ~prefixed THEN <<>>
                             ELSE CASE conv = "o" -> <<"0">> [] conv = "x" -> <<"0", "x">>
                                    [] OTHER -> <<" ", " ">>)
                            \o vprintfmt(conv, num, width, padc)]

(* What vprintfmt prints strtol reads back, to its end, and the text has   *)
(* the width asked for.  (A minus sign stands before the padding and       *)
(* outside the width, so that strtol stops at the spaces after it.)        *)
NumberReadBack ==
  call.fn = "print" =>
    LET base == IF call.prefixed THEN 0
                ELSE CASE call.conv \in {"d", "u"} -> 10 [] call.conv = "o" -> 8 [] OTHER -> 16
        text == result.text
        padded == call.num < 0 /\ call.padc = " " /\ Len(text) > 1 /\ text[2] = " "
    IN /\ ~padded => strtol(text, base) = [val |-> call.num, rest |-> <<>>]
       /\ Len(text) >= call.width
       /\ \/ call.prefixed \/ Len(text) <= call.width + 1
          \/ Len(text) = Len(vprintfmt(call.conv, call.num, -1, " "))

-----------------------------------------------------------------------------
(* stab_binsearch: the loop, then the search for the last entry of the     *)
(* type.  Entries are numbered from 0.                                     *)
Stab(stabs, i) == stabs[i + 1]

Region == [left : Int, right : Int, any : BOOLEAN]

BinSearch(stabs, type, left, right, address) ==
  LET search[l \in Int, r \in Int, addr \in Int, region \in Region] ==
        LET true_m == (l + r) \div 2
            found == {i \in l..true_m : Stab(stabs, i).type = type}
            m == Max(found)
        IN IF l > r THEN region
           ELSE IF found = {} THEN search[true_m + 1, r, addr, region]
           ELSE IF Stab(stabs, m).value < addr
           THEN search[true_m + 1, r, addr, [region EXCEPT !.left = m, !.any = TRUE]]
           ELSE IF Stab(stabs, m).value > addr
           THEN search[l, m - 1, addr, [region EXCEPT !.right = m - 1, !.any = TRUE]]
           ELSE search[m, r, addr + 1, [region EXCEPT !.left = m, !.any = TRUE]]
  IN search[left, right, address, [left |-> left, right |-> right, any |-> FALSE]]

stab_binsearch(stabs, left, right, type, addr) ==
  LET region == BinSearch(stabs, type, left, right, addr)
      last == {i \in (region.left + 1)..region.right : Stab(stabs, i).type = type}
  IN IF ~region.any THEN [left |-> left, right |-> left - 1]
     ELSE [left |-> IF last # {} THEN Max(last)
                    ELSE IF region.right < region.left THEN region.right ELSE region.left,
           right |-> region.right]

(* debuginfo_eip: the file, the function in it, the line in that.          *)
debuginfo_eip(stabs, addr) ==
  LET file == stab_binsearch(stabs, 0, Len(stabs) - 1, "SO", addr)
      fun == stab_binsearch(stabs, file.left, file.right, "FUN", addr)
      known == fun.left <= fun.right
      fn_addr == IF known THEN Stab(stabs, fun.left).value ELSE addr
      line == IF known THEN stab_binsearch(stabs, fun.left, fun.right, "SLINE", addr - fn_addr)
              ELSE stab_binsearch(stabs, file.left, file.right, "SLINE", addr)
      names == {i \in file.left..line.left : Stab(stabs, i).type = "SO" /\ Stab(stabs, i).value # 0}
      others == {i \in (fun.left + 1)..(fun.right - 1) : Stab(stabs, i).type # "PSYM"}
  IN IF file.left = 0 \/ line.left > line.right THEN [found |-> FALSE]
     ELSE [found |-> TRUE, fn |-> fn_addr, line |-> line.right,
           file |-> IF names = {} THEN "unknown" ELSE Max(names),
           narg |-> IF fun.left >= fun.right THEN 0
                    ELSE (IF others = {} THEN fun.right ELSE Min(others)) - fun.left - 1]

(* The table the compiler writes for these functions, one after the other  *)
(* from address 1 on, each FunSize long: a header, an entry for every      *)
(* source file, and for every function its name, its arguments and its     *)
(* lines, which count from the start of the function; and the end.         *)
FunSize == 3
Funs == [newfile : BOOLEAN, narg : 0..1, lines : {<<0>>, <<0, 1>>, <<0, 2>>, <<0, 1, 2>>}]

Entries(k, f) ==
  (IF k = 1 \/ f.newfile THEN <<[type |-> "SO", value |-> 1 + (k - 1) * FunSize]>> ELSE <<>>)
  \o <<[type |-> "FUN", value |-> 1 + (k - 1) * FunSize]>>
  \o [i \in 1..f.narg |-> [type |-> "PSYM", value |-> 0]]
  \o [i \in DOMAIN f.lines |-> [type |-> "SLINE", value |-> f.lines[i]]]

Table(fs) ==
  <<[type |-> "UNDF", value |-> 0]>> \o Entries(1, fs[1]) \o Entries(2, fs[2])
  \o <<[type |-> "SO", value |-> 1 + 2 * FunSize]>>

FindLine ==
  \E f, g \in Funs, addr \in 0..(2 + 2 * FunSize) :
    /\ call' = [fn |-> "debug", table |-> Table(<<f, g>>), fs |-> <<f, g>>, addr |-> addr]
    /\ result' = debuginfo_eip(Table(<<f, g>>), addr)

(* The function that holds the address, counted from 1, and its start.     *)
Holder == (call.addr - 1) \div FunSize + 1
HolderStart == 1 + (Holder - 1) * FunSize

(* An address in a function is found with that function, its file and its  *)
(* number of arguments, and at one of the function's own lines; no other   *)
(* address is found.                                                       *)
FunctionFound ==
  call.fn = "debug" =>
    LET stabs == call.table
        k == Holder
        start == HolderStart
        entry == CHOOSE i \in DOMAIN stabs : stabs[i] = [type |-> "FUN", value |-> start]
    IN IF call.addr \notin 1..(2 * FunSize) THEN ~result.found
       ELSE /\ result.found /\ result.fn = start
            /\ result.narg = call.fs[k].narg
            /\ stabs[result.file + 1] = [type |-> "SO", value |->
                 IF call.fs[2].newfile THEN start ELSE 1]
            /\ \E i \in DOMAIN call.fs[k].lines :
                 /\ result.line + 1 = entry + call.fs[k].narg + i
                 /\ stabs[result.line + 1] = [type |-> "SLINE", value |-> call.fs[k].lines[i]]

(* stab_binsearch finds the entry of the type that contains the address    *)
(* (kdebug.c:39): the line found is the last that starts at or before it.  *)
(* The code goes on with addr + 1 after an exact match, so a line that     *)
(* starts one byte later is found in its place.                            *)
LineContains ==
  call.fn = "debug" /\ result.found =>
    call.table[result.line + 1].value =
      Max({l \in Range(call.fs[Holder].lines) : l <= call.addr - HolderStart})

-----------------------------------------------------------------------------
(* The kernel monitor.  readline keeps at most BUFSIZE - 1 characters and  *)
(* echoes those it keeps and the backspaces it obeys.                      *)
ReadChar(s, c) ==
  IF c # "back" /\ Len(s.buf) < BUFSIZE - 1
  THEN [buf |-> Append(s.buf, c), echo |-> Append(s.echo, c)]
  ELSE IF c = "back" /\ s.buf # <<>>
  THEN [buf |-> Front(s.buf), echo |-> Append(s.echo, c)]
  ELSE s

readline(keys) == FoldLeft(ReadChar, [buf |-> <<>>, echo |-> <<>>], keys)

(* The words of a line.                                                    *)
WordStarts(line) == {i \in DOMAIN line : line[i] # " " /\ (i = 1 \/ line[i - 1] = " ")}
WordAt(line, i) ==
  SubSeq(line, i, Min({j \in i..Len(line) : j = Len(line) \/ line[j + 1] = " "}))

(* parse fills argv and warns of too many arguments, but does not stop:    *)
(* beyond MAXARGS it writes past the end of argv.                          *)
parse(line) ==
  [argv |-> [k \in 1..Cardinality(WordStarts(line)) |->
               WordAt(line, SetToSortSeq(WordStarts(line), <)[k])],
   warned |-> Cardinality(WordStarts(line)) >= MAXARGS]

(* runcmd looks the first word up; "h" stands for the name of a command.   *)
runcmd(line) ==
  LET p == parse(line)
  IN [p EXCEPT !.argv = IF @ = <<>> THEN <<"nothing">>
                        ELSE IF Head(@) = <<"h">> THEN <<"mon_help">> \o Tail(@)
                        ELSE <<"unknown">> \o Tail(@)]

Keystrokes == UNION {[1..n -> {"h", "z", " ", "back"}] : n \in 0..MaxKeys}

Command ==
  \E keys \in Keystrokes :
    LET r == readline(keys)
    IN /\ call' = [fn |-> "command", keys |-> keys, echo |-> r.echo]
       /\ result' = [line |-> r.buf, done |-> runcmd(r.buf)]

(* What stands on the screen after the echo.                               *)
Shown(echo) == FoldLeft(LAMBDA s, c : IF c = "back" THEN Front(s) ELSE Append(s, c), <<>>, echo)

(* The command run is the one that stands on the screen, and nothing but   *)
(* what does not fit is left out.                                          *)
CommandSeen ==
  call.fn = "command" =>
    /\ Shown(call.echo) = result.line
    /\ Len(result.line) < BUFSIZE
    /\ Len(call.keys) < BUFSIZE => Len(SelectSeq(call.keys, LAMBDA c : c # "back"))
                                   = Len(SelectSeq(call.echo, LAMBDA c : c # "back"))
    /\ (result.done.argv[1] = "mon_help") <=>
         \E i \in 1..Len(result.line) :
           /\ result.line[i] = "h" /\ (i = Len(result.line) \/ result.line[i + 1] = " ")
           /\ \A j \in 1..(i - 1) : result.line[j] = " "

(* There are at most MAXARGS arguments, as the message of parse says       *)
(* (kmonitor.c:51): argv, which has room for as many, is not overrun.      *)
ArgvInBounds == call.fn = "command" => Len(result.done.argv) <= MAXARGS

-----------------------------------------------------------------------------
Init == call = [fn |-> "none"] /\ result = <<>>

Next == call.fn = "none" /\ (Boot \/ PrintNumber \/ FindLine \/ Command)

Spec == Init /\ [][Next]_toolVars

(* The boot loader leaves the kernel of the file in memory, what vprintfmt *)
(* prints strtol reads back, debuginfo_eip finds function, file and number *)
(* of arguments, and the monitor runs the command that is on the screen.   *)
ToolsSound == ImageLoaded /\ NumberReadBack /\ FunctionFound /\ CommandSeen
=============================================================================

---------------------------- MODULE FirmwareImage ----------------------------
(***************************************************************************)
(* src/sw/vmem_to_mif.py: the memory image of the firmware, written by     *)
(* srec_cat for $readmemh, becomes the file Quartus initialises the same   *)
(* memory from.  What is in the memory must not depend on the tool.        *)
(*                                                                         *)
(* A .vmem file is a sequence of lexemes: an address, the digits of a      *)
(* word, a comment with its text in lexemes.  A .mif file is a function    *)
(* from the addresses it has lines for to words.                           *)
(***************************************************************************)
EXTENDS Integers, Sequences, FiniteSets, SequencesExt

CONSTANTS
    Files,           \* .vmem files
    Depth,           \* --depth, positive
    MaxDigits,       \* digits of a word, positive (8 in the code)
    None

\* Addresses and words between comments; the text of a comment has both.
Plain == [kind : {"at"}, address : Nat] \cup [kind : {"word"}, digits : Seq(0 .. 15) \ {<<>>}]
Lexeme == Plain \cup [kind : {"block", "line"}, text : Seq(Plain)]

VARIABLES vmem, mif, step, line
vars == <<vmem, mif, step, line>>

-----------------------------------------------------------------------------
\* parse_vmem.  A run of digits is as many words as it takes.
Chunks(digits) ==
    [k \in 1 .. (Len(digits) + MaxDigits - 1) \div MaxDigits |->
        SubSeq(digits, MaxDigits * (k - 1) + 1,
               IF MaxDigits * k < Len(digits) THEN MaxDigits * k ELSE Len(digits))]

Number(digits) == FoldLeft(LAMBDA n, d : 16 * n + d, 0, digits)

\* d[key] = value
Assign(d, key, value) == [k \in DOMAIN d \cup {key} |-> IF k = key THEN value ELSE d[k]]

Put(words, chunk) ==
    [content |-> Assign(words.content, words.address, Number(chunk)),
     address |-> words.address + 1]

\* Fault: an address does not move the words after it.
TokenNoAddress(words, t) ==
    IF t.kind = "at" THEN words ELSE FoldLeft(Put, words, Chunks(t.digits))

Token(words, t) ==
    IF t.kind = "at" THEN [words EXCEPT !.address = t.address]
    ELSE FoldLeft(Put, words, Chunks(t.digits))

\* Block comments go, their text with them; what else is not an address or a
\* word is skipped, a line comment's slashes but not its text.
Read(words, l) ==
    CASE l.kind = "block" -> words
      [] l.kind = "line" -> FoldLeft(Token, words, l.text)
      [] OTHER -> Token(words, l)

ParseVmem(file) == FoldLeft(Read, [content |-> <<>>, address |-> 0], file).content

-----------------------------------------------------------------------------
\* main: parse, look at the depth, open the output, write line after line.

Words == ParseVmem(vmem)

Convert ==
    /\ step = "start"
    /\ IF \E a \in DOMAIN Words : a >= Depth
       THEN step' = "refused" /\ UNCHANGED mif
       ELSE step' = "write" /\ mif' = <<>>
    /\ UNCHANGED <<vmem, line>>

WriteLine ==
    /\ step = "write" /\ line < Depth
    /\ mif' = Assign(mif, line, IF line \in DOMAIN Words THEN Words[line] ELSE 0)
    /\ line' = line + 1
    /\ UNCHANGED <<vmem, step>>

Close ==
    /\ step = "write" /\ line = Depth
    /\ step' = "done"
    /\ UNCHANGED <<vmem, mif, line>>

Init == vmem \in Files /\ mif = None /\ step = "start" /\ line = 0

Next == Convert \/ WriteLine \/ Close

-----------------------------------------------------------------------------
(***************************************************************************)
(* $readmemh: comments of both kinds are blank, a word has MaxDigits       *)
(* digits at most.  A word stands where the last address before it and the *)
(* words since say; of two words for one place the later one stays.        *)
(***************************************************************************)
IsWord(file, i) == file[i].kind = "word"

Ats(file, k) == {j \in 1 .. k : file[j].kind = "at"}

From(file, k) == CHOOSE j \in Ats(file, k) \cup {0} : \A i \in Ats(file, k) : i <= j

Place(file, i) ==
    (IF From(file, i) = 0 THEN 0 ELSE file[From(file, i)].address)
        + Cardinality({j \in From(file, i) + 1 .. i - 1 : IsWord(file, j)})

Loaded(file, a) ==
    LET here == {i \in DOMAIN file : IsWord(file, i) /\ Place(file, i) = a}
    IN  IF here = {} THEN 0
        ELSE Number(file[CHOOSE i \in here : \A j \in here : j <= i].digits)

\* What srec_cat writes has no line comments and no long words.
Regular(file) ==
    \A i \in DOMAIN file :
        file[i].kind # "line" /\ (IsWord(file, i) => Len(file[i].digits) <= MaxDigits)

\* A memory initialised from the .mif file holds what $readmemh would have put
\* there; a file with words that do not fit is refused before anything of an
\* older output is lost.
MifIsTheImage ==
    /\ step = "done" /\ Regular(vmem) =>
          DOMAIN mif = 0 .. Depth - 1 /\ \A a \in DOMAIN mif : mif[a] = Loaded(vmem, a)
    /\ step = "refused" => mif = None
    /\ step = "write" /\ Regular(vmem) =>
          \A i \in DOMAIN vmem : IsWord(vmem, i) => Place(vmem, i) < Depth
=============================================================================

------------------------------ MODULE AccountText ------------------------------
(***************************************************************************)
(* How an ICRC-1 account is written and read: IcrcAccount of types.rs, and *)
(* the copy of it in the principal_converter.                              *)
(*                                                                         *)
(* A text is taken apart at its separators: the owner, the checksum after  *)
(* the last dash, and the digits after the dot, each of the last two with  *)
(* its separator or not there at all.  The text of a principal is external *)
(* (it has a checksum of its own, so with a part missing or one too many   *)
(* it is refused), and so is the CRC.                                      *)
(***************************************************************************)
EXTENDS Integers, SequencesExt

CONSTANTS
  Owners,       \* principals
  Converted,    \* those of the principal_converter, two ledgers
  SubDigits,    \* digits of a subaccount (64 in the code)
  IndexDigits,  \* digits of an index, a u32 (8 in the code)
  Crc(_, _),    \* external: the bytes of the CRC-32 of an owner and a subaccount
  None          \* no subaccount; a part that a text does not have

ASSUME DigitsOK ==
  /\ Converted \subseteq Owners
  /\ SubDigits \in Nat /\ IndexDigits \in 0 .. SubDigits
  /\ SubDigits % 2 = 0 /\ IndexDigits % 2 = 0

\* No text is None.
ASSUME NoneOK == None \notin Seq(Nat)

Rejected == [owner |-> None, sub |-> None]

Zeros(n) == [k \in 1 .. n |-> 0]
IsDefault(sub) == sub = Zeros(SubDigits)

\* The index, big-endian, in the last bytes of the subaccount.
FromIndex(owner, index) ==
  [owner |-> owner,
   sub   |-> [k \in 1 .. SubDigits |->
                IF k <= SubDigits - IndexDigits THEN 0
                ELSE (index \div 2 ^ (4 * (SubDigits - k))) % 16]]

\* Groups of five bits, most significant first.  The u16 keeps what is over
\* from the bytes before; the last group is filled up with zeros.
TakeByte(acc, byte) ==
  LET bits  == (acc.bits * 2 ^ 8 + byte) % 2 ^ 16
      count == acc.count + 8
  IN  [bits |-> bits, count |-> count % 5,
       text |-> acc.text \o
                  [k \in 1 .. count \div 5 |-> (bits \div 2 ^ (count - 5 * k)) % 32]]

\* Mutant: without the bits that are left over at the end.
Base32Whole(bytes) ==
  FoldLeft(TakeByte, [bits |-> 0, count |-> 0, text |-> <<>>], bytes).text

Base32(bytes) ==
  LET read == FoldLeft(TakeByte, [bits |-> 0, count |-> 0, text |-> <<>>], bytes)
  IN  IF read.count = 0 THEN read.text
      ELSE Append(read.text, (read.bits * 2 ^ (5 - read.count)) % 32)

Checksum(owner, sub) == Base32(Crc(owner, sub))

\* Mutant: the zeros at the end go as well.
TrimmedBothEnds(sub) ==
  LET first == CHOOSE k \in 1 .. SubDigits :
                 sub[k] # 0 /\ \A j \in 1 .. k - 1 : sub[j] = 0
      last  == CHOOSE k \in 1 .. SubDigits :
                 sub[k] # 0 /\ \A j \in k + 1 .. SubDigits : sub[j] = 0
  IN  SubSeq(sub, first, last)

\* All leading zero digits go, not only whole bytes.
Trimmed(sub) ==
  LET first == CHOOSE k \in 1 .. SubDigits :
                 sub[k] # 0 /\ \A j \in 1 .. k - 1 : sub[j] = 0
  IN  SubSeq(sub, first, SubDigits)

ToText(a) ==
  IF a.sub = None \/ IsDefault(a.sub)
    THEN [owner |-> a.owner, check |-> None, hex |-> None]
    ELSE [owner |-> a.owner, check |-> Checksum(a.owner, a.sub), hex |-> Trimmed(a.sub)]

\* hex::decode takes two digits a byte.
Decodes(hex) == Len(hex) % 2 = 0 /\ Len(hex) <= SubDigits
Padded(hex)  == Zeros(SubDigits - Len(hex)) \o hex

FromText(t) ==
  CASE t.check = None /\ t.hex = None -> [owner |-> t.owner, sub |-> None]
    [] t.check # None /\ t.hex # None /\ Decodes(t.hex) /\
       t.check = Checksum(t.owner, Padded(t.hex))
         -> [owner |-> t.owner, sub |-> Padded(t.hex)]
    [] OTHER -> Rejected

\* Without a subaccount and with the default one is the same account.
Same(a, b) ==
  a.owner = b.owner /\ (IF a.sub = None THEN Zeros(SubDigits) ELSE a.sub)
                     = (IF b.sub = None THEN Zeros(SubDigits) ELSE b.sub)

\* The accounts whose texts principal_converter prints, and its to_text.
Printed ==
  LET One(p)  == [k \in 1 .. SubDigits |-> IF k = p THEN 1 ELSE 0]
      Byte(k) == (k + 1) \div 2
      Counted == [k \in 1 .. SubDigits |->
                    IF k % 2 = 1 THEN Byte(k) \div 16 ELSE Byte(k) % 16]
  IN  {[owner |-> o, sub |-> s] : o \in Converted,
         s \in {Zeros(SubDigits), One(SubDigits), One(2),
                FromIndex(None, 123).sub, Counted}}
PrintedText(a) == ToText(a)
===============================================================================

------------------------------ MODULE Address ------------------------------
(***************************************************************************)
(* unstable::addressFromAdrp and addressFromAdrl (dstd/Signatures): the    *)
(* address that a pair of ARM instructions computes, read off their fields.*)
(* An instruction is its operation and its immediate fields.               *)
(***************************************************************************)
EXTENDS Integers, FiniteSets

CONSTANTS
    PageSize,       \* 2^12, the values of imm12
    ImmhiSize,      \* 2^19, the values of immhi; immlo has 4
    AddressSpace    \* 2^64, the values of uintptr_t

ASSUME SizesFit ==
    /\ PageSize \in Nat \ {0} /\ ImmhiSize \in Nat \ {0} /\ AddressSpace \in Nat \ {0}
    /\ ImmhiSize % 2 = 0 /\ AddressSpace % (4 * ImmhiSize * PageSize) = 0
    /\ AddressSpace >= 16 * PageSize /\ AddressSpace >= PageSize * PageSize

Adrps == [op : {"adrp"}, immhi : 0..ImmhiSize - 1, immlo : 0..3]

\* The masks let through accesses of any width, and add with a shifted imm12.
Accesses == {"access8", "access16", "ldr32", "access64", "access128"}
Adds == {"add64", "addShifted"}
Seconds == [op : Accesses \cup Adds, imm12 : 0..PageSize - 1]
Others == [op : {"other"}, imm12 : {0}]

\* No address is that.
NoAddress == AddressSpace

\* Mutant of SignExtended: the sign is looked for one bit too high.
SignExtendedLate(imm) == IF imm >= 4 * ImmhiSize THEN imm - 4 * ImmhiSize ELSE imm

\* imm |= ~((1 << 21) - 1) if bit 20 is set.
SignExtended(imm) == IF imm >= 2 * ImmhiSize THEN imm - 4 * ImmhiSize ELSE imm

PageBase(at, adrp) ==
    LET imm == SignExtended(adrp.immhi * 4 + adrp.immlo)
    IN  ((at - (at % PageSize)) + imm * PageSize) % AddressSpace

AddressFromAdrp(at, code) ==
    IF code[1].op # "adrp" \/ code[2].op \notin Accesses THEN NoAddress
    ELSE (PageBase(at, code[1]) + code[2].imm12 * 4) % AddressSpace

AddressFromAdrl(at, code) ==
    IF code[1].op # "adrp" \/ code[2].op \notin Adds THEN NoAddress
    ELSE (PageBase(at, code[1]) + code[2].imm12) % AddressSpace

-----------------------------------------------------------------------------
\* Where the processor gets: adrp adds a number of pages, in two's complement,
\* to the page of its own address, and the second adds its offset.
Pages(adrp) ==
    CHOOSE n \in -(2 * ImmhiSize)..(2 * ImmhiSize - 1) :
        n % (4 * ImmhiSize) = adrp.immhi * 4 + adrp.immlo

\* The offset of an access counts units of its width, and a shifted add pages.
Scale == [access8 |-> 1, access16 |-> 2, ldr32 |-> 4, access64 |-> 8, access128 |-> 16,
          add64 |-> 1, addShifted |-> PageSize]

Target(at, adrp, second) ==
    (((at \div PageSize) + Pages(adrp)) * PageSize + Scale[second.op] * second.imm12)
        % AddressSpace

\* They find the address that the processor would, forwards and backwards and
\* around the ends of the address space, from an adrp and a 32-bit access or an
\* add without a shift, and from those only: what else the masks let through
\* is found at a wrong address, unless its offset is zero, and all other code
\* is refused (Address.cpp:22-80).
FindsTarget ==
    \A at \in 0..AddressSpace - 1, first \in Adrps \cup Others, second \in Seconds \cup Others :
        LET code == <<first, second>>
        IN  /\ IF first \in Adrps /\ second.op \in Accesses
                 THEN AddressFromAdrp(at, code) = Target(at, first, second)
                          <=> second.op = "ldr32" \/ second.imm12 = 0
                 ELSE AddressFromAdrp(at, code) = NoAddress
            /\ IF first \in Adrps /\ second.op \in Adds
                 THEN AddressFromAdrl(at, code) = Target(at, first, second)
                          <=> second.op = "add64" \/ second.imm12 = 0
                 ELSE AddressFromAdrl(at, code) = NoAddress
=============================================================================

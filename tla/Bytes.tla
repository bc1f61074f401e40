------------------------------- MODULE Bytes -------------------------------
(*****************************************************************************)
(* What the formats of OmegaDrive share: parts joined to one buffer, and     *)
(* lengths as u32 in four bytes, the highest first (to_be_bytes) or last     *)
(* (to_le_bytes).                                                            *)
(*****************************************************************************)
EXTENDS Naturals, Sequences

Joined(parts) ==
    LET upTo[n \in 0 .. Len(parts)] == IF n = 0 THEN <<>> ELSE upTo[n - 1] \o parts[n]
    IN  upTo[Len(parts)]

BigEndian(n) ==
    LET second == n \div 256
        third == second \div 256
        fourth == third \div 256
    IN  <<fourth % 256, third % 256, second % 256, n % 256>>

LittleEndian(n) ==
    LET second == n \div 256
        third == second \div 256
        fourth == third \div 256
    IN  <<n % 256, second % 256, third % 256, fourth % 256>>

FromBigEndian(buf, p) ==
    256 * (256 * (256 * buf[p] + buf[p + 1]) + buf[p + 2]) + buf[p + 3]

FromLittleEndian(buf, p) ==
    256 * (256 * (256 * buf[p + 3] + buf[p + 2]) + buf[p + 1]) + buf[p]

\* longer, and a length is not what it was (as u32)
FitsU32(n) == ((n \div 256) \div 256) \div 256 < 256
=============================================================================

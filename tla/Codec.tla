------------------------------- MODULE Codec -------------------------------
(***************************************************************************)
(* The v2 wire format of internal/codec.  A blob keeps the two header      *)
(* fields as uint32 values, the bit section, and the number of bytes that  *)
(* section really has, which decides where the CRC trailer lies.  A CRC32  *)
(* read from any other place is taken to differ from the computed one.     *)
(***************************************************************************)
EXTENDS BloomFilter

CONSTANT Uint32   \* 2^32 in the program: the width of a header field

ASSUME Uint32Assumption == Uint32 \in Nat /\ Uint32 >= 8

ByteLen(m) == (m + 7) \div 8

\* What Marshal writes.  In a blob whose bit section is as long as its m asks
\* for, no bit lies behind the m-th.
Blob ==
  {b \in [m : Nat, k : Nat, bits : SUBSET Nat, len : Nat, sealed : BOOLEAN] :
     b.len = ByteLen(b.m) => b.bits \subseteq 0 .. b.m - 1}

\* Marshal(nil) is an empty slice, shorter than any header: no magic, no CRC.
EmptyBlob == [m |-> 0, k |-> 0, bits |-> {}, len |-> 0, sealed |-> FALSE]

\* m and k are cut to 32 bits; the bit section is written in full.
Marshal(f) ==
  IF f = NilFilter
  THEN EmptyBlob
  ELSE [m |-> f.m % Uint32, k |-> f.k % Uint32, bits |-> f.bits,
        len |-> ByteLen(f.m), sealed |-> TRUE]

\* Mutant: the checksum is looked for at the end of the blob.
UnmarshalAnyLength(b) ==
  IF b.sealed /\ ValidParams(b.m, b.k)
  THEN [m |-> b.m, k |-> b.k, bits |-> b.bits]
  ELSE NilFilter

\* NilFilter stands for any of the errors.  The trailer is looked for behind
\* ByteLen(m) bytes, with the m of the header.
Unmarshal(b) ==
  IF b.sealed /\ b.len = ByteLen(b.m) /\ ValidParams(b.m, b.k)
  THEN [m |-> b.m, k |-> b.k, bits |-> b.bits]
  ELSE NilFilter

\* The legacy format has no checksum, only its length is looked at.
UnmarshalV1(b) ==
  IF b.len = ByteLen(b.m) /\ ValidParams(b.m, b.k)
  THEN [m |-> b.m, k |-> b.k, bits |-> b.bits]
  ELSE NilFilter

-----------------------------------------------------------------------------
(* format.go *)

\* A v1 blob as a v2 blob; EmptyBlob stands for the error.  A v2 blob is
\* returned as it is.
ConvertV1ToV2(b) == Marshal(UnmarshalV1(b))

\* What is shorter than a header is an error, and not a blob here.  The length
\* of the bits is that of the data in v1, and what the header asks for in v2.
InspectV1(b) == [m |-> b.m, k |-> b.k, bitsLen |-> b.len]

InspectV2(b) == [m |-> b.m, k |-> b.k, bitsLen |-> ByteLen(b.m)]

Validate(b) == Unmarshal(b) # NilFilter

=============================================================================

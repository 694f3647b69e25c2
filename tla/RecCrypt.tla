------------------------------ MODULE RecCrypt ------------------------------
(***************************************************************************)
(* Encryption of field values (src/src/rec-crypt.c).                       *)
(*                                                                         *)
(* A byte is a number and 0 ends a C string.  A plain value is a pair of   *)
(* its kind and a number; Bytes(v) are its characters and Crc(v) the four  *)
(* bytes of its checksum, CRC_SIZE of them here.  The cipher is libgcrypt's*)
(* (external): only the key that encrypted a buffer brings it back.        *)
(***************************************************************************)
EXTENDS Integers, Sequences, FiniteSets, SequencesExt

CONSTANTS BLKSIZE,     \* AESV2_BLKSIZE
          KEYSIZE,     \* AESV2_KEYSIZE
          CRC_SIZE,    \* sizeof (uint32_t)
          Bytes(_),    \* the characters of a plain value, none of them 0
          Crc(_)       \* crc32 of the characters of a plain value (external)

ASSUME CryptAssumption ==
  /\ BLKSIZE \in Nat \ {0} /\ KEYSIZE \in Nat \ {0} /\ CRC_SIZE \in Nat \ {0}

Zeros(n) == [i \in 1..n |-> 0]

\* The password is repeated until it fills the key.
Key(password) == [i \in 0..(KEYSIZE - 1) |-> password[(i % Len(password)) + 1]]

\* Slip: the checksum is forgotten when the padding is computed.
BufferUnpadded(v) ==
  LET size == Len(Bytes(v))
      padding == IF size % BLKSIZE # 0 THEN BLKSIZE - (size % BLKSIZE) ELSE 0
  IN Bytes(v) \o Crc(v) \o Zeros(padding)

\* The value, its checksum and the padding to an entire number of blocks.
Buffer(v) ==
  LET size == Len(Bytes(v)) + CRC_SIZE
      padding == IF size % BLKSIZE # 0 THEN BLKSIZE - (size % BLKSIZE) ELSE 0
  IN Bytes(v) \o Crc(v) \o Zeros(padding)

Encrypted(v) == v[1] = "enc"

\* Everything that starts with "encrypted-", also what is not base64.
rec_field_encrypted_p(v) == v[1] \in {"enc", "fake"}

rec_encrypt(v, password) ==
  <<"enc", [key |-> Key(password), buffer |-> Buffer(v), of |-> v]>>

\* strlen of the decrypted buffer.  A buffer without padding is not ended by
\* a NUL: the memory behind it decides (after, its first byte).
Strlen(buffer, after) ==
  LET nul == {i \in DOMAIN buffer : buffer[i] = 0}
  IN IF nul # {} THEN CHOOSE i \in 0..(Len(buffer) - 1) :
                        i + 1 \in nul /\ \A j \in nul : i < j
     ELSE IF after = 0 THEN Len(buffer) ELSE Len(buffer) + 1

\* Whether rec_decrypt accepts the password: the checksum has to be in the
\* last bytes before the NUL.
rec_decrypt(v, password, after) ==
  LET buffer == v[2].buffer
      n == Strlen(buffer, after)
  IN /\ v[2].key = Key(password)
     /\ Len(buffer) % BLKSIZE = 0
     /\ n > CRC_SIZE
     /\ n <= Len(buffer)
     /\ SubSeq(buffer, 1, n - CRC_SIZE) = Bytes(v[2].of)
     /\ SubSeq(buffer, n - CRC_SIZE + 1, n) = Crc(v[2].of)

rec_encrypt_field(v, password) ==
  IF rec_field_encrypted_p(v) THEN v ELSE rec_encrypt(v, password)

rec_decrypt_field(v, password, after) ==
  IF Encrypted(v) /\ rec_decrypt(v, password, after) THEN v[2].of ELSE v

\* The values that come back: not empty, a checksum without a zero byte, and
\* a buffer that is ended by a NUL, its own or the byte behind it.
Recoverable(v, after) ==
  /\ Bytes(v) # << >>
  /\ 0 \notin Range(Crc(v))
  /\ (Len(Bytes(v)) + CRC_SIZE) % BLKSIZE # 0 \/ after = 0
=============================================================================

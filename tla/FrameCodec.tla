----------------------------- MODULE FrameCodec -----------------------------
(***************************************************************************)
(* How many bytes a frame takes on the wire, and which lengths read()      *)
(* accepts: [4-byte length][frame], or with a key                          *)
(* [4-byte length][nonce][ciphertext + tag].                               *)
(***************************************************************************)
EXTENDS Integers

LENGTH         == 4
NONCE          == 24    \* crypto_aead_xchacha20poly1305_ietf_NPUBBYTES
TAG            == 16    \* crypto_aead_xchacha20poly1305_ietf_ABYTES
MAX_FRAME      == 1518
MAX_FRAME_SIZE == 1600  \* the buffer of run()

\* Mutant: no room for nonce and tag
MaxPacketPlain == LENGTH + MAX_FRAME

MAX_PACKET == LENGTH + NONCE + MAX_FRAME + TAG

\* What write() puts into the length field of a frame of this size
FrameLen(size, sealed) == IF sealed THEN NONCE + size + TAG ELSE size

DatagramSize(size, sealed) == LENGTH + FrameLen(size, sealed)

\* recvfrom() cuts a datagram that is larger than the packet buffer.
Complete(frame_len) == frame_len # 0 /\ LENGTH + frame_len <= MAX_PACKET

\* The lengths read() goes on with
Fits(frame_len, sealed) ==
  /\ Complete(frame_len)
  /\ IF sealed THEN frame_len \in NONCE + TAG .. NONCE + TAG + MAX_FRAME
               ELSE frame_len <= MAX_FRAME_SIZE

\* The MTU entrypoint.sh gives tap0
Mtu(sealed) == IF sealed THEN 1414 ELSE 1454

=============================================================================

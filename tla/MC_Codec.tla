------------------------------ MODULE MC_Codec ------------------------------
(* Model values for checking Codec with TLC. *)
EXTENDS Codec

(* DEVICE_LIST_REQUEST and HEARTBEAT. *)
MCTypes == {1, 8}

(* An empty payload (heartbeat) and a two-byte one. *)
MCPayloads == { <<>>, <<170, 187>> }

(* Stand-in for 1 MiB: larger than every payload written, smaller than   *)
(* the length field of a garbage header.                                 *)
MCMaxMessageSize == 4

(* Three kinds of foreign bytes: no magic at all; a header with the magic *)
(* whose length exceeds MAX_MESSAGE_SIZE; a header with the magic, an     *)
(* in-bound length and a checksum that does not match its one-byte body. *)
NoMagic == <<255, 255, 255>>
OversizeHeader == BE32(MESSAGE_MAGIC) \o BE32(8) \o <<255, 255, 255, 255>> \o BE32(99) \o BE32(0)
BadChecksumFrame == BE32(MESSAGE_MAGIC) \o BE32(8) \o BE32(1) \o BE32(99) \o BE32(0) \o <<7>>

MCGarbageMixed == {NoMagic, OversizeHeader, BadChecksumFrame}
MCGarbageNoMagic == {NoMagic}

MCChunkSizes == {3, 20}

=============================================================================

------------------------------ MODULE Checksum ------------------------------
(***************************************************************************)
(* The Internet checksum on words of W bits: the full sum                  *)
(* (src/protocol/checksum.cpp) and the incremental updates nat_rewrite     *)
(* makes (include/protocol/checksum.h), where W is 16.  A segment is what  *)
(* the checksum covers: the pseudo header, which is the two addresses, of  *)
(* two words each, and plen, the protocol and the length; and the segment  *)
(* itself, which is the ports, the options, and rest, the sum of all other *)
(* words but the checksum ck.                                              *)
(***************************************************************************)
EXTENDS Integers, Sequences, SequencesExt

CONSTANT W

M == 2 ^ W

\* sum folded until no carry is left
Fold[sum \in Nat] == IF sum < M THEN sum ELSE Fold[(sum % M) + (sum \div M)]

Not(word) == M - 1 - word

incremental_update(old_sum, old_val, new_val) ==
  Not(Fold[Not(old_sum) + Not(old_val) + new_val])

update_ip(sum, old, new) ==
  incremental_update(incremental_update(sum, old[1], new[1]), old[2], new[2])

\* 0 means that a UDP packet has no checksum
NonZero(sum) == IF sum = 0 THEN M - 1 ELSE sum

update_tcp(sum, old, new) ==
  LET s1 == update_ip(sum, old.src, new.src)
      s2 == update_ip(s1, old.dst, new.dst)
  IN  incremental_update(incremental_update(s2, old.sp, new.sp), old.dp, new.dp)

\* Mutant: the result 0 is not replaced.
update_udpZero(sum, old, new) == IF sum = 0 THEN 0 ELSE update_tcp(sum, old, new)

update_udp(sum, old, new) ==
  IF sum = 0 THEN 0
  ELSE LET s1 == NonZero(update_ip(sum, old.src, new.src))
           s2 == NonZero(update_ip(s1, old.dst, new.dst))
           s3 == NonZero(incremental_update(s2, old.sp, new.sp))
       IN  NonZero(incremental_update(s3, old.dp, new.dp))

Total(words) == FoldLeft(LAMBDA a, b : a + b, 0, words)

\* The pseudo header, and the header without its checksum with the payload
PseudoSum(seg) == Total(seg.src \o seg.dst \o <<seg.plen>>)
SegmentSum(seg) == Total(<<seg.sp, seg.dp, seg.rest>> \o seg.opts)
Sum(seg) == PseudoSum(seg) + SegmentSum(seg)

Finish(proto, sum) == IF proto = "udp" THEN NonZero(Not(Fold[sum])) ELSE Not(Fold[sum])

recalculate(proto, seg) == Finish(proto, Sum(seg))

\* What l4_checksum_full writes for the NIC: the sum of a pseudo header whose length
\* is that of the IP packet, which may have more bytes after the segment
rte_ipv4_phdr_cksum(seg, more) == Fold[PseudoSum(seg) + more]

\* What the NIC makes of it when it sends the packet
TxChecksum(proto, seg) == Finish(proto, SegmentSum(seg) + seg.ck)

\* What a receiver accepts
Valid(proto, seg) ==
  \/ proto = "udp" /\ seg.ck = 0
  \/ Fold[Sum(seg) + seg.ck] = M - 1

=============================================================================

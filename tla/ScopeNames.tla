------------------------------ MODULE ScopeNames ------------------------------
(***************************************************************************)
(* The grammar of service and scope keys (br-core-scope key.rs,            *)
(* service.rs).  A raw key is the sequence of the segments its colons make *)
(* of it; a segment is its length, whether every byte is a lower-case      *)
(* letter, a digit or _, and a name that tells it from others.             *)
(***************************************************************************)
EXTENDS Naturals, Sequences, SequencesExt

ServiceKeyMaxLen == 64
ScopeKeyMaxLen == 128

\* The bytes of a raw key, its colons included.
Bytes(raw) == FoldLeft(LAMBDA sum, segment : sum + segment.len, Len(raw) - 1, raw)

\* service.rs validate_segment: the first complaint, "ok" if there is none.
SegmentError(segment, max) ==
  IF segment.len = 0 THEN "empty"
  ELSE IF segment.len > max THEN "too_long"
  ELSE IF ~segment.plain THEN "invalid_charset"
  ELSE "ok"

\* ScopeKey::new: the whole key's length, exactly two segments, then each of them.
ScopeKeyError(raw) ==
  IF Bytes(raw) > ScopeKeyMaxLen THEN "too_long"
  ELSE IF Len(raw) # 2 THEN "malformed_segments"
  ELSE IF SegmentError(raw[1], ServiceKeyMaxLen) # "ok" THEN SegmentError(raw[1], ServiceKeyMaxLen)
  ELSE SegmentError(raw[2], ScopeKeyMaxLen)

\* ServiceKey::new: a colon is a byte outside the charset.
ServiceKeyError(raw) ==
  IF Bytes(raw) = 0 THEN "empty"
  ELSE IF Bytes(raw) > ServiceKeyMaxLen THEN "too_long"
  ELSE IF Len(raw) # 1 THEN "invalid_charset"
  ELSE SegmentError(raw[1], ServiceKeyMaxLen)

IsScopeKey(raw) == ScopeKeyError(raw) = "ok"
IsServiceKey(raw) == ServiceKeyError(raw) = "ok"

\* ScopeKey::service_segment, is_owned_by
ServiceOf(key) == SubSeq(key, 1, 1)
IsOwnedBy(key, service) == ServiceOf(key) = service
=============================================================================

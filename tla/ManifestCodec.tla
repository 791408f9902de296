------------------------------ MODULE ManifestCodec ------------------------------
(***************************************************************************)
(* The manifest: written by hand by `prepare` (make_manifest,               *)
(* manifest_json), read by `apply` with serde_json and checked              *)
(* (decode_manifest, Manifest::validate).  An object of the JSON text is a  *)
(* record here, a list is a sequence, and a string is its text, quotes and  *)
(* escapes included: what can go wrong is where a string ends and what is   *)
(* in it.  Lengths, the schema version and the marker are left out.         *)
(***************************************************************************)
EXTENDS ByteText, SequencesExt

Absent == <<"absent">>      \* Option::None
Rejected == <<"rejected">>  \* an error
Replacement == "xFFFD"

\* TermKind, and how it is written.
KindName == [Side |-> <<"s", "i", "d", "e">>, Base |-> <<"b", "a", "s", "e">>]

-------------------------------------------------------------------------------
(* prepare.rs                                                              *)

\* String::from_utf8_lossy
Lossy(bytes) ==
  [i \in DOMAIN bytes |-> IF WellPlaced(bytes, i) THEN bytes[i] ELSE Replacement]

\* Mistake: a backslash is copied.
JsonEscapeOfQuotes(c) ==
  CASE c = Quote -> <<Backslash, Quote>>
    [] c = LF    -> <<Backslash, "n">>
    [] c = CR    -> <<Backslash, "r">>
    [] c = Esc   -> <<Backslash, "u", "0", "0", "1", "b">>
    [] OTHER     -> <<c>>

JsonEscape(c) ==
  CASE c = Quote     -> <<Backslash, Quote>>
    [] c = Backslash -> <<Backslash, Backslash>>
    [] c = LF        -> <<Backslash, "n">>
    [] c = CR        -> <<Backslash, "r">>
    [] c = Esc       -> <<Backslash, "u", "0", "0", "1", "b">>
    [] OTHER         -> <<c>>

JsonString(text) ==
  <<Quote>> \o FlattenSeq([i \in DOMAIN text |-> JsonEscape(text[i])]) \o <<Quote>>

\* hex_digest, os_bytes_hex
HexOf(bytes) == FlattenSeq([i \in DOMAIN bytes |-> LowerHexDigits(bytes[i])])

Null == <<"null">>

SourceJson(source) ==
  LET relative == source.repository_relative IN
  [canonical_path                |-> JsonString(Lossy(source.canonical_path)),
   canonical_path_bytes_hex      |-> JsonString(HexOf(source.canonical_path)),
   repository_relative           |-> IF relative = Absent THEN Null ELSE JsonString(Lossy(relative)),
   repository_relative_bytes_hex |-> IF relative = Absent THEN Null ELSE JsonString(HexOf(relative))]

TermJson(term) ==
  [term EXCEPT !.kind = JsonString(KindName[@]), !.label = JsonString(@),
               !.digest = JsonString(HexOf(@))]

RegionJson(region) ==
  [region_index |-> region.region_index,
   source_range |-> region.source_range,
   seed         |-> JsonString(Lossy(region.seed)),
   term_count   |-> Len(region.terms),
   terms        |-> [k \in DOMAIN region.terms |-> TermJson(region.terms[k])]]

ManifestJson(m) ==
  [source        |-> SourceJson(m.source),
   source_sha256 |-> JsonString(HexOf(m.source_digest)),
   region_count  |-> Len(m.regions),
   regions       |-> [i \in DOMAIN m.regions |-> RegionJson(m.regions[i])]]

\* ManifestTerm::generated_artifact_path
ArtifactPath(region_index, ordinal) == <<"regions", region_index, ordinal>>

\* make_manifest, for the conflicts found in a source: their indices and the names
\* of the artifacts come from their order.
MakeManifest(source, digest, conflicts) ==
  [source        |-> source,
   source_digest |-> digest,
   regions       |->
     [i \in DOMAIN conflicts |->
        [region_index |-> i - 1,
         source_range |-> conflicts[i].source_range,
         seed         |-> conflicts[i].seed,
         terms        |->
           [k \in DOMAIN conflicts[i].terms |->
              LET term == conflicts[i].terms[k] IN
              [ordinal       |-> k - 1,
               artifact_path |-> ArtifactPath(i - 1, k - 1),
               kind          |-> term.kind,
               label         |-> term.label,
               digest        |-> term.digest]]]]]

-------------------------------------------------------------------------------
(* apply.rs, domain.rs                                                     *)

Escapes ==
  {JsonEscape(Quote), <<Backslash, Backslash>>, JsonEscape(LF), JsonEscape(CR), JsonEscape(Esc)}

Unescaped(escape) ==
  CASE escape = <<Backslash, Quote>>     -> Quote
    [] escape = <<Backslash, Backslash>> -> Backslash
    [] escape = <<Backslash, "n">>       -> LF
    [] escape = <<Backslash, "r">>       -> CR
    [] OTHER                             -> Esc

NoField == [text |-> Rejected, next |-> 1]

\* The string that begins behind position i: what it says, and where it ends; an
\* unknown escape, a bare control byte and a missing end are errors.
StringAt(json, i) ==
  LET escapes(j) ==
        {e \in Escapes : j + Len(e) - 1 <= Len(json) /\ SubSeq(json, j, j + Len(e) - 1) = e}
      then(text, rest) ==
        IF rest = NoField THEN rest ELSE [rest EXCEPT !.text = text \o @]
      read[j \in 1..(Len(json) + 1)] ==
        IF j > Len(json) THEN NoField
        ELSE CASE json[j] = Quote  -> [text |-> <<>>, next |-> j + 1]
          [] json[j] \in Controls  -> NoField
          [] json[j] = Backslash   ->
               IF escapes(j) = {} THEN NoField
               ELSE LET e == CHOOSE e \in escapes(j) : TRUE
                    IN then(<<Unescaped(e)>>, read[j + Len(e)])
          [] OTHER                 -> then(<<json[j]>>, read[j + 1])
  IN read[i + 1]

\* A string, or null where there may be none.
TextOf(json) ==
  IF json = Null THEN Absent
  ELSE LET string == StringAt(json, 1) IN
       IF json[1] = Quote /\ string.next = Len(json) + 1 THEN string.text ELSE Rejected

\* decode_hex, in either case
BytesOf(hex) ==
  LET known == Bytes \cup {"/"}
      digits(i) == SubSeq(hex, 2 * i - 1, 2 * i)
      meant(i) == {b \in known : digits(i) \in {HexDigits(b), LowerHexDigits(b)}}
  IN IF Len(hex) % 2 # 0 \/ \E i \in 1..(Len(hex) \div 2) : meant(i) = {} THEN Rejected
     ELSE [i \in 1..(Len(hex) \div 2) |-> CHOOSE b \in meant(i) : TRUE]

\* parse_digest: the digits of a digest are in lower case.
DigestOf(hex) ==
  IF \E i \in DOMAIN hex : hex[i] \in {"A", "B", "C", "D", "E", "F"} THEN Rejected
  ELSE BytesOf(hex)

\* The text of a path must be that of its bytes, where they are text.
PathOf(text, hex) ==
  IF text = Absent \/ hex = Absent
  THEN IF text = hex THEN Absent ELSE Rejected
  ELSE LET bytes == BytesOf(hex) IN
       IF text = <<>> \/ bytes = Rejected \/ (IsUtf8(bytes) /\ text # bytes)
       THEN Rejected ELSE bytes

IsAbsolute(path) == path # <<>> /\ path[1] = "/"

ParentDir == <<".", ".">>

\* A component of the path is ParentDir.
HasParentDir(path) ==
  \E i \in 1..(Len(path) - 1) :
    /\ path[i] = "." /\ path[i + 1] = "."
    /\ i = 1 \/ path[i - 1] = "/"
    /\ i + 1 = Len(path) \/ path[i + 2] = "/"

DecodeTerm(json) ==
  LET kinds == {kind \in DOMAIN KindName : KindName[kind] = TextOf(json.kind)} IN
  [json EXCEPT !.kind = IF kinds = {} THEN "Rejected" ELSE CHOOSE kind \in kinds : TRUE,
               !.label = TextOf(@), !.digest = DigestOf(TextOf(@))]

DecodeRegion(json) ==
  [region_index |-> json.region_index,
   source_range |-> json.source_range,
   seed         |-> TextOf(json.seed),
   terms        |-> [k \in DOMAIN json.terms |-> DecodeTerm(json.terms[k])]]

\* Manifest::validate: the regions, in order and apart, and the terms are counted
\* through, and every artifact has the name that follows from that.
ValidRegions(regions) ==
  \A i \in DOMAIN regions :
    LET region == regions[i] IN
    /\ region.region_index = i - 1
    /\ region.source_range.start < region.source_range.end
    /\ i > 1 => regions[i - 1].source_range.end <= region.source_range.start
    /\ region.seed \notin {<<>>, Rejected, Absent}
    /\ region.terms # <<>>
    /\ \A k \in DOMAIN region.terms :
         /\ region.terms[k].ordinal = k - 1
         /\ region.terms[k].artifact_path = ArtifactPath(i - 1, k - 1)

\* The manifest that is accepted, if one is.
DecodeManifest(json) ==
  LET source == json.source
      canonical == PathOf(TextOf(source.canonical_path), TextOf(source.canonical_path_bytes_hex))
      relative  == PathOf(TextOf(source.repository_relative),
                          TextOf(source.repository_relative_bytes_hex))
      manifest  == [source        |-> [canonical_path |-> canonical,
                                       repository_relative |-> relative],
                    source_digest |-> DigestOf(TextOf(json.source_sha256)),
                    regions       |-> [i \in DOMAIN json.regions |->
                                         DecodeRegion(json.regions[i])]]
      terms     == UNION {Range(region.terms) : region \in Range(manifest.regions)}
      counted   == /\ json.region_count = Len(json.regions)
                   /\ \A region \in Range(json.regions) :
                        region.term_count = Len(region.terms)
      decoded   == /\ Rejected \notin {canonical, relative, manifest.source_digest}
                   /\ IsAbsolute(canonical)
                   /\ ~IsAbsolute(relative) /\ ~HasParentDir(relative)
                   /\ \A term \in terms :
                        term.kind # "Rejected" /\ Rejected \notin {term.label, term.digest}
  IN IF counted /\ decoded /\ ValidRegions(manifest.regions) THEN {manifest} ELSE {}

-------------------------------------------------------------------------------
\* Whatever bytes the name of the source and the digests have, and whatever text
\* jj labels a side with, `apply` finds in the manifest what `prepare` made.
ReadsBack(name) ==
  LET label == IF IsUtf8(name) /\ ~Contains(name, LF) THEN name ELSE <<"A">>
      term(kind) == [kind |-> kind, label |-> label, digest |-> name]
      conflict(start, kinds) ==
        [source_range |-> [start |-> start, end |-> start + 1], seed |-> <<"9", LF>>,
         terms |-> [k \in DOMAIN kinds |-> term(kinds[k])]]
      conflicts == <<conflict(0, <<"Side", "Base", "Side">>), conflict(1, <<"Side">>)>>
  IN \A relative \in {name, Absent} \ {ParentDir} :
       LET source == [canonical_path |-> <<"/">> \o name, repository_relative |-> relative]
           manifest == MakeManifest(source, name, conflicts)
       IN DecodeManifest(ManifestJson(manifest)) = {manifest}

===============================================================================

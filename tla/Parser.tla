--------------------------------- MODULE Parser ---------------------------------
(***************************************************************************)
(* UnsafeParser::parse (src/src/sample/record/mod.rs): the kernel writes a *)
(* record, the parser looks at its type and hands the cursor to the        *)
(* from_ptr of that type.  A sample is SampleRecord's, all else is         *)
(* SideRecord's.                                                           *)
(***************************************************************************)
EXTENDS SampleRecord, SideRecord

parserVars == <<config, rec, meant, parsed>>

ParserInit == SampleInit \/ SideInit

ParserNext ==
  \/ WriteSample \/ ParseSample
  \/ WriteSide \/ ParseSide

ParserSpec == ParserInit /\ [][ParserNext]_parserVars

-----------------------------------------------------------------------------
\* Every field the parser has come to has the values the kernel wrote into it,
\* none of them cut in two and none of another field, whatever fields, of whatever
\* length, were parsed before it.
FieldsAreExact == \A f \in DOMAIN got : got[f] = meant[f]

\* The parser, which is given no length, never looks at bytes after the record, which
\* are the next one's or not yet written; with all its fields taken, a sample is used up.
StaysInRecord ==
  /\ reach <= rec.size
  /\ kind = "sample" /\ DOMAIN meant = flags /\ DOMAIN got = flags => reach = rec.size
=============================================================================

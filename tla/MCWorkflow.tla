------------------------------ MODULE MCWorkflow ------------------------------
(* Small instances of Workflow for TLC. Predictions: questions of every    *)
(* kind, valid and not; nodes with the same, an empty and a reserved name; *)
(* branches that share a target or a criterion; data nodes of every type.  *)
(* Bundles: the documents an exporter writes, with one or two edits.       *)
EXTENDS Workflow, Json

Choice(id, options) == [kind |-> "choice", id |-> id, options |-> options, complete |-> TRUE]
Score(id, options) == [kind |-> "score", id |-> id, options |-> options, complete |-> TRUE]
Noul(id) == [kind |-> "noul", id |-> id, options |-> NoulOptions, complete |-> TRUE]

SmallQuestions ==
  {Choice("q", <<"a", "b">>), Choice("r", <<"a", "b", "c">>), Choice("q", <<"a", "a">>),
   Choice("q", <<"a">>), Score("s", <<"low", "mid", "high">>), Score("q", <<"low", "">>),
   Noul("t"), Noul(""), [Noul("t") EXCEPT !.complete = FALSE]}

SmallNames ==
  [t \in {"t1", "t2", "same", "blank", "user"} |->
     CASE t = "t2" -> "two" [] t = "blank" -> "" [] t = "user" -> "user" [] OTHER -> "one"]

Branches ==
  [target : {"t1", "t2", "same", "nil"}, criteria : {<<"a">>, <<"b">>, <<"c", "d">>, << >>}]

Policies ==
  [minSelected : {0, 3}, minConfidence : {0, 2}, maxAction : {2, 4}]
    \union {[minSelected |-> 5, minConfidence |-> 0, maxAction |-> 4]}

SmallConfigs ==
  [wellFormed : {TRUE},
   branches : UNION {[1..n -> Branches] : n \in 0..2},
   fallback : {"t1", "t2", "same", "blank", "user", "nil"},
   policy : Policies]
    \union [wellFormed : BOOLEAN,
            branches : {<<[target |-> "t1", criteria |-> <<"a">>],
                          [target |-> "same", criteria |-> <<"b", "">>],
                          [target |-> "t1", criteria |-> <<"c">>]>>,
                        <<[target |-> "t1", criteria |-> <<"a">>],
                          [target |-> "t1", criteria |-> <<"b">>],
                          [target |-> "t1", criteria |-> <<"c">>]>>},
            fallback : {"t2"}, policy : Policies]

Node(type, questions) ==
  [type |-> type, name |-> "n", projector |-> TRUE, model |-> TRUE, questions |-> questions]

SmallNodes ==
  LET q == Choice("q", <<"a", "b">>) t == Noul("t")
      mixed == Node("prediction", <<q, t>>)
  IN {Node("choice", <<q>>), Node("noul", <<t>>), Node("noul", <<Noul("")>>), mixed,
      Node("score", <<Score("s", <<"low", "mid", "high">>)>>), Node("prediction", << >>),
      Node("prediction", <<q, q>>), [mixed EXCEPT !.name = ""], [mixed EXCEPT !.name = "user"],
      [mixed EXCEPT !.projector = FALSE], [mixed EXCEPT !.model = FALSE]}
-----------------------------------------------------------------------------
(* Names in another case, and the paths of a bundle, in byte order.        *)
Capital ==
  [schema_version |-> "Schema_Version", provenance |-> "Provenance", profile |-> "Profile",
   licenses |-> "Licenses", model |-> "Model", path |-> "Path", external_data |-> "External_Data",
   tokenizer |-> "Tokenizer", json_path |-> "Json_Path", config_path |-> "Config_Path",
   special_tokens |-> "Special_Tokens", calibration |-> "Calibration", files |-> "Files",
   role |-> "Role", encoder |-> "Encoder", temperature |-> "Temperature",
   temperature_by_options |-> "Temperature_By_Options"]

SmallPaths ==
  <<"LICENSE.model", "LICENSE.sdk", "MODEL.onnx", "Manifest.json", "NOTICE.model", "NOTICE.sdk",
    "license.sdk", "model.onnx", "model.onnx.data", "model.onnx.more", "rl_agent_config.json",
    "tokenizer/tokenizer.json", "tokenizer/tokenizer_config.json">>

SmallFolded ==
  [s \in {Capital[f] : f \in DOMAIN Capital} |-> CHOOSE f \in DOMAIN Capital : Capital[f] = s]
    @@ ("LICENSE.model" :> "license.model" @@ "LICENSE.sdk" :> "license.sdk"
        @@ "MODEL.onnx" :> "model.onnx" @@ "Manifest.json" :> "manifest.json"
        @@ "NOTICE.model" :> "notice.model" @@ "NOTICE.sdk" :> "notice.sdk")

(* A member as it is, gone, null, twice, in another case, in both cases,   *)
(* or with one of some other values.                                       *)
Edits(m, others) ==
  LET renamed == [m EXCEPT !.name = Capital[m.name]]
      other == Member(m.name, CHOOSE v \in others : TRUE)
  IN {<<m>>, << >>, <<Member(m.name, Null)>>, <<other, m>>, <<renamed>>,
      <<m, [other EXCEPT !.name = renamed.name]>>}
       \union {<<Member(m.name, v)>> : v \in others}

(* The members with one of them edited.                                    *)
OneEdited(members, others) ==
  UNION {{FlattenSeq([j \in DOMAIN members |-> IF i = j THEN edit ELSE <<members[j]>>]) :
            edit \in Edits(members[i], others[i])} : i \in DOMAIN members}

Leaves(s) == Array([i \in DOMAIN s |-> Leaf(s[i])])
PathVariants == {Leaf("MODEL.onnx"), Leaf("../outside")}

Provenance == <<Member("profile", Leaf("supported")),
                Member("licenses", Leaves(<<"LICENSE.model", "LICENSE.sdk">>))>>
ProvenanceEdits ==
  OneEdited(Provenance, <<{Leaf("other"), Leaf("malformed")},
                          {Leaves(<<"LICENSE.model">>), Leaves(<<"LICENSE.sdk", "LICENSE.model">>)}>>)

ModelSection == <<Member("path", Leaf("model.onnx")),
                  Member("external_data", Leaves(<<"model.onnx.data">>))>>
ModelEdits ==
  OneEdited(ModelSection,
            <<PathVariants,
              {Leaves(<<"model.onnx.data", "model.onnx.more">>), Leaves(<<"MODEL.onnx", "model.onnx">>),
               Leaves(<<"model.onnx.more", "model.onnx.data">>), Leaves(<<"rl_agent_config.json">>),
               Leaf("model.onnx.data")}>>)

TokenizerSection == <<Member("json_path", Leaf("tokenizer/tokenizer.json")),
                      Member("config_path", Leaf("tokenizer/tokenizer_config.json")),
                      Member("special_tokens", Leaf("2,3,4,0"))>>
TokenizerEdits == OneEdited(TokenizerSection, <<PathVariants, PathVariants, {Leaf("-1")}>>)

CalibrationSection == <<Member("config_path", Leaf("rl_agent_config.json"))>>
CalibrationEdits == OneEdited(CalibrationSection, <<PathVariants>>)

(* Files: sorted, by their roles, or in any order.                         *)
RoleOf == "LICENSE.model" :> "license" @@ "LICENSE.sdk" :> "license"
          @@ "NOTICE.model" :> "notice" @@ "NOTICE.sdk" :> "notice"
          @@ "model.onnx" :> "model" @@ "model.onnx.data" :> "model-external-data"
          @@ "rl_agent_config.json" :> "agent-config"
          @@ "tokenizer/tokenizer.json" :> "tokenizer"
          @@ "tokenizer/tokenizer_config.json" :> "tokenizer-config"

Without(f, path) == [p \in DOMAIN f \ {path} |-> f[p]]
RoleEdits ==
  {RoleOf} \union {Without(RoleOf, p) : p \in DOMAIN RoleOf}
    \union {[RoleOf EXCEPT ![p] = r] : p \in DOMAIN RoleOf, r \in {"model", "notice", "unknown"}}
    \union {[RoleOf EXCEPT ![p] = RoleOf[q], ![q] = RoleOf[p]] : p, q \in DOMAIN RoleOf}
    \union {(p :> r) @@ RoleOf : p \in ToSet(SmallPaths) \ DOMAIN RoleOf,
                                 r \in {"model-external-data", "license", "notice"}}
    \union {("MODEL.onnx" :> "model") @@ Without(RoleOf, "model.onnx"),
            ("MODEL.onnx" :> "notice") @@ Without(RoleOf, "NOTICE.sdk")}

FileEntry(path, role) == Object(<<Member("path", Leaf(path)), Member("role", Leaf(role))>>)
FileList(roles) ==
  LET paths == SelectSeq(SmallPaths, LAMBDA p : p \in DOMAIN roles)
  IN [i \in DOMAIN paths |-> FileEntry(paths[i], roles[paths[i]])]
EntryEdits ==
  {Array([FileList(RoleOf) EXCEPT ![1] = Object(members)]) :
     members \in OneEdited(FileList(RoleOf)[1].members, <<PathVariants, {Leaf("notice")}>>)}
FilesEdits ==
  {Array(FileList(roles)) : roles \in RoleEdits} \union EntryEdits
    \union {Array(Reverse(FileList(RoleOf))), Array(FileList(RoleOf) \o FileList(RoleOf)),
            Array(<<Null>> \o FileList(RoleOf))}

Sections ==
  <<Member("schema_version", Leaf("1")), Member("provenance", Object(Provenance)),
    Member("model", Object(ModelSection)), Member("tokenizer", Object(TokenizerSection)),
    Member("calibration", Object(CalibrationSection)), Member("files", Array(FileList(RoleOf)))>>

(* Two sections edited, or the files and what the layout compares with     *)
(* them.                                                                   *)
SectionEdits ==
  <<Edits(Sections[1], {Leaf("2"), Leaf("-1")}),
    Edits(Sections[2], {Object(m) : m \in ProvenanceEdits}),
    Edits(Sections[3], {Object(m) : m \in ModelEdits}),
    Edits(Sections[4], {Object(m) : m \in TokenizerEdits}),
    Edits(Sections[5], {Object(m) : m \in CalibrationEdits}),
    Edits(Sections[6], {Array(<< >>)})>>

Edited(i, j, edits, others) ==
  {Object(FlattenSeq([k \in DOMAIN Sections |->
     IF k = i THEN e ELSE IF k = j THEN f ELSE <<Sections[k]>>])) : e \in edits, f \in others}

SmallDocuments ==
  {Malformed, Null, Array(<< >>)}
    \union UNION {Edited(i, j, SectionEdits[i], SectionEdits[j]) : i \in 1..3, j \in 4..6}
    \union Edited(1, 2, SectionEdits[1], SectionEdits[2])
    \union Edited(3, 6, {<<Member("model", Object(m))>> : m \in ModelEdits},
                        {<<Member("files", f)>> : f \in FilesEdits})
-----------------------------------------------------------------------------
(* Agent configurations: every form of a value, and edits of the members.  *)
Value(type, form, n) == Leaf([type |-> type, form |-> form, n |-> n])
Unscaled == Value("number", "plain", 10)
RawValues ==
  {Value("number", "plain", n) : n \in {-10, 0, 4, 5, 12, 50, 51}}
    \union {Value("number", "overflow", 0), Value("bool", "true", 0), Value("bool", "false", 0),
            Null, Array(<<Unscaled>>)}
    \union {Value("string", form, 20) : form \in {"plain", "padded", "hexadecimal", "infinite", "word"}}

Temperatures == {Array(<<Unscaled, v, Value("number", "plain", 30)>>) : v \in RawValues}
                  \union {Array(<<Unscaled, Unscaled>>), Array([i \in 1..4 |-> Unscaled])}
Buckets == {"choice:2", "choice:3-5", "score:6-10", "score:11+", "noul:2", "other"}
ByOptions == {Object(<< >>), Array(<< >>)}
               \union {Object(<<Member(b, v)>>) : b \in Buckets, v \in RawValues}
               \union {Object(<<Member("score:2", Unscaled), Member("score:2", Null)>>)}

BaseAgentConfig ==
  <<Member("encoder", Value("string", "word", 0)), Member("temperature", Array([i \in 1..3 |-> Unscaled])),
    Member("temperature_by_options", Object(<<Member("score:3-5", Value("number", "plain", 12))>>))>>

SmallAgentConfigs ==
  {Malformed} \union
    {Object(m) : m \in OneEdited(BaseAgentConfig, <<{Unscaled}, Temperatures, ByOptions>>)}
    \union {Object(<<Member("unknown", Null)>> \o BaseAgentConfig)}

SmallServed == {[byQType |-> <<10, 10, 10>>, byOptions |-> ("score:3-5" :> 12)]}
=============================================================================

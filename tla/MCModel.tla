------------------------------- MODULE MCModel -------------------------------
(* Small checkpoints for Checkpoint and Forward, sound ones and ones with a *)
(* single defect.                                                           *)
EXTENDS Forward

Ref(type, data) == [type |-> type, data |-> data]
Numbers(from, n) == [i \in 1 .. n |-> from + 7 * i]

-----------------------------------------------------------------------------
(* A Qwen3 model with two layers, two query heads and one key head of two  *)
(* rows.  A tensor is one number where its rows are not told apart.        *)

Layers == 0 .. 1
LayerNames == <<"o", "gate", "up", "down", "rms_attn", "rms_ffn", "q", "k", "v",
                "q_norm", "k_norm">>
RowsOf == [o |-> 1, gate |-> 1, up |-> 1, down |-> 1, rms_attn |-> 1, rms_ffn |-> 1,
           q |-> 4, k |-> 2, v |-> 2, q_norm |-> 2, k_norm |-> 2]
NameOf == [o |-> "o_proj", gate |-> "gate_proj", up |-> "up_proj", down |-> "down_proj",
           rms_attn |-> "input_layernorm", rms_ffn |-> "post_attention_layernorm",
           q |-> "q_proj", k |-> "k_proj", v |-> "v_proj", q_norm |-> "q_norm",
           k_norm |-> "k_norm"]
ShapeOf == [o |-> <<4, 4>>, gate |-> <<6, 4>>, up |-> <<6, 4>>, down |-> <<4, 6>>,
            rms_attn |-> <<4>>, rms_ffn |-> <<4>>, q |-> <<4, 4>>, k |-> <<2, 4>>,
            v |-> <<2, 4>>, q_norm |-> <<2>>, k_norm |-> <<2>>]

Qwen3Model ==
  [key \in {<<"embed">>, <<"lm_head">>, <<"rms_final">>}
             \union {<<l, LayerNames[i]>> : l \in Layers, i \in DOMAIN LayerNames} |->
     Ref("BF16",
         CASE key = <<"embed">> -> Numbers(11, 5)
           [] key = <<"lm_head">> -> Numbers(500, 5)
           [] key = <<"rms_final">> -> Numbers(1000, 1)
           [] OTHER -> LET i == CHOOSE j \in DOMAIN LayerNames : LayerNames[j] = key[2]
                       IN  Numbers(1100 + 1000 * key[1] + 83 * i, RowsOf[key[2]]))]

(* The tensors of the safetensors file, in order. *)
Qwen3Tensors ==
  <<[name |-> <<"embed_tokens">>, key |-> <<"embed">>, shape |-> <<5, 4>>],
    [name |-> <<"lm_head">>, key |-> <<"lm_head">>, shape |-> <<5, 4>>],
    [name |-> <<"norm">>, key |-> <<"rms_final">>, shape |-> <<4>>]>>
    \o FlattenSeq([m \in 1 .. 2 |-> [i \in DOMAIN LayerNames |->
         [name |-> <<m - 1, NameOf[LayerNames[i]]>>, key |-> <<m - 1, LayerNames[i]>>,
          shape |-> ShapeOf[LayerNames[i]]]]])

JInt(n) == [type |-> "int", v |-> n]
Qwen3Json ==
  [architectures |-> [type |-> "list", v |-> "Qwen3ForCausalLM"],
   hidden_size |-> JInt(4), num_attention_heads |-> JInt(2), num_hidden_layers |-> JInt(2),
   intermediate_size |-> JInt(6), vocab_size |-> JInt(5), num_key_value_heads |-> JInt(1),
   head_dim |-> JInt(2), max_position_embeddings |-> JInt(16),
   rope_theta |-> [type |-> "float", v |-> 10000],
   rms_norm_eps |-> [type |-> "float", v |-> 1]]

HeaderLen == 40
BytesBefore(ts, i) ==
  FoldLeft(LAMBDA sum, t : sum + 2 * Numel(t.shape), 0, SubSeq(ts, 1, i - 1))
EntryOf(ts, i) ==
  [type |-> "BF16", shape |-> ts[i].shape, begin |-> BytesBefore(ts, i),
   end |-> BytesBefore(ts, i + 1)]

HfFile(ts, json, defect) ==
  [kind |-> "dir", complete |-> TRUE, defect |-> defect, json |-> json,
   header_len |-> HeaderLen, size |-> 8 + HeaderLen + BytesBefore(ts, Len(ts) + 1),
   tensors |-> [name \in {ts[i].name : i \in DOMAIN ts} |->
                  EntryOf(ts, CHOOSE i \in DOMAIN ts : ts[i].name = name)],
   bytes |-> [at \in {8 + HeaderLen + BytesBefore(ts, i) : i \in DOMAIN ts} |->
                Qwen3Model[ts[CHOOSE i \in DOMAIN ts :
                                8 + HeaderLen + BytesBefore(ts, i) = at].key].data],
   lacks |-> {}, model |-> [key \in {ts[i].key : i \in DOMAIN ts} |-> Qwen3Model[key]]]

HfSound == HfFile(Qwen3Tensors, Qwen3Json, "none")
Norms == {<<l, n>> : l \in Layers, n \in {"q_norm", "k_norm"}}
NotNorm(t) == t.name \notin Norms

HfNoNorms == HfFile(SelectSeq(Qwen3Tensors, NotNorm), Qwen3Json, "none")
HfDefaults ==
  HfFile(Qwen3Tensors, Restrict(Qwen3Json, DOMAIN Qwen3Json
                                  \ {"head_dim", "rope_theta", "rms_norm_eps"}), "none")

Without(f, x) == Restrict(f, DOMAIN f \ {x})
JsonDefects ==
  {Without(Qwen3Json, key) : key \in RequiredKeys \union {"architectures",
                                                          "num_key_value_heads"}}
    \union {[Qwen3Json EXCEPT ![key] = JInt(0)] :
              key \in RequiredKeys \union OptionalInts \union OptionalFloats}
    \union {[Qwen3Json EXCEPT ![key].type = "string"] :
              key \in RequiredKeys \union OptionalInts \union OptionalFloats}
    \union {[Qwen3Json EXCEPT !["num_attention_heads"] = JInt(3)],
            [Qwen3Json EXCEPT !["num_key_value_heads"] = JInt(4)],
            [Qwen3Json EXCEPT !["head_dim"] = JInt(1)],
            [Qwen3Json EXCEPT !["architectures"].v = "LlamaForCausalLM"]}

(* Three query heads that share two key heads: the shapes would fit. *)
Uneven ==
  LET wide(t) == CASE t.key[Len(t.key)] = "q" -> [t EXCEPT !.shape = <<6, 6>>]
                   [] t.key[Len(t.key)] \in {"k", "v"} -> [t EXCEPT !.shape = <<4, 6>>]
                   [] t.key[Len(t.key)] = "o" -> [t EXCEPT !.shape = <<6, 6>>]
                   [] t.key[Len(t.key)] \in {"gate", "up"} -> [t EXCEPT !.shape = <<6, 6>>]
                   [] t.key[Len(t.key)] = "down" -> [t EXCEPT !.shape = <<6, 6>>]
                   [] t.key \in {<<"embed">>, <<"lm_head">>} -> [t EXCEPT !.shape = <<5, 6>>]
                   [] t.key[Len(t.key)] \in {"q_norm", "k_norm"} -> t
                   [] OTHER -> [t EXCEPT !.shape = <<6>>]
  IN  HfFile([i \in DOMAIN Qwen3Tensors |-> wide(Qwen3Tensors[i])],
             [Qwen3Json EXCEPT !["hidden_size"] = JInt(6), !["num_attention_heads"] = JInt(3),
                               !["num_key_value_heads"] = JInt(2)], "uneven")

HfDamaged(f) ==
  {[f EXCEPT !.defect = "json", !.json = json] : json \in JsonDefects}
    \union {[f EXCEPT !.defect = "cut", !.size = @ - n] : n \in {1, 5, 300, 470}}
    \union {[f EXCEPT !.defect = "incomplete", !.complete = FALSE]}
    \union {[f EXCEPT !.defect = "missing", !.tensors = Without(f.tensors, name)] :
              name \in DOMAIN f.tensors \ Norms}
    \union {[f EXCEPT !.defect = "shape", !.tensors[name].shape = Append(@, 1)] :
              name \in DOMAIN f.tensors}
    \union {[f EXCEPT !.defect = "type", !.tensors[name].type = "F16"] :
              name \in DOMAIN f.tensors}
    \union {[f EXCEPT !.defect = "norm", !.tensors = Without(f.tensors, name),
                      !.lacks = {name}] : name \in {<<0, "q_norm">>, <<1, "k_norm">>}}
    \union {[f EXCEPT !.defect = "short",
                      !.tensors = [name \in DOMAIN @ |-> [@[name] EXCEPT !.end = @ - 2]]]}
    \union {[f EXCEPT !.defect = "overrun", !.tensors[<<1, "k_norm">>].end = @ - 2,
                      !.size = @ - 2, !.lacks = {<<1, "k_norm">>}]}

-----------------------------------------------------------------------------
(* A Qwen3.5 model of three layers, the second with full attention, and a  *)
(* predictor layer that is not loaded; sixteen query heads of two rows.    *)

Float32s == <<[s |-> 0, m |-> 127 * 2 ^ 23 + 2 ^ 15], [s |-> 1, m |-> 127 * 2 ^ 23 + 3 * 2 ^ 15],
              [s |-> 0, m |-> 120 * 2 ^ 23 + 2 ^ 15 + 1], [s |-> 0, m |-> 130 * 2 ^ 23 - 1],
              [s |-> 1, m |-> 126 * 2 ^ 23 + 5 * 2 ^ 16 + 2 ^ 14]>>
Q8s == <<[d_f16 |-> 15360, q |-> 127], [d_f16 |-> 1, q |-> -3], [d_f16 |-> 513, q |-> 85],
         [d_f16 |-> 11878, q |-> -127], [d_f16 |-> 34000, q |-> 101], [d_f16 |-> 9000, q |-> 0]>>

FloatData(i, n) == [r \in 1 .. n |-> Float32s[((i + r) % Len(Float32s)) + 1]]
Q8Data(i, n) == [r \in 1 .. n |-> Q8s[((i + r + (r \div 5)) % Len(Q8s)) + 1]]

(* name, dimensions innermost first, and type in the file *)
GdnTensors ==
  <<<<"attn_norm", <<32>>, "F32">>, <<"attn_qkv", <<32, 128>>, "Q8_0">>,
    <<"attn_gate", <<32, 64>>, "Q8_0">>, <<"ssm_conv1d", <<4, 128>>, "F32">>,
    <<"ssm_alpha", <<32, 2>>, "Q8_0">>, <<"ssm_beta", <<32, 2>>, "Q8_0">>,
    <<"ssm_out", <<64, 32>>, "Q8_0">>, <<"ssm_norm", <<32>>, "F32">>,
    <<"ssm_a", <<2>>, "F32">>, <<"ssm_dt", <<2>>, "F32">>>>
AttnTensors ==
  <<<<"attn_norm", <<32>>, "F32">>, <<"attn_q", <<32, 64>>, "Q8_0">>,
    <<"attn_k", <<32, 2>>, "Q8_0">>, <<"attn_v", <<32, 2>>, "Q8_0">>,
    <<"attn_output", <<32, 32>>, "Q8_0">>, <<"attn_q_norm", <<2>>, "F32">>,
    <<"attn_k_norm", <<2>>, "F32">>>>
FfnTensors ==
  <<<<"ffn_gate", <<32, 96>>, "Q8_0">>, <<"ffn_up", <<32, 96>>, "Q8_0">>,
    <<"ffn_down", <<96, 32>>, "Q8_0">>, <<"post_attention_norm", <<32>>, "F32">>>>

LayerTensors(l, ts) ==
  [i \in DOMAIN ts |-> [name |-> <<l, ts[i][1]>>, len |-> Len(ts[i][1]) + 6,
                        dims |-> ts[i][2], type |-> ts[i][3]]]
Qwen35Tensors ==
  <<[name |-> <<"token_embd">>, len |-> 17, dims |-> <<32, 3>>, type |-> "Q8_0"],
    [name |-> <<"output_norm">>, len |-> 18, dims |-> <<32>>, type |-> "F32"]>>
    \o LayerTensors(0, GdnTensors \o FfnTensors) \o LayerTensors(1, AttnTensors \o FfnTensors)
    \o LayerTensors(2, GdnTensors \o FfnTensors)
    \o <<[name |-> <<3, "nextn">>, len |-> 18, dims |-> <<32>>, type |-> "F32"]>>

(* The numbers of a tensor of the model; attn_q has q and the gate by head. *)
Qwen35Data(i) ==
  LET t == Qwen35Tensors[i]
  IN  IF t.type = "F32" THEN FloatData(i, 1)
      ELSE IF t.name = <<1, "attn_q">>
      THEN FlattenSeq([h \in 1 .. 16 |-> Q8Data(h, 2) \o Q8Data(h + 3, 2)])
      ELSE Q8Data(i, 1)

Qwen35Model ==
  LET index(name) == CHOOSE i \in DOMAIN Qwen35Tensors : Qwen35Tensors[i].name = name
      kept == {Qwen35Tensors[i].name : i \in DOMAIN Qwen35Tensors}
                \ {<<"token_embd">>, <<"output_norm">>, <<1, "attn_q">>, <<3, "nextn">>}
      kind(name) == IF Qwen35Tensors[index(name)].type = "Q8_0" THEN "Q8_0"
                    ELSE IF name[2] \in {"ssm_a", "ssm_dt"} THEN "F32" ELSE "F32_BF16"
  IN  [name \in kept |-> Ref(kind(name), Qwen35Data(index(name)))]
        @@ (<<"embed">> :> Ref("Q8_0", Qwen35Data(1)))
        @@ (<<"lm_head">> :> Ref("Q8_0", Qwen35Data(1)))
        @@ (<<"rms_final">> :> Ref("F32_BF16", Qwen35Data(2)))
        @@ (<<1, "attn_q">> :> Ref("Q8_0", FlattenSeq([h \in 1 .. 16 |-> Q8Data(h, 2)])))
        @@ (<<1, "attn_gate">> :> Ref("Q8_0", FlattenSeq([h \in 1 .. 16 |-> Q8Data(h + 3, 2)])))

(* The bytes of a tensor: 4 for a float, 34 for 32 numbers in Q8_0. *)
WrittenBytes(t) == IF t.type = "F32" THEN 4 * Numel(t.dims) ELSE (Numel(t.dims) \div 32) * 34
RoundUp32(n) == n + ((32 - (n % 32)) % 32)
WrittenOffset[i \in 1 .. Len(Qwen35Tensors) + 1] ==
  IF i = 1 THEN 0 ELSE RoundUp32(WrittenOffset[i - 1] + WrittenBytes(Qwen35Tensors[i - 1]))

U32(key, n) == [key |-> key, len |-> 7 + Len(key), value |-> [type |-> "u32", v |-> n]]
Qwen35Metadata ==
  <<[key |-> "architecture", len |-> 20, value |-> [type |-> "string", v |-> "qwen35", len |-> 6]],
    U32("block_count", 4), U32("embedding_length", 32), U32("feed_forward_length", 96),
    U32("head_count", 16), U32("head_count_kv", 1), U32("key_length", 2),
    U32("context_length", 64), U32("full_attention_interval", 2),
    U32("nextn_predict_layers", 1), U32("ssm.conv_kernel", 4), U32("ssm.state_size", 32),
    U32("ssm.group_count", 1), U32("ssm.time_step_rank", 2), U32("ssm.inner_size", 64),
    [key |-> "rope.freq_base", len |-> 21, value |-> [type |-> "f32", v |-> 10000]],
    U32("rope.dimension_count", 2),
    [key |-> "rms_epsilon", len |-> 39, value |-> [type |-> "f64", v |-> 1]],
    [key |-> "tokens", len |-> 21, value |-> [type |-> "array", lens |-> <<1, 4, 2>>]]>>

WrittenInfos ==
  [i \in DOMAIN Qwen35Tensors |->
     [name |-> Qwen35Tensors[i].name, len |-> Qwen35Tensors[i].len,
      dims |-> Qwen35Tensors[i].dims, type |-> Qwen35Tensors[i].type,
      offset |-> WrittenOffset[i]]]

MetadataEnd[i \in 0 .. Len(Qwen35Metadata)] ==
  IF i = 0 THEN 24 ELSE MetadataEnd[i - 1] + 12 + Qwen35Metadata[i].len
                          + ValueBytes(Qwen35Metadata[i].value)
InfosEnd[i \in 0 .. Len(Qwen35Tensors)] ==
  IF i = 0 THEN MetadataEnd[Len(Qwen35Metadata)]
  ELSE InfosEnd[i - 1] + 24 + Qwen35Tensors[i].len + 8 * Len(Qwen35Tensors[i].dims)
WrittenStart == RoundUp32(InfosEnd[Len(Qwen35Tensors)])

GgufSound ==
  [kind |-> "gguf", defect |-> "none", version |-> 3, metadata |-> Qwen35Metadata,
   infos |-> WrittenInfos,
   size |-> WrittenStart + WrittenOffset[Len(Qwen35Tensors) + 1],
   bytes |-> [at \in {WrittenStart + WrittenInfos[i].offset : i \in DOMAIN WrittenInfos} |->
                Qwen35Data(CHOOSE i \in DOMAIN WrittenInfos :
                             WrittenStart + WrittenInfos[i].offset = at)],
   lacks |-> {}, model |-> Qwen35Model]

(* The tensors of the first and the second layer are damaged in turn; the *)
(* last tensor, of the predictor, is never read.                          *)
GgufDamaged(f) ==
  {[f EXCEPT !.defect = "cut", !.size = (@ * n) \div 40] : n \in 0 .. 39}
    \union {[f EXCEPT !.defect = "predictor", !.size = @ - 64]}
    \union {[f EXCEPT !.defect = "version", !.version = 2]}
    \union {[f EXCEPT !.defect = "metadata", !.metadata[i].key = "other"] :
              i \in 1 .. Len(f.metadata) - 1}
    \union {[f EXCEPT !.defect = "metadata", !.metadata[i].value.type = "i32"] :
              i \in 2 .. Len(f.metadata) - 1}
    \union {[f EXCEPT !.defect = "architecture", !.metadata[1].value.type = "i32"]}
    \union {[f EXCEPT !.defect = "tokens", !.metadata[Len(f.metadata)].key = "other"]}
    \union {[f EXCEPT !.defect = "metadata", !.metadata[i].value.v = 0] :
              i \in 2 .. Len(f.metadata) - 1}
    \union {[f EXCEPT !.defect = "vocabulary", !.metadata[Len(f.metadata)].value.lens = <<1>>]}
    \union {[f EXCEPT !.defect = "missing", !.infos[i].name = <<"other">>] : i \in 1 .. 27}
    \union {[f EXCEPT !.defect = "type", !.infos[i].type = "Q4_0"] : i \in {1, 2, 33}}
    \union {[f EXCEPT !.defect = "type", !.infos[i].type = "BF16"] : i \in 1 .. 27}
    \union {[f EXCEPT !.defect = "shape", !.infos[i].dims[1] = @ + 32] : i \in 1 .. 27}

MCFiles == {HfSound, HfNoNorms, HfDefaults} \union {GgufSound}
MCDamaged(f) == IF f.kind = "gguf" THEN GgufDamaged(f)
                ELSE IF f = HfSound THEN HfDamaged(f) \union {Uneven} ELSE {}
MCPrompts == [a |-> <<1, 2, 3>>, b |-> <<1, 2>>]
==============================================================================

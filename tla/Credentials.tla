---------------------------- MODULE Credentials ----------------------------
(***************************************************************************)
(* From a PIN and a bot token to credentials.json and back: hashing and    *)
(* verification (pin_auth.rs), the codec (credentials_persistence.rs), the *)
(* DPAPI wrapper (dpapi.rs), and the codec of config.json                  *)
(* (config_persistence.rs).  Argon2, Base64 and CryptProtectData are       *)
(* libraries: a digest is the pair of PIN and salt it was computed from, a *)
(* Base64 text is its bytes and the way they are written.                  *)
(***************************************************************************)
EXTENDS Integers, Sequences, FiniteSets

CONSTANTS Pin, Salt, Token,
          Empty,   \* the empty PIN, text or blob
          Huge,    \* a token longer than u32::MAX bytes
          MaxU32,  \* u32::MAX
          ARGON2_M_COST, ARGON2_T_COST, ARGON2_P_COST,
          MaxCredEdits   \* edits between two set-ups

ASSUME ParametersAreU32 == {ARGON2_M_COST, ARGON2_T_COST, ARGON2_P_COST} \subseteq 1..MaxU32
ASSUME EditBound == MaxCredEdits \in Nat
ASSUME SpecialValues ==
    /\ Empty \notin Pin \cup Token \cup Salt /\ Huge \notin Token /\ Empty # Huge
    /\ \A p \in Pin, s \in Salt : [pin |-> p, salt |-> s, cost |-> ARGON2_M_COST] # Empty
    /\ \A t \in Token : [sealed |-> t, account |-> "service"] # Empty

Error == [error |-> TRUE]

(* Base64 text; the forms other than "canonical" carry padding, white      *)
(* space, stray bits or characters that are no Base64.                     *)
Form == {"canonical", "padded", "spaced", "loose", "garbage"}
Text(bytes, form) == [bytes |-> bytes, form |-> form]
Number(digits, value) == [digits |-> digits, value |-> value]

-----------------------------------------------------------------------------
(* pin_auth.rs *)
hash_pin(pin, salt) ==
    IF pin = Empty THEN Error
    ELSE [alg |-> "argon2id", version |-> 19,
          params |-> << <<"m", Number(TRUE, ARGON2_M_COST)>>, <<"t", Number(TRUE, ARGON2_T_COST)>>,
                        <<"p", Number(TRUE, ARGON2_P_COST)>> >>,
          salt |-> Text(salt, "canonical"),
          hash |-> Text([pin |-> pin, salt |-> salt, cost |-> ARGON2_M_COST], "canonical")]

param(phc, name) == {phc.params[i][2] : i \in {j \in 1..Len(phc.params) : phc.params[j][1] = name}}
exactly(phc, name, cost) == param(phc, name) = {Number(TRUE, cost)}
MutPolicyAtMost(phc) == phc.alg = "argon2id" /\ phc.version = 19 /\ Len(phc.params) = 3
policy(phc) ==
    /\ phc.alg = "argon2id" /\ phc.version = 19
    /\ Len(phc.params) = 3
    /\ exactly(phc, "m", ARGON2_M_COST) /\ exactly(phc, "t", ARGON2_T_COST)
    /\ exactly(phc, "p", ARGON2_P_COST)
    /\ phc.salt.bytes # Empty /\ phc.hash.bytes # Empty

(* Ok(true), Ok(false) or an error; the library recomputes the digest with *)
(* the parameters of the stored text.                                      *)
verify_pin(pin, phc) ==
    IF ~policy(phc) THEN "error"
    ELSE IF pin = Empty THEN "false"
    ELSE IF phc.hash.bytes = [pin |-> pin, salt |-> phc.salt.bytes, cost |-> ARGON2_M_COST]
           THEN "true" ELSE "false"

-----------------------------------------------------------------------------
(* credentials_persistence.rs *)
validate_phc_base64(t) == t.bytes # Empty /\ t.form = "canonical"
parse_positive_u32(n) == n.digits /\ n.value \in 1..MaxU32
validate_pin_hash(phc) ==
    /\ phc.alg = "argon2id" /\ phc.version = 19
    /\ Len(phc.params) = 3
    /\ \A i \in 1..3 : /\ phc.params[i][1] = <<"m", "t", "p">>[i]
                       /\ parse_positive_u32(phc.params[i][2])
    /\ validate_phc_base64(phc.salt) /\ validate_phc_base64(phc.hash)

validate(c) == validate_pin_hash(c.pin_hash) /\ c.token_dpapi # Empty
decode_dpapi_base64(t) == IF t.bytes = Empty \/ t.form # "canonical" THEN Error ELSE t.bytes

encode_credentials_json(c) ==
    IF ~validate(c) THEN Error
    ELSE [schema_version |-> 1, pin_hash |-> c.pin_hash, token_dpapi |-> Text(c.token_dpapi, "canonical")]
decode_credentials_json(w) ==
    IF \/ w.schema_version # 1
       \/ ~validate_pin_hash(w.pin_hash)
       \/ decode_dpapi_base64(w.token_dpapi) = Error
      THEN Error
      ELSE [pin_hash |-> w.pin_hash, token_dpapi |-> decode_dpapi_base64(w.token_dpapi)]

(* dpapi.rs: the size is checked before the call, and the call may fail;   *)
(* only the account that protected a blob can open it.                     *)
protect_data(t, account) == IF t = Huge THEN Error ELSE [sealed |-> t, account |-> account]
unprotect_data(b, account) == IF b.account = account THEN b.sealed ELSE Error

(* config_persistence.rs *)
validate_config(c) == c.child_sid # Empty /\ c.heartbeat > 0
encode_config_json(c) == IF validate_config(c) THEN [schema_version |-> 1, config |-> c] ELSE Error
decode_config_json(w) ==
    IF w.schema_version = 1 /\ validate_config(w.config) THEN w.config ELSE Error

-----------------------------------------------------------------------------
(* The set-up writes both files, as often as it is run; somebody may edit  *)
(* them; the service loads them when it starts, then authenticates PINs    *)
(* and opens the token.  It reads no file while it runs, so that here the  *)
(* files change while it is down.                                          *)
VARIABLES
    cred_pc,                      \* "down" or "running"
    wire, cfile,                  \* credentials.json and config.json
    cred_loaded,                  \* what the service holds
    asked, verdict, opened,       \* the last login: the PIN, the answer, the token
    pin,                          \* history: whose digest was last put into the file
    token, cred_edits             \* history: the token of the last set-up, edits since then
cred_vars == <<cred_pc, wire, cfile, cred_loaded, asked, verdict, opened, pin, token, cred_edits>>
service_side == <<cred_pc, cred_loaded, asked, verdict, opened>>
cred_files == <<wire, cfile, pin, token, cred_edits>>

Config == [child_sid : {Empty, "sid"}, heartbeat : 0..1]

CredInit ==
    /\ cred_pc = "down" /\ wire = Error /\ cfile = Error /\ cred_loaded = Error
    /\ asked = Empty /\ verdict = "none" /\ opened = Error
    /\ pin = Empty /\ token = Huge /\ cred_edits = 0

provision(p, t, c, s) ==
    LET phc == hash_pin(p, s)
        blob == protect_data(t, "service")
    IN  /\ cred_pc = "down"
        /\ IF phc = Error \/ blob = Error \/ encode_config_json(c) = Error
             THEN UNCHANGED cred_files
             ELSE /\ wire' = encode_credentials_json([pin_hash |-> phc, token_dpapi |-> blob])
                  /\ cfile' = encode_config_json(c)
                  /\ pin' = p /\ token' = t /\ cred_edits' = 0
        /\ UNCHANGED service_side

EditedText(t, bytes) == {Text(b, t.form) : b \in bytes} \cup {Text(t.bytes, f) : f \in Form}
EditedParams(ps) ==
    {SubSeq(ps, 1, 2), Append(ps, <<"x", Number(TRUE, 1)>>), [ps EXCEPT ![1] = ps[2], ![2] = ps[1]]}
    \cup {[ps EXCEPT ![i] = <<@[1], Number(d, v)>>] :
             i \in DOMAIN ps, d \in BOOLEAN, v \in {0, 1, MaxU32, MaxU32 + 1}}
EditedHash(h) ==
    {[h EXCEPT !.alg = "argon2i"], [h EXCEPT !.version = 16]}
    \cup {[h EXCEPT !.params = ps] : ps \in EditedParams(h.params)}
    \cup {[h EXCEPT !.salt = t] : t \in EditedText(h.salt, Salt \cup {Empty})}
    \cup {[h EXCEPT !.hash = t] : t \in EditedText(h.hash, {Empty})}
Edits(w) ==
    {[w EXCEPT !.schema_version = 2]}
    \cup {[w EXCEPT !.pin_hash = h] : h \in EditedHash(w.pin_hash)}
    \cup {[w EXCEPT !.token_dpapi = t] :
             t \in EditedText(w.token_dpapi, {Empty, [sealed |-> token, account |-> "other"]})}

edits_file ==
    /\ cred_pc = "down" /\ wire # Error
    /\ cred_edits < MaxCredEdits /\ cred_edits' = cred_edits + 1
    /\ UNCHANGED <<token, service_side>>

edit ==
    /\ edits_file
    /\ \/ wire' \in Edits(wire) /\ UNCHANGED cfile
       \/ /\ cfile' \in {[cfile EXCEPT !.schema_version = 0], [cfile EXCEPT !.config.heartbeat = 0],
                         [cfile EXCEPT !.config.child_sid = Empty]}
          /\ UNCHANGED wire
    /\ UNCHANGED pin

(* Whoever can compute digests can put in one of a PIN of their own, also  *)
(* one of a cheaper kind.                                                  *)
plant(p, s, cost) ==
    /\ edits_file
    /\ wire' = [wire EXCEPT !.pin_hash =
                   [@ EXCEPT !.hash = Text([pin |-> p, salt |-> s, cost |-> cost], "canonical")]]
    /\ pin' = p
    /\ UNCHANGED cfile

load_files ==
    /\ cred_pc = "down" /\ wire # Error
    /\ LET creds == decode_credentials_json(wire) IN
       IF creds = Error \/ decode_config_json(cfile) = Error
         THEN UNCHANGED <<cred_pc, cred_loaded>>
         ELSE cred_pc' = "running" /\ cred_loaded' = creds
    /\ UNCHANGED <<cred_files, asked, verdict, opened>>

authenticate(candidate) ==
    /\ cred_pc = "running"
    /\ asked' = candidate
    /\ verdict' = verify_pin(candidate, cred_loaded.pin_hash)
    /\ opened' = unprotect_data(cred_loaded.token_dpapi, "service")
    /\ UNCHANGED <<cred_files, cred_pc, cred_loaded>>

service_exits ==
    /\ cred_pc = "running"
    /\ cred_pc' = "down" /\ cred_loaded' = Error
    /\ asked' = Empty /\ verdict' = "none" /\ opened' = Error
    /\ UNCHANGED cred_files

CredNext ==
    \/ \E p \in Pin \cup {Empty}, t \in Token \cup {Huge}, c \in Config, s \in Salt : provision(p, t, c, s)
    \/ edit \/ \E p \in Pin, s \in Salt, cost \in {1, ARGON2_M_COST} : plant(p, s, cost)
    \/ load_files \/ service_exits
    \/ \E c \in Pin \cup {Empty} : authenticate(c)
CredSpec == CredInit /\ [][CredNext]_cred_vars

(* A PIN is accepted only if its digest is the one last put into the file: *)
(* by the set-up, or by somebody who made it for that PIN; no edit of      *)
(* salt, parameters or spelling lets another in, nor the empty one.  As    *)
(* long as nobody edits the file, the PIN of the last set-up is accepted   *)
(* and every other is refused.                                             *)
OnlyThePin ==
    /\ verdict = "true" => asked = pin /\ asked # Empty
    /\ verdict # "none" /\ cred_edits = 0 => verdict = IF asked = pin THEN "true" ELSE "false"

(* A hash with other parameters than the policy's, as an edited file could *)
(* hold, never authenticates anyone, although the codec accepts it.        *)
NoDowngrade == verdict # "error" /\ verdict # "none" =>
    \A i \in 1..3 : cred_loaded.pin_hash.params[i][2].value = <<ARGON2_M_COST, ARGON2_T_COST, ARGON2_P_COST>>[i]

(* What the service holds after loading can be saved again unchanged, and  *)
(* an untouched token opens to what was sealed.                            *)
LoadedIsCanonical ==
    /\ cred_loaded # Error => encode_credentials_json(cred_loaded) = wire
    /\ verdict # "none" /\ cred_edits = 0 => opened = token

(* Only the PIN whose digest the file was given opens, under no weaker     *)
(* hash than the policy's, and the files are read as they are written.     *)
PinHonoured == OnlyThePin /\ NoDowngrade /\ LoadedIsCanonical
=============================================================================

---------------------------- MODULE Configuration ----------------------------
(***************************************************************************)
(* What the configuration file means (config/ConfigLoader.cpp,             *)
(* config/MachinePalConfig.cpp and config/subconfigs): a YAML document is  *)
(* turned into JSON, overridden from environment and command line, and     *)
(* read; every check that fails throws, and none of them is repaired, so   *)
(* a document is accepted or refused as a whole.  The JSON schema is       *)
(* consulted, too, but what it finds is only logged.                       *)
(*                                                                         *)
(* A document is a function from the paths of its leaves, tuples of keys,  *)
(* to the leaves; Index holds the keys of arrays.  A leaf has its text,    *)
(* what this text can be read as (a YAML conversion, or a format such as   *)
(* "url"), its tag, and its value when it is read as a number: for the     *)
(* ports what get<int>() returns, which is cut to 32 bits first.           *)
(***************************************************************************)
EXTENDS Integers, Sequences
Tuples == INSTANCE SequencesExt

Index == {"0", "1", "2"}

Leaf(text, reads, number) == [text |-> text, reads |-> reads, number |-> number, tag |-> ""]
Word(text) == Leaf(text, {"hostname", "label"}, 0)
Path(text) == Leaf(text, {}, 0)
Switch(on) == Leaf(IF on THEN "true" ELSE "false", {"bool", "hostname", "label"}, IF on THEN 1 ELSE 0)
Number(text, n) == Leaf(text, {"int64", "double", "hostname", "label"}, n)

\* yamlNodeToJson: the explicit tag decides, else the first conversion that succeeds.
IntegerType(leaf, otherwise) == IF {"int64", "uint64"} \cap leaf.reads # {} THEN "integer" ELSE otherwise
FloatType(leaf) == IF "double" \in leaf.reads THEN "float" ELSE "string"

JsonType(leaf) ==
  CASE leaf.tag \in {"null", "object", "array"} -> leaf.tag
    [] leaf.tag = "!!str" -> "string"
    [] leaf.tag = "!!bool" -> IF "bool" \in leaf.reads THEN "boolean" ELSE "throws"
    [] leaf.tag = "!!int" -> IntegerType(leaf, "string")
    [] leaf.tag = "!!float" -> FloatType(leaf)
    [] OTHER -> IF "bool" \in leaf.reads THEN "boolean" ELSE IntegerType(leaf, FloatType(leaf))

Json(type, leaf) == [type |-> type, text |-> leaf.text, reads |-> leaf.reads, number |-> leaf.number]

yamlToJson(document) == [p \in DOMAIN document |-> Json(JsonType(document[p]), document[p])]

Converts(document) == \A p \in DOMAIN document : JsonType(document[p]) # "throws"
-----------------------------------------------------------------------------
(***************************************************************************)
(* Looking into a JSON document                                            *)
(***************************************************************************)
Contains(j, p) == \E q \in DOMAIN j : Tuples!IsPrefix(p, q)
Items(j, p) == {i \in Index : Contains(j, Append(p, i))}

TypeAt(j, p) ==
  IF p \in DOMAIN j THEN j[p].type ELSE IF Items(j, p) # {} THEN "array" ELSE "object"

MustContain(j, p, type) == Contains(j, p) /\ TypeAt(j, p) = type
MayContain(j, p, type) == Contains(j, p) => TypeAt(j, p) = type

TextAt(j, p, default) == IF Contains(j, p) THEN j[p].text ELSE default
ReadsAs(j, p, format) == format \in j[p].reads

(***************************************************************************)
(* applyEnvOverrides.  The keys are looked for without their prefix, those *)
(* of integers with it, so that only a variable that is prefixed twice is  *)
(* found.                                                                  *)
(***************************************************************************)
Override(key, path, type) == [key |-> key, path |-> path, type |-> type]

OverrideTable ==
  { Override("ENABLE_HTTP", <<"server", "enable_http">>, "boolean"),
    Override("ENABLE_HTTPS", <<"server", "enable_https">>, "boolean"),
    Override("MACHINE_PAY_HTTP_PORT", <<"server", "http_listen_port">>, "integer"),
    Override("MACHINE_PAY_HTTPS_PORT", <<"server", "https_listen_port">>, "integer"),
    Override("MACHINE_PAY_BIND_IP", <<"server", "bind_ip">>, "integer"),
    Override("MACHINE_PAY_HOSTNAME", <<"server", "hostname">>, "integer"),
    Override("SERVER_TLS_CERT_FILE", <<"server", "tls", "cert_file">>, "string"),
    Override("SERVER_TLS_KEY_FILE", <<"server", "tls", "key_file">>, "string"),
    Override("SERVER_TLS_KEY_PASS_FILE", <<"server", "tls", "key_pass_file">>, "string"),
    Override("SERVER_TLS_CA_FILE", <<"server", "tls", "ca_file">>, "string"),
    Override("FACILITATOR_TYPE", <<"facilitator", "type">>, "string"),
    Override("FACILITATOR_BASE_URL", <<"facilitator", "base_url">>, "string"),
    Override("FACILITATOR_API_KEY_FILE", <<"facilitator", "api_key_file">>, "string"),
    Override("LOG_LEVEL", <<"log", "level">>, "string"),
    Override("LOG_TYPE", <<"log", "type">>, "string") }

Given(overrides) == {o \in OverrideTable : o.key \in DOMAIN overrides}

\* j[path] = value creates what is missing on the way; stoi must find a number, and
\* a leaf on the way that is not null throws.
OverridesApply(j, overrides) ==
  \A o \in Given(overrides) :
    /\ o.type = "integer" => "int64" \in overrides[o.key].reads
    /\ \A p \in DOMAIN j : Tuples!IsStrictPrefix(p, o.path) => j[p].type \in {"null", "object"}

\* Faulty variant: what the file says wins.
KeepFile(j, overrides) ==
  LET new == {o \in Given(overrides) : ~Contains(j, o.path)}
      Written(p) == CHOOSE o \in new : o.path = p
  IN [p \in DOMAIN j \cup {o.path : o \in new} |->
        IF p \in DOMAIN j THEN j[p] ELSE Json(Written(p).type, overrides[Written(p).key])]

applyEnvOverrides(j, overrides) ==
  LET paths == {o.path : o \in Given(overrides)}
      kept == {p \in DOMAIN j : \A q \in paths : ~Tuples!IsPrefix(p, q) /\ ~Tuples!IsPrefix(q, p)}
      Written(p) == CHOOSE o \in Given(overrides) : o.path = p
  IN [p \in kept \cup paths |->
        IF p \in paths THEN Json(Written(p).type, overrides[Written(p).key]) ELSE j[p]]

\* The first line of the password file replaces nothing that is read later; only
\* a name of the file that is no string throws.
resolveSecrets(j) ==
  MustContain(j, <<"database">>, "object") => MayContain(j, <<"database", "passwordFile">>, "string")

\* Whatever the schema says, only an empty document is refused.
validateJson(j) == DOMAIN j # {} /\ MayContain(j, <<>>, "object")
-----------------------------------------------------------------------------
(***************************************************************************)
(* Reading the sections.  `files` maps the paths of what is on the disk to *)
(* records of kind, readable, climbs (the path contains "..") and content. *)
(***************************************************************************)
checkFileExistsAndReadableAndResolve(files, path) ==
  /\ path \in DOMAIN files
  /\ ~files[path].climbs
  /\ files[path].kind = "regular"
  /\ files[path].readable

NamesFile(j, p, files) ==
  MustContain(j, p, "string") /\ checkFileExistsAndReadableAndResolve(files, j[p].text)

\* A file cut short is no well-formed PEM; a key belongs to the certificate that
\* was made with it.
doThoroughKeyCertFormatCheck(certificate, key) ==
  /\ certificate.content # "short" /\ key.content # "short"
  /\ certificate.content = key.content

Section(protocol) == <<"server", protocol>>
Key(p, key) == Append(p, key)

Port == 1..65535

\* Faulty variant: the ports of the template are not looked at.
EverybodyOn8080(j, p) == 8080

PortAt(j, p) == IF Contains(j, Key(p, "port")) THEN j[Key(p, "port")].number ELSE 8080

PortIsValid(j, p) ==
  MayContain(j, Key(p, "port"), "integer") /\ PortAt(j, p) \in Port

\* The option is called `enabled` here, and `enable` in the template, the schema
\* and the tests.
Enabled(j, p) == Contains(j, p) /\ (Contains(j, Key(p, "enabled")) => j[Key(p, "enabled")].number = 1)

HTTPConfigIsValid(j) ==
  LET p == Section("http")
  IN Contains(j, p) =>
       /\ TypeAt(j, p) = "object"
       /\ MayContain(j, Key(p, "enabled"), "boolean")
       /\ Enabled(j, p) => PortIsValid(j, p)

\* ca_file and key_pass_file may be null.
OptionalFile(j, p, files) == MustContain(j, p, "null") \/ (Contains(j, p) => NamesFile(j, p, files))

HTTPSConfigIsValid(j, files) ==
  LET p == Section("https")
  IN Contains(j, p) =>
       /\ TypeAt(j, p) = "object"
       /\ MayContain(j, Key(p, "enabled"), "boolean")
       /\ Enabled(j, p) =>
            /\ OptionalFile(j, Key(p, "ca_file"), files)
            /\ OptionalFile(j, Key(p, "key_pass_file"), files)
            /\ NamesFile(j, Key(p, "cert_file"), files)
            /\ NamesFile(j, Key(p, "key_file"), files)
            /\ PortIsValid(j, p)
            /\ doThoroughKeyCertFormatCheck(files[j[Key(p, "cert_file")].text],
                                            files[j[Key(p, "key_file")].text])

ServerConfigIsValid(j, files) ==
  /\ MustContain(j, <<"server">>, "object")
  /\ HTTPConfigIsValid(j) /\ HTTPSConfigIsValid(j, files)
  /\ Enabled(j, Section("http")) \/ Enabled(j, Section("https"))
  /\ MustContain(j, <<"server", "hostname">>, "string")
  /\ ReadsAs(j, <<"server", "hostname">>, "hostname")
  /\ MayContain(j, <<"server", "bind_ip">>, "string")
  /\ Contains(j, <<"server", "bind_ip">>) => ReadsAs(j, <<"server", "bind_ip">>, "ip")

LogConfigIsValid(j) ==
  Contains(j, <<"log">>) =>
    /\ TypeAt(j, <<"log">>) = "object"
    /\ MayContain(j, <<"log", "level">>, "string")
    /\ TextAt(j, <<"log", "level">>, "info") \in {"trace", "debug", "info", "warn", "error", "fatal"}
    /\ MayContain(j, <<"log", "type">>, "string")
    /\ TextAt(j, <<"log", "type">>, "text") \in {"text", "json"}

\* "base" is a type of facilitator that is known, and refused.
FacilitatorConfigIsValid(j, p, files) ==
  /\ MustContain(j, Key(p, "type"), "string") /\ j[Key(p, "type")].text = "cdp"
  /\ MustContain(j, Key(p, "base_url"), "string")
  /\ NamesFile(j, Key(p, "api_key_file"), files)

NetworkConfigIsValid(j, files) ==
  LET facilitator == <<"network", "facilitator">>
      wallet == <<"network", "client_wallet_key_file">>
      name == TextAt(j, <<"network", "name">>, "machinepal-easynet")
  IN /\ MustContain(j, <<"network">>, "object")
     /\ MustContain(j, <<"network", "payment_address">>, "string")
     /\ ReadsAs(j, <<"network", "payment_address">>, "address")
     /\ Contains(j, wallet) =>
          NamesFile(j, wallet, files) /\ files[j[wallet].text].content # "short"
     /\ MayContain(j, <<"network", "name">>, "string")
     /\ name \in {"machinepal-easynet", "base-sepolia", "base"}
     /\ MustContain(j, facilitator, "object") => FacilitatorConfigIsValid(j, facilitator, files)
     /\ name # "machinepal-easynet" => MustContain(j, facilitator, "object")

ResourceConfigIsValid(j, p, files) ==
  /\ MustContain(j, Key(p, "name"), "string")
  /\ MustContain(j, Key(p, "type"), "string")
  /\ MustContain(j, Key(p, "location"), "string")
  /\ \E number \in {"integer", "float"} : MustContain(j, Key(p, "price"), number)
  /\ j[Key(p, "price")].number >= 0
  /\ MustContain(j, Key(p, "token"), "string")
  /\ \/ /\ j[Key(p, "type")].text = "local_file"
        /\ NamesFile(j, Key(p, "location"), files)
     \/ /\ j[Key(p, "type")].text \in {"api-jsonrpc", "api-rest"}
        /\ ReadsAs(j, Key(p, "location"), "url")

ResourcesAreValid(j, p, files) ==
  /\ MayContain(j, Key(p, "resources"), "array")
  /\ \A i \in Items(j, Key(p, "resources")) :
       ResourceConfigIsValid(j, Key(p, "resources") \o <<i>>, files)

\* Here the option is called `enable`.
PassThroughConfigIsValid(j, p) ==
  LET enable == p \o <<"passthrough", "enable">>
  IN Contains(j, Key(p, "passthrough")) =>
       /\ TypeAt(j, Key(p, "passthrough")) = "object"
       /\ MayContain(j, enable, "boolean")
       /\ \/ Contains(j, enable) /\ j[enable].number = 0
          \/ MustContain(j, p \o <<"passthrough", "target_url">>, "string")

Lower(name) == IF name = "Acme" THEN "acme" ELSE name

\* Names are made lower case before they are checked, subdomains are not.
OrganizationConfigIsValid(j, p, files) ==
  /\ MustContain(j, Key(p, "name"), "string") /\ ReadsAs(j, Key(p, "name"), "label")
  /\ MustContain(j, Key(p, "subdomain"), "string") /\ ReadsAs(j, Key(p, "subdomain"), "label")
  /\ Lower(j[Key(p, "subdomain")].text) = j[Key(p, "subdomain")].text
  /\ ResourcesAreValid(j, p, files)
  /\ PassThroughConfigIsValid(j, p)

Organization(i) == <<"organizations", i>>

OrganizationsAreValid(j, files) ==
  /\ MayContain(j, <<"organizations">>, "array")
  /\ \A i \in Items(j, <<"organizations">>) :
       OrganizationConfigIsValid(j, Organization(i), files)
  /\ \A i, k \in Items(j, <<"organizations">>) :
       i # k => /\ Lower(j[Key(Organization(i), "name")].text) # Lower(j[Key(Organization(k), "name")].text)
                /\ j[Key(Organization(i), "subdomain")].text # j[Key(Organization(k), "subdomain")].text

\* MachinePalConfig::createFromJson returns: the default organization owns what
\* stands at the top.
createFromJson(j, files) ==
  /\ ServerConfigIsValid(j, files)
  /\ LogConfigIsValid(j)
  /\ ResourcesAreValid(j, <<>>, files)
  /\ PassThroughConfigIsValid(j, <<>>)
  /\ NetworkConfigIsValid(j, files)
  /\ OrganizationsAreValid(j, files)

\* loadFromYamlFile returns.
Loads(document, overrides, files) ==
  LET j == yamlToJson(document)
  IN /\ Converts(document)
     /\ OverridesApply(j, overrides)
     /\ LET overridden == applyEnvOverrides(j, overrides)
        IN resolveSecrets(overridden) /\ validateJson(overridden) /\ createFromJson(overridden, files)

NoPort == 0
ListenPort(j, protocol) ==
  IF Enabled(j, Section(protocol)) THEN PortAt(j, Section(protocol)) ELSE NoPort

SpdlogLevel(level) == CASE level = "error" -> "err" [] level = "fatal" -> "critical" [] OTHER -> level

\* The loggers of the start are dropped, new ones registered with this level and format.
configureLogging(level, type) ==
  [level |-> SpdlogLevel(level), format |-> IF type = "json" THEN "JsonFormatter" ELSE "pattern"]

\* What the process uses of it.  The facilitator is always the one this process
\* hosts, reached over https if there is, whatever network and facilitator say.
Loaded(document, overrides) ==
  LET j == applyEnvOverrides(yamlToJson(document), overrides)
      https == ListenPort(j, "https")
      http == ListenPort(j, "http")
  IN [ http |-> http, https |-> https,
       facilitator |-> IF https # NoPort THEN <<"https", https>> ELSE <<"http", http>>,
       caFile |-> TextAt(j, <<"server", "https", "ca_file">>, ""),
       logging |-> configureLogging(TextAt(j, <<"log", "level">>, "info"),
                                    TextAt(j, <<"log", "type">>, "text")) ]
-----------------------------------------------------------------------------
\* MachinePalConfigGenerator's template, with the address of the new wallet.
Resource(i, key) == <<"resources", i, key>>
HTTPPort == Number("8080", 8080)
HTTPSPort == Number("8443", 8443)

TemplateEntries ==
  { <<<<"server", "hostname">>, Word("localhost")>>,
    <<<<"server", "http", "enable">>, Switch(TRUE)>>,
    <<<<"server", "http", "port">>, HTTPPort>>,
    <<<<"server", "https", "enable">>, Switch(TRUE)>>,
    <<<<"server", "https", "port">>, HTTPSPort>>,
    <<<<"server", "https", "cert_file">>, Path("cert")>>,
    <<<<"server", "https", "key_file">>, Path("certKey")>>,
    <<<<"network", "name">>, Word("machinepal-easynet")>>,
    <<<<"network", "payment_address">>, Leaf("address", {"address"}, 0)>>,
    <<<<"log", "level">>, Word("trace")>>,
    <<Resource("0", "name"), Word("hello_world")>>,
    <<Resource("0", "type"), Word("local_file")>>,
    <<Resource("0", "location"), Path("hello")>>,
    <<Resource("0", "price"), Leaf("1.545", {"double"}, 1)>>,
    <<Resource("0", "token"), Word("USDC")>>,
    <<Resource("1", "name"), Word("hello_world_api_rest")>>,
    <<Resource("1", "type"), Word("api-rest")>>,
    <<Resource("1", "location"), Leaf("https://...", {"url"}, 0)>>,
    <<Resource("1", "price"), Number("12", 12)>>,
    <<Resource("1", "token"), Word("USDC")>> }

kYamlTemplate ==
  [p \in {e[1] : e \in TemplateEntries} |-> (CHOOSE e \in TemplateEntries : e[1] = p)[2]]
=============================================================================

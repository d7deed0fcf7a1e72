------------------------- MODULE MCMachinePalProcess -------------------------
(***************************************************************************)
(* The model-checking instance of MachinePalProcess: two commands, edits   *)
(* that touch each section of the template, overrides that work, that do   *)
(* nothing and that are refused.                                           *)
(***************************************************************************)
EXTENDS MachinePalProcess

With(d, path, leaf) ==
  [p \in DOMAIN d \cup {path} |-> IF p = path THEN leaf ELSE d[p]]
Without(d, path) == [p \in DOMAIN d \ {path} |-> d[p]]

T == kYamlTemplate
Https(key) == <<"server", "https", key>>
Org(i, key) == <<"organizations", i, key>>
Organizations(names, subdomains) ==
  With(With(With(With(T, Org("0", "name"), Word(names[1])), Org("0", "subdomain"), Word(subdomains[1])),
       Org("1", "name"), Word(names[2])), Org("1", "subdomain"), Word(subdomains[2]))

MCEdited ==
  "noPorts" :> Without(Without(T, Https("port")), <<"server", "http", "port">>)
  @@ "httpOnly" :> With(With(T, Https("enabled"), Switch(FALSE)), <<"log", "level">>, Word("info"))
  @@ "climbs" :> With(T, Https("cert_file"), Path("../cert"))
  @@ "authority" :> With(T, Https("ca_file"), Path("hello"))
  @@ "twoNames" :> Organizations(<<"Acme", "acme">>, <<"a", "b">>)
  @@ "wallet" :> With(T, <<"network", "client_wallet_key_file">>, Path("wallet"))
  @@ "base" :> With(T, <<"network", "name">>, Word("base"))
  @@ "onToken" :> With(T, Resource("1", "token"), Switch(TRUE))

MCCut == { <<>>, Without(T, <<"network", "payment_address">>),
           [p \in {q \in DOMAIN T : q \notin {Resource("1", k) : k \in {"name", "type", "location", "price", "token"}}} |-> T[p]] }

MCEnvironment == { Nothing, "LOG_LEVEL" :> Word("warn"), "LOG_TYPE" :> Word("xml"),
                   "MACHINE_PAY_HOSTNAME" :> Number("10", 10), "HTTP_PORT" :> Number("9090", 9090) }
MCCommandLine == { Nothing, "LOG_LEVEL" :> Word("error"), "CONFIG" :> Path("other") }
=============================================================================

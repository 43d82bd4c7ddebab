----------------------------- MODULE MCSettings -----------------------------
(* Settings on a few hosts: an onion service (with and without the trailing *)
(* dot), a site and its subdomain, and a look-alike of the site.            *)
EXTENDS Settings

Site == <<"example", "com">>
OtherSite == <<"other", "org">>
SomeHosts == {<<"abc", "onion">>, <<"abc", "onion", "">>, Site,
              <<"www", "example", "com">>, <<"evilexample", "com", "">>}
SomeDomains == {Site, OtherSite}
=============================================================================

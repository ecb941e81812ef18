---------------------------- MODULE MCInformers ----------------------------
EXTENDS Informers

OneType == {"Schedule"}

TwoNamespaces == {"dev", "prod"}
=============================================================================

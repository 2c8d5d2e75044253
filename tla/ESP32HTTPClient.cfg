SPECIFICATION Spec
CONSTANTS
  HttpUrls = {plainUrl}
  HttpsUrls = {tlsUrl}
  BadUrls = {badUrl}
  Ports <- MCPorts
  CAs = {ca}
  EmptyPem = empty
  Bundles = {bundle}
  Certs = {cert}
  Keys = {key}
  Null = null
  MaxOpen = 2
INVARIANTS
  TypeOK
  SessionCurrent
PROPERTIES
  PolicyEnforced

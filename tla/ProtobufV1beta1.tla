-------------------------- MODULE ProtobufV1beta1 ---------------------------
(***************************************************************************)
(* How the messages of the API apiextensions.k8s.io/v1beta1                *)
(* are written and read (generated.pb.go, types.go, types_jsonschema.go).   *)
(* Of each message: the fields of its struct, the keys by which Marshal    *)
(* writes and Unmarshal knows them, and the bytes that Size counts for     *)
(* a key.  TypeMeta is written by the API machinery, not here.             *)
(***************************************************************************)
EXTENDS TLC, ProtobufCodec

NoFields == <<>>

\* CustomResourceDefinitionSpec
CustomResourceDefinitionSpec == [
    Group |-> One("string"), Version |-> One("string"),
    Names |-> One("CustomResourceDefinitionNames"), Scope |-> One("string"),
    Validation |-> Opt("CustomResourceValidation"),
    Subresources |-> Opt("CustomResourceSubresources"),
    Versions |-> Rep("CustomResourceDefinitionVersion"),
    AdditionalPrinterColumns |-> Rep("CustomResourceColumnDefinition"),
    SelectableFields |-> Rep("SelectableField"), Conversion |-> Opt("CustomResourceConversion"),
    PreserveUnknownFields |-> Opt("bool") ]
MarshalCustomResourceDefinitionSpec == [
    SelectableFields |-> Delimited(11), PreserveUnknownFields |-> Varint(10),
    Conversion |-> Delimited(9), AdditionalPrinterColumns |-> Delimited(8),
    Versions |-> Delimited(7), Subresources |-> Delimited(6), Validation |-> Delimited(5),
    Scope |-> Delimited(4), Names |-> Delimited(3), Version |-> Delimited(2),
    Group |-> Delimited(1) ]
SizeCustomResourceDefinitionSpec == [
    Group |-> 1, Version |-> 1, Names |-> 1, Scope |-> 1, Validation |-> 1, Subresources |-> 1,
    Versions |-> 1, AdditionalPrinterColumns |-> 1, Conversion |-> 1,
    PreserveUnknownFields |-> 1, SelectableFields |-> 1 ]
UnmarshalCustomResourceDefinitionSpec_1 == [
    Group |-> Delimited(1), Version |-> Delimited(2), Names |-> Delimited(3) ]
UnmarshalCustomResourceDefinitionSpec_2 == [
    Scope |-> Delimited(4), Validation |-> Delimited(5), Subresources |-> Delimited(6),
    Versions |-> Delimited(7) ]
UnmarshalCustomResourceDefinitionSpec_3 == [
    AdditionalPrinterColumns |-> Delimited(8), Conversion |-> Delimited(9),
    PreserveUnknownFields |-> Varint(10), SelectableFields |-> Delimited(11) ]
UnmarshalCustomResourceDefinitionSpec ==
       UnmarshalCustomResourceDefinitionSpec_1 @@ UnmarshalCustomResourceDefinitionSpec_2 @@ UnmarshalCustomResourceDefinitionSpec_3

\* CustomResourceConversion
CustomResourceConversion == [
    Strategy |-> One("string"), WebhookClientConfig |-> Opt("WebhookClientConfig"),
    ConversionReviewVersions |-> Rep("string") ]
MarshalCustomResourceConversion == [
    ConversionReviewVersions |-> Delimited(3), WebhookClientConfig |-> Delimited(2),
    Strategy |-> Delimited(1) ]
SizeCustomResourceConversion == [
    Strategy |-> 1, WebhookClientConfig |-> 1, ConversionReviewVersions |-> 1 ]
UnmarshalCustomResourceConversion == [
    Strategy |-> Delimited(1), WebhookClientConfig |-> Delimited(2),
    ConversionReviewVersions |-> Delimited(3) ]

\* WebhookClientConfig
WebhookClientConfig == [
    URL |-> Opt("string"), Service |-> Opt("ServiceReference"), CABundle |-> Opt("bytes") ]
MarshalWebhookClientConfig == [
    URL |-> Delimited(3), CABundle |-> Delimited(2), Service |-> Delimited(1) ]
SizeWebhookClientConfig == [ Service |-> 1, CABundle |-> 1, URL |-> 1 ]
UnmarshalWebhookClientConfig_1 == [ Service |-> Delimited(1), CABundle |-> Delimited(2) ]
UnmarshalWebhookClientConfig_2 == [ URL |-> Delimited(3) ]
UnmarshalWebhookClientConfig == UnmarshalWebhookClientConfig_1 @@ UnmarshalWebhookClientConfig_2

\* ServiceReference
ServiceReference == [
    Namespace |-> One("string"), Name |-> One("string"), Path |-> Opt("string"),
    Port |-> Opt("int") ]
MarshalServiceReference == [
    Port |-> Varint(4), Path |-> Delimited(3), Name |-> Delimited(2),
    Namespace |-> Delimited(1) ]
SizeServiceReference == [ Namespace |-> 1, Name |-> 1, Path |-> 1, Port |-> 1 ]
UnmarshalServiceReference_1 == [
    Namespace |-> Delimited(1), Name |-> Delimited(2), Path |-> Delimited(3) ]
UnmarshalServiceReference_2 == [ Port |-> Varint(4) ]
UnmarshalServiceReference == UnmarshalServiceReference_1 @@ UnmarshalServiceReference_2

\* CustomResourceDefinitionVersion
CustomResourceDefinitionVersion == [
    Name |-> One("string"), Served |-> One("bool"), Storage |-> One("bool"),
    Deprecated |-> One("bool"), DeprecationWarning |-> Opt("string"),
    Schema |-> Opt("CustomResourceValidation"),
    Subresources |-> Opt("CustomResourceSubresources"),
    AdditionalPrinterColumns |-> Rep("CustomResourceColumnDefinition"),
    SelectableFields |-> Rep("SelectableField") ]
MarshalCustomResourceDefinitionVersion == [
    SelectableFields |-> Delimited(9), DeprecationWarning |-> Delimited(8),
    Deprecated |-> Varint(7), AdditionalPrinterColumns |-> Delimited(6),
    Subresources |-> Delimited(5), Schema |-> Delimited(4), Storage |-> Varint(3),
    Served |-> Varint(2), Name |-> Delimited(1) ]
SizeCustomResourceDefinitionVersion == [
    Name |-> 1, Served |-> 1, Storage |-> 1, Schema |-> 1, Subresources |-> 1,
    AdditionalPrinterColumns |-> 1, Deprecated |-> 1, DeprecationWarning |-> 1,
    SelectableFields |-> 1 ]
UnmarshalCustomResourceDefinitionVersion_1 == [
    Name |-> Delimited(1), Served |-> Varint(2), Storage |-> Varint(3),
    Schema |-> Delimited(4) ]
UnmarshalCustomResourceDefinitionVersion_2 == [
    Subresources |-> Delimited(5), AdditionalPrinterColumns |-> Delimited(6),
    Deprecated |-> Varint(7), DeprecationWarning |-> Delimited(8) ]
UnmarshalCustomResourceDefinitionVersion_3 == [ SelectableFields |-> Delimited(9) ]
UnmarshalCustomResourceDefinitionVersion ==
       UnmarshalCustomResourceDefinitionVersion_1 @@ UnmarshalCustomResourceDefinitionVersion_2 @@ UnmarshalCustomResourceDefinitionVersion_3

\* SelectableField
SelectableField == [ JSONPath |-> One("string") ]
MarshalSelectableField == [ JSONPath |-> Delimited(1) ]
SizeSelectableField == [ JSONPath |-> 1 ]
UnmarshalSelectableField == [ JSONPath |-> Delimited(1) ]

\* CustomResourceColumnDefinition
CustomResourceColumnDefinition == [
    Name |-> One("string"), Type |-> One("string"), Format |-> One("string"),
    Description |-> One("string"), Priority |-> One("int"), JSONPath |-> One("string") ]
MarshalCustomResourceColumnDefinition == [
    JSONPath |-> Delimited(6), Priority |-> Varint(5), Description |-> Delimited(4),
    Format |-> Delimited(3), Type |-> Delimited(2), Name |-> Delimited(1) ]
SizeCustomResourceColumnDefinition == [
    Name |-> 1, Type |-> 1, Format |-> 1, Description |-> 1, Priority |-> 1, JSONPath |-> 1 ]
UnmarshalCustomResourceColumnDefinition_1 == [
    Name |-> Delimited(1), Type |-> Delimited(2), Format |-> Delimited(3) ]
UnmarshalCustomResourceColumnDefinition_2 == [
    Description |-> Delimited(4), Priority |-> Varint(5), JSONPath |-> Delimited(6) ]
UnmarshalCustomResourceColumnDefinition == UnmarshalCustomResourceColumnDefinition_1 @@ UnmarshalCustomResourceColumnDefinition_2

\* CustomResourceDefinitionNames
CustomResourceDefinitionNames == [
    Plural |-> One("string"), Singular |-> One("string"), ShortNames |-> Rep("string"),
    Kind |-> One("string"), ListKind |-> One("string"), Categories |-> Rep("string") ]
MarshalCustomResourceDefinitionNames == [
    Categories |-> Delimited(6), ListKind |-> Delimited(5), Kind |-> Delimited(4),
    ShortNames |-> Delimited(3), Singular |-> Delimited(2), Plural |-> Delimited(1) ]
SizeCustomResourceDefinitionNames == [
    Plural |-> 1, Singular |-> 1, ShortNames |-> 1, Kind |-> 1, ListKind |-> 1,
    Categories |-> 1 ]
UnmarshalCustomResourceDefinitionNames_1 == [
    Plural |-> Delimited(1), Singular |-> Delimited(2), ShortNames |-> Delimited(3) ]
UnmarshalCustomResourceDefinitionNames_2 == [
    Kind |-> Delimited(4), ListKind |-> Delimited(5), Categories |-> Delimited(6) ]
UnmarshalCustomResourceDefinitionNames == UnmarshalCustomResourceDefinitionNames_1 @@ UnmarshalCustomResourceDefinitionNames_2

\* CustomResourceDefinitionCondition
CustomResourceDefinitionCondition == [
    Type |-> One("string"), Status |-> One("string"), LastTransitionTime |-> One("external"),
    Reason |-> One("string"), Message |-> One("string"), ObservedGeneration |-> One("int") ]
MarshalCustomResourceDefinitionCondition == [
    ObservedGeneration |-> Varint(6), Message |-> Delimited(5), Reason |-> Delimited(4),
    LastTransitionTime |-> Delimited(3), Status |-> Delimited(2), Type |-> Delimited(1) ]
SizeCustomResourceDefinitionCondition == [
    Type |-> 1, Status |-> 1, LastTransitionTime |-> 1, Reason |-> 1, Message |-> 1,
    ObservedGeneration |-> 1 ]
UnmarshalCustomResourceDefinitionCondition_1 == [
    Type |-> Delimited(1), Status |-> Delimited(2), LastTransitionTime |-> Delimited(3) ]
UnmarshalCustomResourceDefinitionCondition_2 == [
    Reason |-> Delimited(4), Message |-> Delimited(5), ObservedGeneration |-> Varint(6) ]
UnmarshalCustomResourceDefinitionCondition == UnmarshalCustomResourceDefinitionCondition_1 @@ UnmarshalCustomResourceDefinitionCondition_2

\* CustomResourceDefinitionStatus
CustomResourceDefinitionStatus == [
    Conditions |-> Rep("CustomResourceDefinitionCondition"),
    AcceptedNames |-> One("CustomResourceDefinitionNames"), StoredVersions |-> Rep("string"),
    ObservedGeneration |-> One("int") ]
MarshalCustomResourceDefinitionStatus == [
    ObservedGeneration |-> Varint(4), StoredVersions |-> Delimited(3),
    AcceptedNames |-> Delimited(2), Conditions |-> Delimited(1) ]
SizeCustomResourceDefinitionStatus == [
    Conditions |-> 1, AcceptedNames |-> 1, StoredVersions |-> 1, ObservedGeneration |-> 1 ]
UnmarshalCustomResourceDefinitionStatus_1 == [
    Conditions |-> Delimited(1), AcceptedNames |-> Delimited(2),
    StoredVersions |-> Delimited(3) ]
UnmarshalCustomResourceDefinitionStatus_2 == [ ObservedGeneration |-> Varint(4) ]
UnmarshalCustomResourceDefinitionStatus == UnmarshalCustomResourceDefinitionStatus_1 @@ UnmarshalCustomResourceDefinitionStatus_2

\* CustomResourceDefinition
CustomResourceDefinition == [
    ObjectMeta |-> One("external"), Spec |-> One("CustomResourceDefinitionSpec"),
    Status |-> One("CustomResourceDefinitionStatus") ]
MarshalCustomResourceDefinition == [
    Status |-> Delimited(3), Spec |-> Delimited(2), ObjectMeta |-> Delimited(1) ]
SizeCustomResourceDefinition == [ ObjectMeta |-> 1, Spec |-> 1, Status |-> 1 ]
UnmarshalCustomResourceDefinition == [
    ObjectMeta |-> Delimited(1), Spec |-> Delimited(2), Status |-> Delimited(3) ]

\* CustomResourceDefinitionList
CustomResourceDefinitionList == [
    ListMeta |-> One("external"), Items |-> Rep("CustomResourceDefinition") ]
MarshalCustomResourceDefinitionList == [ Items |-> Delimited(2), ListMeta |-> Delimited(1) ]
SizeCustomResourceDefinitionList == [ ListMeta |-> 1, Items |-> 1 ]
UnmarshalCustomResourceDefinitionList == [ ListMeta |-> Delimited(1), Items |-> Delimited(2) ]

\* CustomResourceValidation
CustomResourceValidation == [ OpenAPIV3Schema |-> Opt("JSONSchemaProps") ]
MarshalCustomResourceValidation == [ OpenAPIV3Schema |-> Delimited(1) ]
SizeCustomResourceValidation == [ OpenAPIV3Schema |-> 1 ]
UnmarshalCustomResourceValidation == [ OpenAPIV3Schema |-> Delimited(1) ]

\* CustomResourceSubresources
CustomResourceSubresources == [
    Status |-> Opt("CustomResourceSubresourceStatus"),
    Scale |-> Opt("CustomResourceSubresourceScale") ]
MarshalCustomResourceSubresources == [ Scale |-> Delimited(2), Status |-> Delimited(1) ]
SizeCustomResourceSubresources == [ Status |-> 1, Scale |-> 1 ]
UnmarshalCustomResourceSubresources == [ Status |-> Delimited(1), Scale |-> Delimited(2) ]

\* CustomResourceSubresourceStatus
CustomResourceSubresourceStatus == NoFields
MarshalCustomResourceSubresourceStatus == NoFields
SizeCustomResourceSubresourceStatus == NoFields
UnmarshalCustomResourceSubresourceStatus == NoFields

\* CustomResourceSubresourceScale
CustomResourceSubresourceScale == [
    SpecReplicasPath |-> One("string"), StatusReplicasPath |-> One("string"),
    LabelSelectorPath |-> Opt("string") ]
MarshalCustomResourceSubresourceScale == [
    LabelSelectorPath |-> Delimited(3), StatusReplicasPath |-> Delimited(2),
    SpecReplicasPath |-> Delimited(1) ]
SizeCustomResourceSubresourceScale == [
    SpecReplicasPath |-> 1, StatusReplicasPath |-> 1, LabelSelectorPath |-> 1 ]
UnmarshalCustomResourceSubresourceScale == [
    SpecReplicasPath |-> Delimited(1), StatusReplicasPath |-> Delimited(2),
    LabelSelectorPath |-> Delimited(3) ]

\* ConversionReview
ConversionReview == [
    Request |-> Opt("ConversionRequest"), Response |-> Opt("ConversionResponse") ]
MarshalConversionReview == [ Response |-> Delimited(2), Request |-> Delimited(1) ]
SizeConversionReview == [ Request |-> 1, Response |-> 1 ]
UnmarshalConversionReview == [ Request |-> Delimited(1), Response |-> Delimited(2) ]

\* ConversionRequest
ConversionRequest == [
    UID |-> One("string"), DesiredAPIVersion |-> One("string"), Objects |-> Rep("external") ]
MarshalConversionRequest == [
    Objects |-> Delimited(3), DesiredAPIVersion |-> Delimited(2), UID |-> Delimited(1) ]
SizeConversionRequest == [ UID |-> 1, DesiredAPIVersion |-> 1, Objects |-> 1 ]
UnmarshalConversionRequest == [
    UID |-> Delimited(1), DesiredAPIVersion |-> Delimited(2), Objects |-> Delimited(3) ]

\* ConversionResponse
ConversionResponse == [
    UID |-> One("string"), ConvertedObjects |-> Rep("external"), Result |-> One("external") ]
MarshalConversionResponse == [
    Result |-> Delimited(3), ConvertedObjects |-> Delimited(2), UID |-> Delimited(1) ]
SizeConversionResponse == [ UID |-> 1, ConvertedObjects |-> 1, Result |-> 1 ]
UnmarshalConversionResponse == [
    UID |-> Delimited(1), ConvertedObjects |-> Delimited(2), Result |-> Delimited(3) ]

\* JSONSchemaProps
JSONSchemaProps == [
    ID |-> One("string"), Schema |-> One("string"), Ref |-> Opt("string"),
    Description |-> One("string"), Type |-> One("string"), Format |-> One("string"),
    Title |-> One("string"), Default |-> Opt("JSON"), Maximum |-> Opt("double"),
    ExclusiveMaximum |-> One("bool"), Minimum |-> Opt("double"),
    ExclusiveMinimum |-> One("bool"), MaxLength |-> Opt("int"), MinLength |-> Opt("int"),
    Pattern |-> One("string"), MaxItems |-> Opt("int"), MinItems |-> Opt("int"),
    UniqueItems |-> One("bool"), MultipleOf |-> Opt("double"), Enum |-> Rep("JSON"),
    MaxProperties |-> Opt("int"), MinProperties |-> Opt("int"), Required |-> Rep("string"),
    Items |-> Opt("JSONSchemaPropsOrArray"), AllOf |-> Rep("JSONSchemaProps"),
    OneOf |-> Rep("JSONSchemaProps"), AnyOf |-> Rep("JSONSchemaProps"),
    Not |-> Opt("JSONSchemaProps"), Properties |-> MapTo("JSONSchemaProps"),
    AdditionalProperties |-> Opt("JSONSchemaPropsOrBool"),
    PatternProperties |-> MapTo("JSONSchemaProps"),
    Dependencies |-> MapTo("JSONSchemaPropsOrStringArray"),
    AdditionalItems |-> Opt("JSONSchemaPropsOrBool"), Definitions |-> MapTo("JSONSchemaProps"),
    ExternalDocs |-> Opt("ExternalDocumentation"), Example |-> Opt("JSON"),
    Nullable |-> One("bool"), XPreserveUnknownFields |-> Opt("bool"),
    XEmbeddedResource |-> One("bool"), XIntOrString |-> One("bool"),
    XListMapKeys |-> Rep("string"), XListType |-> Opt("string"), XMapType |-> Opt("string"),
    XValidations |-> Rep("ValidationRule") ]
MarshalJSONSchemaProps_1 == [
    XValidations |-> Delimited(44), XMapType |-> Delimited(43), XListType |-> Delimited(42),
    XListMapKeys |-> Delimited(41), XIntOrString |-> Varint(40),
    XEmbeddedResource |-> Varint(39), XPreserveUnknownFields |-> Varint(38),
    Nullable |-> Varint(37), Example |-> Delimited(36), ExternalDocs |-> Delimited(35) ]
MarshalJSONSchemaProps_2 == [
    Definitions |-> Delimited(34), AdditionalItems |-> Delimited(33),
    Dependencies |-> Delimited(32), PatternProperties |-> Delimited(31),
    AdditionalProperties |-> Delimited(30) ]
MarshalJSONSchemaProps_3 == [
    Properties |-> Delimited(29), Not |-> Delimited(28), AnyOf |-> Delimited(27),
    OneOf |-> Delimited(26), AllOf |-> Delimited(25), Items |-> Delimited(24),
    Required |-> Delimited(23), MinProperties |-> Varint(22), MaxProperties |-> Varint(21),
    Enum |-> Delimited(20) ]
MarshalJSONSchemaProps_4 == [
    MultipleOf |-> Fixed64(19), UniqueItems |-> Varint(18), MinItems |-> Varint(17),
    MaxItems |-> Varint(16), Pattern |-> Delimited(15), MinLength |-> Varint(14),
    MaxLength |-> Varint(13), ExclusiveMinimum |-> Varint(12), Minimum |-> Fixed64(11),
    ExclusiveMaximum |-> Varint(10), Maximum |-> Fixed64(9), Default |-> Delimited(8),
    Title |-> Delimited(7), Format |-> Delimited(6), Type |-> Delimited(5),
    Description |-> Delimited(4), Ref |-> Delimited(3), Schema |-> Delimited(2),
    ID |-> Delimited(1) ]
MarshalJSONSchemaProps ==
       MarshalJSONSchemaProps_1 @@ MarshalJSONSchemaProps_2 @@ MarshalJSONSchemaProps_3
    @@ MarshalJSONSchemaProps_4
SizeJSONSchemaProps_1 == [
    ID |-> 1, Schema |-> 1, Ref |-> 1, Description |-> 1, Type |-> 1, Format |-> 1, Title |-> 1,
    Default |-> 1, Maximum |-> 1, ExclusiveMaximum |-> 1, Minimum |-> 1, ExclusiveMinimum |-> 1,
    MaxLength |-> 1, MinLength |-> 1, Pattern |-> 1, MaxItems |-> 2, MinItems |-> 2,
    UniqueItems |-> 2, MultipleOf |-> 2, Enum |-> 2, MaxProperties |-> 2, MinProperties |-> 2,
    Required |-> 2, Items |-> 2, AllOf |-> 2, OneOf |-> 2, AnyOf |-> 2, Not |-> 2,
    Properties |-> 2, AdditionalProperties |-> 2, PatternProperties |-> 2, Dependencies |-> 2,
    AdditionalItems |-> 2, Definitions |-> 2, ExternalDocs |-> 2, Example |-> 2,
    Nullable |-> 2 ]
SizeJSONSchemaProps_2 == [
    XPreserveUnknownFields |-> 2, XEmbeddedResource |-> 2, XIntOrString |-> 2,
    XListMapKeys |-> 2, XListType |-> 2, XMapType |-> 2, XValidations |-> 2 ]
SizeJSONSchemaProps == SizeJSONSchemaProps_1 @@ SizeJSONSchemaProps_2
UnmarshalJSONSchemaProps_1 == [
    ID |-> Delimited(1), Schema |-> Delimited(2), Ref |-> Delimited(3) ]
UnmarshalJSONSchemaProps_2 == [
    Description |-> Delimited(4), Type |-> Delimited(5), Format |-> Delimited(6),
    Title |-> Delimited(7) ]
UnmarshalJSONSchemaProps_3 == [
    Default |-> Delimited(8), Maximum |-> Fixed64(9), ExclusiveMaximum |-> Varint(10),
    Minimum |-> Fixed64(11), ExclusiveMinimum |-> Varint(12), MaxLength |-> Varint(13),
    MinLength |-> Varint(14) ]
UnmarshalJSONSchemaProps_4 == [
    Pattern |-> Delimited(15), MaxItems |-> Varint(16), MinItems |-> Varint(17),
    UniqueItems |-> Varint(18), MultipleOf |-> Fixed64(19), Enum |-> Delimited(20) ]
UnmarshalJSONSchemaProps_5 == [
    MaxProperties |-> Varint(21), MinProperties |-> Varint(22), Required |-> Delimited(23),
    Items |-> Delimited(24), AllOf |-> Delimited(25) ]
UnmarshalJSONSchemaProps_6 == [
    OneOf |-> Delimited(26), AnyOf |-> Delimited(27), Not |-> Delimited(28) ]
UnmarshalJSONSchemaProps_7 == [ Properties |-> Delimited(29) ]
UnmarshalJSONSchemaProps_8 == [ AdditionalProperties |-> Delimited(30) ]
UnmarshalJSONSchemaProps_9 == [ PatternProperties |-> Delimited(31) ]
UnmarshalJSONSchemaProps_10 == [ Dependencies |-> Delimited(32) ]
UnmarshalJSONSchemaProps_11 == [ AdditionalItems |-> Delimited(33) ]
UnmarshalJSONSchemaProps_12 == [ Definitions |-> Delimited(34) ]
UnmarshalJSONSchemaProps_13 == [
    ExternalDocs |-> Delimited(35), Example |-> Delimited(36), Nullable |-> Varint(37),
    XPreserveUnknownFields |-> Varint(38), XEmbeddedResource |-> Varint(39) ]
UnmarshalJSONSchemaProps_14 == [
    XIntOrString |-> Varint(40), XListMapKeys |-> Delimited(41), XListType |-> Delimited(42),
    XMapType |-> Delimited(43) ]
UnmarshalJSONSchemaProps_15 == [ XValidations |-> Delimited(44) ]
UnmarshalJSONSchemaProps ==
       UnmarshalJSONSchemaProps_1 @@ UnmarshalJSONSchemaProps_2 @@ UnmarshalJSONSchemaProps_3
    @@ UnmarshalJSONSchemaProps_4 @@ UnmarshalJSONSchemaProps_5 @@ UnmarshalJSONSchemaProps_6
    @@ UnmarshalJSONSchemaProps_7 @@ UnmarshalJSONSchemaProps_8 @@ UnmarshalJSONSchemaProps_9
    @@ UnmarshalJSONSchemaProps_10 @@ UnmarshalJSONSchemaProps_11 @@ UnmarshalJSONSchemaProps_12
    @@ UnmarshalJSONSchemaProps_13 @@ UnmarshalJSONSchemaProps_14 @@ UnmarshalJSONSchemaProps_15

\* ValidationRule
ValidationRule == [
    Rule |-> One("string"), Message |-> One("string"), MessageExpression |-> One("string"),
    Reason |-> Opt("string"), FieldPath |-> One("string"), OptionalOldSelf |-> Opt("bool") ]
MarshalValidationRule == [
    OptionalOldSelf |-> Varint(6), FieldPath |-> Delimited(5), Reason |-> Delimited(4),
    MessageExpression |-> Delimited(3), Message |-> Delimited(2), Rule |-> Delimited(1) ]
SizeValidationRule == [
    Rule |-> 1, Message |-> 1, MessageExpression |-> 1, Reason |-> 1, FieldPath |-> 1,
    OptionalOldSelf |-> 1 ]
UnmarshalValidationRule_1 == [
    Rule |-> Delimited(1), Message |-> Delimited(2), MessageExpression |-> Delimited(3) ]
UnmarshalValidationRule_2 == [
    Reason |-> Delimited(4), FieldPath |-> Delimited(5), OptionalOldSelf |-> Varint(6) ]
UnmarshalValidationRule == UnmarshalValidationRule_1 @@ UnmarshalValidationRule_2

\* JSON
JSON == [ Raw |-> Opt("bytes") ]
MarshalJSON == [ Raw |-> Delimited(1) ]
SizeJSON == [ Raw |-> 1 ]
UnmarshalJSON == [ Raw |-> Delimited(1) ]

\* JSONSchemaPropsOrArray
JSONSchemaPropsOrArray == [
    Schema |-> Opt("JSONSchemaProps"), JSONSchemas |-> Rep("JSONSchemaProps") ]
MarshalJSONSchemaPropsOrArray == [ JSONSchemas |-> Delimited(2), Schema |-> Delimited(1) ]
SizeJSONSchemaPropsOrArray == [ Schema |-> 1, JSONSchemas |-> 1 ]
UnmarshalJSONSchemaPropsOrArray == [ Schema |-> Delimited(1), JSONSchemas |-> Delimited(2) ]

\* JSONSchemaPropsOrBool
JSONSchemaPropsOrBool == [ Allows |-> One("bool"), Schema |-> Opt("JSONSchemaProps") ]
MarshalJSONSchemaPropsOrBool == [ Schema |-> Delimited(2), Allows |-> Varint(1) ]
SizeJSONSchemaPropsOrBool == [ Allows |-> 1, Schema |-> 1 ]
UnmarshalJSONSchemaPropsOrBool == [ Allows |-> Varint(1), Schema |-> Delimited(2) ]

\* JSONSchemaPropsOrStringArray
JSONSchemaPropsOrStringArray == [
    Schema |-> Opt("JSONSchemaProps"), Property |-> Rep("string") ]
MarshalJSONSchemaPropsOrStringArray == [ Property |-> Delimited(2), Schema |-> Delimited(1) ]
SizeJSONSchemaPropsOrStringArray == [ Schema |-> 1, Property |-> 1 ]
UnmarshalJSONSchemaPropsOrStringArray == [ Schema |-> Delimited(1), Property |-> Delimited(2) ]

\* ExternalDocumentation
ExternalDocumentation == [ Description |-> One("string"), URL |-> One("string") ]
MarshalExternalDocumentation == [ URL |-> Delimited(2), Description |-> Delimited(1) ]
SizeExternalDocumentation == [ Description |-> 1, URL |-> 1 ]
UnmarshalExternalDocumentation == [ Description |-> Delimited(1), URL |-> Delimited(2) ]
-----------------------------------------------------------------------------
(* The codec of all messages.                                              *)

Structs == [
    CustomResourceDefinitionSpec |-> CustomResourceDefinitionSpec,
    CustomResourceConversion |-> CustomResourceConversion,
    WebhookClientConfig |-> WebhookClientConfig, ServiceReference |-> ServiceReference,
    CustomResourceDefinitionVersion |-> CustomResourceDefinitionVersion,
    SelectableField |-> SelectableField,
    CustomResourceColumnDefinition |-> CustomResourceColumnDefinition,
    CustomResourceDefinitionNames |-> CustomResourceDefinitionNames,
    CustomResourceDefinitionCondition |-> CustomResourceDefinitionCondition,
    CustomResourceDefinitionStatus |-> CustomResourceDefinitionStatus,
    CustomResourceDefinition |-> CustomResourceDefinition,
    CustomResourceDefinitionList |-> CustomResourceDefinitionList,
    CustomResourceValidation |-> CustomResourceValidation,
    CustomResourceSubresources |-> CustomResourceSubresources,
    CustomResourceSubresourceStatus |-> CustomResourceSubresourceStatus,
    CustomResourceSubresourceScale |-> CustomResourceSubresourceScale,
    ConversionReview |-> ConversionReview, ConversionRequest |-> ConversionRequest,
    ConversionResponse |-> ConversionResponse, JSONSchemaProps |-> JSONSchemaProps,
    ValidationRule |-> ValidationRule, JSON |-> JSON,
    JSONSchemaPropsOrArray |-> JSONSchemaPropsOrArray,
    JSONSchemaPropsOrBool |-> JSONSchemaPropsOrBool,
    JSONSchemaPropsOrStringArray |-> JSONSchemaPropsOrStringArray,
    ExternalDocumentation |-> ExternalDocumentation ]

Marshals == [
    CustomResourceDefinitionSpec |-> MarshalCustomResourceDefinitionSpec,
    CustomResourceConversion |-> MarshalCustomResourceConversion,
    WebhookClientConfig |-> MarshalWebhookClientConfig,
    ServiceReference |-> MarshalServiceReference,
    CustomResourceDefinitionVersion |-> MarshalCustomResourceDefinitionVersion,
    SelectableField |-> MarshalSelectableField,
    CustomResourceColumnDefinition |-> MarshalCustomResourceColumnDefinition,
    CustomResourceDefinitionNames |-> MarshalCustomResourceDefinitionNames,
    CustomResourceDefinitionCondition |-> MarshalCustomResourceDefinitionCondition,
    CustomResourceDefinitionStatus |-> MarshalCustomResourceDefinitionStatus,
    CustomResourceDefinition |-> MarshalCustomResourceDefinition,
    CustomResourceDefinitionList |-> MarshalCustomResourceDefinitionList,
    CustomResourceValidation |-> MarshalCustomResourceValidation,
    CustomResourceSubresources |-> MarshalCustomResourceSubresources,
    CustomResourceSubresourceStatus |-> MarshalCustomResourceSubresourceStatus,
    CustomResourceSubresourceScale |-> MarshalCustomResourceSubresourceScale,
    ConversionReview |-> MarshalConversionReview,
    ConversionRequest |-> MarshalConversionRequest,
    ConversionResponse |-> MarshalConversionResponse,
    JSONSchemaProps |-> MarshalJSONSchemaProps, ValidationRule |-> MarshalValidationRule,
    JSON |-> MarshalJSON, JSONSchemaPropsOrArray |-> MarshalJSONSchemaPropsOrArray,
    JSONSchemaPropsOrBool |-> MarshalJSONSchemaPropsOrBool,
    JSONSchemaPropsOrStringArray |-> MarshalJSONSchemaPropsOrStringArray,
    ExternalDocumentation |-> MarshalExternalDocumentation ]

Sizes == [
    CustomResourceDefinitionSpec |-> SizeCustomResourceDefinitionSpec,
    CustomResourceConversion |-> SizeCustomResourceConversion,
    WebhookClientConfig |-> SizeWebhookClientConfig, ServiceReference |-> SizeServiceReference,
    CustomResourceDefinitionVersion |-> SizeCustomResourceDefinitionVersion,
    SelectableField |-> SizeSelectableField,
    CustomResourceColumnDefinition |-> SizeCustomResourceColumnDefinition,
    CustomResourceDefinitionNames |-> SizeCustomResourceDefinitionNames,
    CustomResourceDefinitionCondition |-> SizeCustomResourceDefinitionCondition,
    CustomResourceDefinitionStatus |-> SizeCustomResourceDefinitionStatus,
    CustomResourceDefinition |-> SizeCustomResourceDefinition,
    CustomResourceDefinitionList |-> SizeCustomResourceDefinitionList,
    CustomResourceValidation |-> SizeCustomResourceValidation,
    CustomResourceSubresources |-> SizeCustomResourceSubresources,
    CustomResourceSubresourceStatus |-> SizeCustomResourceSubresourceStatus,
    CustomResourceSubresourceScale |-> SizeCustomResourceSubresourceScale,
    ConversionReview |-> SizeConversionReview, ConversionRequest |-> SizeConversionRequest,
    ConversionResponse |-> SizeConversionResponse, JSONSchemaProps |-> SizeJSONSchemaProps,
    ValidationRule |-> SizeValidationRule, JSON |-> SizeJSON,
    JSONSchemaPropsOrArray |-> SizeJSONSchemaPropsOrArray,
    JSONSchemaPropsOrBool |-> SizeJSONSchemaPropsOrBool,
    JSONSchemaPropsOrStringArray |-> SizeJSONSchemaPropsOrStringArray,
    ExternalDocumentation |-> SizeExternalDocumentation ]

Unmarshals == [
    CustomResourceDefinitionSpec |-> UnmarshalCustomResourceDefinitionSpec,
    CustomResourceConversion |-> UnmarshalCustomResourceConversion,
    WebhookClientConfig |-> UnmarshalWebhookClientConfig,
    ServiceReference |-> UnmarshalServiceReference,
    CustomResourceDefinitionVersion |-> UnmarshalCustomResourceDefinitionVersion,
    SelectableField |-> UnmarshalSelectableField,
    CustomResourceColumnDefinition |-> UnmarshalCustomResourceColumnDefinition,
    CustomResourceDefinitionNames |-> UnmarshalCustomResourceDefinitionNames,
    CustomResourceDefinitionCondition |-> UnmarshalCustomResourceDefinitionCondition,
    CustomResourceDefinitionStatus |-> UnmarshalCustomResourceDefinitionStatus,
    CustomResourceDefinition |-> UnmarshalCustomResourceDefinition,
    CustomResourceDefinitionList |-> UnmarshalCustomResourceDefinitionList,
    CustomResourceValidation |-> UnmarshalCustomResourceValidation,
    CustomResourceSubresources |-> UnmarshalCustomResourceSubresources,
    CustomResourceSubresourceStatus |-> UnmarshalCustomResourceSubresourceStatus,
    CustomResourceSubresourceScale |-> UnmarshalCustomResourceSubresourceScale,
    ConversionReview |-> UnmarshalConversionReview,
    ConversionRequest |-> UnmarshalConversionRequest,
    ConversionResponse |-> UnmarshalConversionResponse,
    JSONSchemaProps |-> UnmarshalJSONSchemaProps, ValidationRule |-> UnmarshalValidationRule,
    JSON |-> UnmarshalJSON, JSONSchemaPropsOrArray |-> UnmarshalJSONSchemaPropsOrArray,
    JSONSchemaPropsOrBool |-> UnmarshalJSONSchemaPropsOrBool,
    JSONSchemaPropsOrStringArray |-> UnmarshalJSONSchemaPropsOrStringArray,
    ExternalDocumentation |-> UnmarshalExternalDocumentation ]

Codec ==
  [ struct |-> Structs, marshal |-> Marshals, order |-> [m \in DOMAIN Marshals |-> InOrder(Marshals[m])],
    size |-> Sizes, unmarshal |-> Unmarshals ]

=============================================================================
